--------------------------- MODULE HandshakeProofs ---------------------------
(***************************************************************************)
(* Proofs about CarrierHandshake, for every set of versions and every      *)
(* capacity and bound: type correctness, agreement on the version, and     *)
(* that an owner hears of the end of its connection at most once.          *)
(***************************************************************************)
EXTENDS CarrierHandshake, SequenceTheorems, TLAPS

-----------------------------------------------------------------------------
(* The inductive invariant.                                                *)

\* An acknowledgement on its way to the initiator was sent by a responder
\* that had found the versions equal and left the connecting phase; the
\* initiator never sends one.
AckFits(m) ==
    m.kind = "ack" => /\ ~connecting[Responder]
                      /\ version[Initiator] = version[Responder]
RequestFits(m) == m.kind # "ack" /\ m.version = version[Initiator]

Fits(n, m) == IF n = Initiator THEN AckFits(m) ELSE RequestFits(m)

Elems(q) == {q[i] : i \in 1 .. Len(q)}
AllFit(n, q) == \A m \in Elems(q) : Fits(n, m)

\* Every message on its way to n, or queued by its peer, fits.
AgreeInv ==
    /\ \A n \in Peers : AllFit(n, wire[n]) /\ AllFit(n, inbox[n])
                        /\ AllFit(Other(n), toSend[n])
    /\ ConnectedAgree

Discs(q) == {i \in 1 .. Len(q) : q[i].kind = "disconnect"}

AtMostOne(S) == \A i, j \in S : i = j

\* A peer sends SM_DISCONNECT at most once, on its way out, so at most one is
\* on its way to n; n, once it has announced the end, takes in no other.
OnceFits(n) ==
    /\ AtMostOne(Discs(wire[n])) /\ AtMostOne(Discs(inbox[n]))
    /\ Discs(toSend[n]) = {}
    /\ Discs(wire[n]) = {} \/ Discs(inbox[n]) = {}
    /\ Discs(wire[n]) # {} \/ Discs(inbox[n]) # {} =>
          driver[Other(n)] \in {"closing", "exited"}
    /\ closings[n] # 0 => /\ closings[n] = 1
                          /\ flag[n]
                          /\ driver[n] \in {"handling", "exited"}
                          /\ Discs(inbox[n]) = {}
    /\ driver[n] \in {"idle", "closing", "failing"} => inbox[n] = << >>

OnceInv == \A n \in Peers : OnceFits(n)

IndInv == TypeOK /\ AgreeInv /\ OnceInv

-----------------------------------------------------------------------------
(* Sequences.                                                              *)

\* RemoveAt drops one element and keeps the order of the others.
LEMMA RemoveAtProperties ==
    ASSUME NEW S, NEW s \in Seq(S), NEW i \in 1 .. Len(s)
    PROVE  /\ RemoveAt(s, i) \in Seq(S)
           /\ Len(RemoveAt(s, i)) = Len(s) - 1
           /\ \A j \in 1 .. Len(s) - 1 :
                 RemoveAt(s, i)[j] = IF j < i THEN s[j] ELSE s[j + 1]
<1> DEFINE a == SubSeq(s, 1, i - 1)
           b == SubSeq(s, i + 1, Len(s))
<1>1. /\ Len(s) \in Nat
      /\ \A j \in 1 .. Len(s) : s[j] \in S
  BY LenProperties, ElementOfSeq
<1>2. a \in Seq(S) /\ Len(a) = i - 1 /\ \A j \in 1 .. i - 1 : a[j] = s[j]
  BY <1>1, SubSeqProperties
<1>3. b \in Seq(S) /\ Len(b) = Len(s) - i /\ \A j \in 1 .. Len(s) - i : b[j] = s[j + i]
  BY <1>1, SubSeqProperties
<1>4. RemoveAt(s, i) = a \o b
  BY DEF RemoveAt
<1> HIDE DEF a, b
<1>5. /\ a \o b \in Seq(S)
      /\ Len(a \o b) = Len(a) + Len(b)
      /\ \A j \in 1 .. Len(a) + Len(b) :
            (a \o b)[j] = IF j <= Len(a) THEN a[j] ELSE b[j - Len(a)]
  BY <1>2, <1>3, ConcatProperties
<1>6. ASSUME NEW j \in 1 .. Len(s) - 1
      PROVE  (a \o b)[j] = IF j < i THEN s[j] ELSE s[j + 1]
  <2>1. j \in 1 .. Len(a) + Len(b)
    BY <1>1, <1>2, <1>3
  <2>2. CASE j < i
    <3>1. j \in 1 .. i - 1 /\ j <= Len(a)
      BY <1>1, <1>2, <2>2
    <3>2. (a \o b)[j] = a[j]
      BY <1>5, <2>1, <3>1
    <3> QED BY <1>2, <2>2, <3>1, <3>2
  <2>3. CASE ~(j < i)
    <3>1. j - Len(a) \in 1 .. Len(s) - i /\ j - Len(a) + i = j + 1 /\ ~(j <= Len(a))
      BY <1>1, <1>2, <2>3
    <3>2. b[j - Len(a)] = s[j + 1]
      BY <1>3, <3>1
    <3>3. (a \o b)[j] = b[j - Len(a)]
      BY <1>5, <2>1, <3>1
    <3> QED BY <2>3, <3>2, <3>3
  <2> QED BY <2>2, <2>3
<1>7. Len(a) + Len(b) = Len(s) - 1
  BY <1>1, <1>2, <1>3
<1> QED BY <1>4, <1>5, <1>6, <1>7

\* What RemoveAt, Append and Tail do to the elements and to the disconnects.
LEMMA RemoveAtFacts ==
    ASSUME NEW s \in Seq(Messages), NEW i \in 1 .. Len(s)
    PROVE  /\ Elems(RemoveAt(s, i)) \subseteq Elems(s)
           /\ s[i] \in Elems(s)
           /\ AtMostOne(Discs(s)) => AtMostOne(Discs(RemoveAt(s, i)))
           /\ Discs(s) = {} => Discs(RemoveAt(s, i)) = {} /\ s[i].kind # "disconnect"
           /\ AtMostOne(Discs(s)) /\ s[i].kind = "disconnect" => Discs(RemoveAt(s, i)) = {}
<1> DEFINE r == RemoveAt(s, i)
<1>1. /\ r \in Seq(Messages)
      /\ Len(r) = Len(s) - 1
      /\ \A j \in 1 .. Len(s) - 1 : r[j] = IF j < i THEN s[j] ELSE s[j + 1]
  BY RemoveAtProperties
<1>2. Len(s) \in Nat
  BY LenProperties
<1> HIDE DEF r
<1> DEFINE pos(j) == IF j < i THEN j ELSE j + 1
<1>p1. ASSUME NEW j \in 1 .. Len(r)
      PROVE  pos(j) \in (1 .. Len(s)) \ {i} /\ r[j] = s[pos(j)]
  BY <1>1, <1>2
<1>p2. ASSUME NEW j \in 1 .. Len(r), NEW l \in 1 .. Len(r), j # l
      PROVE  pos(j) # pos(l)
  BY <1>1, <1>2, <1>p2
<1> HIDE DEF pos
<1>3. ASSUME NEW j \in 1 .. Len(r)
      PROVE  \E k \in (1 .. Len(s)) \ {i} : r[j] = s[k]
  BY <1>p1
<1>5. Elems(r) \subseteq Elems(s)
  BY <1>3 DEF Elems
<1>6. AtMostOne(Discs(s)) => AtMostOne(Discs(r))
  BY SMTT(30), <1>p1, <1>p2 DEF AtMostOne, Discs
<1>7. Discs(s) = {} => Discs(r) = {} /\ s[i].kind # "disconnect"
  BY <1>3 DEF Discs
<1>8. AtMostOne(Discs(s)) /\ s[i].kind = "disconnect" => Discs(r) = {}
  BY SMTT(30), <1>3 DEF AtMostOne, Discs
<1> QED BY <1>5, <1>6, <1>7, <1>8 DEF r, Elems

LEMMA AppendFacts ==
    ASSUME NEW s \in Seq(Messages), NEW e \in Messages
    PROVE  /\ Elems(Append(s, e)) = Elems(s) \cup {e}
           /\ e.kind # "disconnect" => Discs(Append(s, e)) = Discs(s)
           /\ Discs(s) = {} => AtMostOne(Discs(Append(s, e)))
<1>1. /\ Len(Append(s, e)) = Len(s) + 1 /\ Len(s) \in Nat
      /\ \A j \in 1 .. Len(s) : Append(s, e)[j] = s[j]
      /\ Append(s, e)[Len(s) + 1] = e
  BY AppendProperties, LenProperties
<1>2. 1 .. Len(s) + 1 = 1 .. Len(s) \cup {Len(s) + 1}
  BY <1>1
<1>3. Elems(Append(s, e)) = Elems(s) \cup {e}
  BY <1>1, <1>2 DEF Elems
<1>4. e.kind # "disconnect" => Discs(Append(s, e)) = Discs(s)
  BY <1>1, <1>2 DEF Discs
<1>5. Discs(s) = {} => AtMostOne(Discs(Append(s, e)))
  BY <1>1, <1>2 DEF Discs, AtMostOne
<1> QED BY <1>3, <1>4, <1>5

LEMMA TailFacts ==
    ASSUME NEW s \in Seq(Messages), s # << >>
    PROVE  /\ Elems(Tail(s)) \subseteq Elems(s)
           /\ Head(s) \in Elems(s) /\ Head(s) \in Messages
           /\ Discs(s) = {} => Discs(Tail(s)) = {} /\ Head(s).kind # "disconnect"
           /\ AtMostOne(Discs(s)) =>
                 /\ AtMostOne(Discs(Tail(s)))
                 /\ Head(s).kind = "disconnect" => Discs(Tail(s)) = {}
<1>1. /\ Len(s) \in Nat \ {0} /\ Head(s) = s[1] /\ Head(s) \in Messages
      /\ Len(Tail(s)) = Len(s) - 1
      /\ \A j \in 1 .. Len(Tail(s)) : Tail(s)[j] = s[j + 1]
  BY HeadTailProperties, EmptySeq
<1>2. \A j \in 1 .. Len(Tail(s)) : j + 1 \in 1 .. Len(s) \ {1}
  BY <1>1
<1>3. 1 \in 1 .. Len(s)
  BY <1>1
<1>4. Elems(Tail(s)) \subseteq Elems(s) /\ Head(s) \in Elems(s)
  BY <1>1, <1>2, <1>3 DEF Elems
<1>5. Discs(s) = {} => Discs(Tail(s)) = {} /\ Head(s).kind # "disconnect"
  BY <1>1, <1>2, <1>3 DEF Discs
<1>6. ASSUME AtMostOne(Discs(s))
      PROVE  AtMostOne(Discs(Tail(s)))
  <2> SUFFICES ASSUME NEW j \in Discs(Tail(s)), NEW k \in Discs(Tail(s)) PROVE j = k
    BY DEF AtMostOne
  <2>1. j + 1 \in Discs(s) /\ k + 1 \in Discs(s) /\ j \in Nat /\ k \in Nat
    BY <1>1, <1>2 DEF Discs
  <2>2. j + 1 = k + 1
    BY <1>6, <2>1 DEF AtMostOne
  <2> QED BY <2>1, <2>2
<1>7. ASSUME AtMostOne(Discs(s)), Head(s).kind = "disconnect"
      PROVE  Discs(Tail(s)) = {}
  <2> SUFFICES ASSUME NEW j \in Discs(Tail(s)) PROVE FALSE
    OBVIOUS
  <2>1. j + 1 \in Discs(s) /\ 1 \in Discs(s) /\ j \in Nat \ {0}
    BY <1>1, <1>2, <1>3, <1>7 DEF Discs
  <2>2. j + 1 = 1
    BY <1>7, <2>1 DEF AtMostOne
  <2> QED BY <2>1, <2>2
<1> QED BY <1>1, <1>4, <1>5, <1>6, <1>7

\* The front of a queue to which something was added.
LEMMA CutFacts ==
    ASSUME NEW s \in Seq(Messages), NEW t \in Seq(Messages),
           NEW k \in 0 .. Len(s \o t)
    PROVE  /\ SubSeq(s \o t, 1, k) \in Seq(Messages)
           /\ Len(SubSeq(s \o t, 1, k)) = k
           /\ Elems(SubSeq(s \o t, 1, k)) \subseteq Elems(s) \cup Elems(t)
           /\ Discs(s) = {} /\ Discs(t) = {} => Discs(SubSeq(s \o t, 1, k)) = {}
           /\ AtMostOne(Discs(s)) /\ Discs(t) = {} => AtMostOne(Discs(SubSeq(s \o t, 1, k)))
           /\ Discs(s) = {} /\ Len(t) = 1 => AtMostOne(Discs(SubSeq(s \o t, 1, k)))
<1> DEFINE c == SubSeq(s \o t, 1, k)
<1>1. /\ s \o t \in Seq(Messages) /\ Len(s) \in Nat /\ Len(t) \in Nat
      /\ Len(s \o t) = Len(s) + Len(t)
      /\ \A i \in 1 .. Len(s) + Len(t) :
            (s \o t)[i] = IF i <= Len(s) THEN s[i] ELSE t[i - Len(s)]
  BY ConcatProperties, LenProperties
<1>2. \A i \in 1 .. k : (s \o t)[i] \in Messages
  BY <1>1, ElementOfSeq
<1>3. /\ c \in Seq(Messages) /\ Len(c) = k
      /\ \A i \in 1 .. k : c[i] = (s \o t)[i]
  BY <1>1, <1>2, SubSeqProperties
<1> HIDE DEF c
<1>4. ASSUME NEW i \in 1 .. k
      PROVE  \/ i \in 1 .. Len(s) /\ c[i] = s[i]
             \/ i - Len(s) \in 1 .. Len(t) /\ c[i] = t[i - Len(s)]
  BY <1>1, <1>3
<1>5. Elems(c) \subseteq Elems(s) \cup Elems(t)
  BY ZenonT(60), <1>3, <1>4 DEF Elems
<1>6. ASSUME NEW i \in Discs(c)
      PROVE  i \in Discs(s) \/ (i - Len(s) \in Discs(t) /\ i \in Int)
  BY <1>1, <1>3, <1>4 DEF Discs
<1>7. Discs(s) = {} /\ Discs(t) = {} => Discs(c) = {}
  BY <1>6
<1>8. AtMostOne(Discs(s)) /\ Discs(t) = {} => AtMostOne(Discs(c))
  BY <1>6 DEF AtMostOne
<1>9. ASSUME Discs(s) = {}, Len(t) = 1, NEW i \in Discs(c), NEW j \in Discs(c)
      PROVE  i = j
  <2>1. i - Len(s) \in 1 .. 1 /\ j - Len(s) \in 1 .. 1 /\ i \in Int /\ j \in Int
    BY <1>6, <1>9 DEF Discs
  <2> QED BY <1>1, <2>1
<1> QED BY <1>3, <1>5, <1>7, <1>8, <1>9 DEF c, AtMostOne

-----------------------------------------------------------------------------
(* The steps that several actions share.                                   *)

LEMMA PeerFacts ==
    /\ Initiator \in Peers /\ Responder \in Peers /\ Initiator # Responder
    /\ \A n \in Peers : /\ Other(n) \in Peers /\ Other(n) # n
                        /\ \A m \in Peers : m = n \/ m = Other(n)
                        /\ Other(Other(n)) = n
BY DEF Peers, Other, Initiator, Responder

\* send_pending_data adds messages for the other peer, and drops some.
LEMMA TransmitFacts ==
    ASSUME TypeOK, NEW n \in Peers, NEW ms \in Seq(Messages), Transmit(n, ms)
    PROVE  /\ wire' \in [Peers -> Seq(Messages)]
           /\ \A m \in Peers : Len(wire'[m]) <= MaxWire
           /\ wire'[n] = wire[n]
           /\ Elems(wire'[Other(n)]) \subseteq Elems(wire[Other(n)]) \cup Elems(ms)
           /\ Discs(wire[Other(n)]) = {} /\ Discs(ms) = {} => Discs(wire'[Other(n)]) = {}
           /\ AtMostOne(Discs(wire[Other(n)])) /\ Discs(ms) = {}
                 => AtMostOne(Discs(wire'[Other(n)]))
           /\ Discs(wire[Other(n)]) = {} /\ Len(ms) = 1 => AtMostOne(Discs(wire'[Other(n)]))
<1> DEFINE o == Other(n)
           w == wire[o] \o ms
           k == IF Len(w) < MaxWire THEN Len(w) ELSE MaxWire
<1>1. o \in Peers /\ o # n /\ wire[o] \in Seq(Messages) /\ MaxWire \in Nat
  BY PeerFacts, CarrierHandshakeAssumption DEF TypeOK
<1>2. Len(w) \in Nat
  BY <1>1, ConcatProperties, LenProperties
<1>3. k \in 0 .. Len(w) /\ k <= MaxWire
  BY <1>1, <1>2
<1>4. wire' = [wire EXCEPT ![o] = SubSeq(w, 1, k)]
  BY DEF Transmit
<1>5. wire'[o] = SubSeq(w, 1, k) /\ wire'[n] = wire[n]
  BY <1>1, <1>4 DEF TypeOK
<1> HIDE DEF k
<1>6. /\ SubSeq(w, 1, k) \in Seq(Messages)
      /\ Len(SubSeq(w, 1, k)) = k
      /\ Elems(SubSeq(w, 1, k)) \subseteq Elems(wire[o]) \cup Elems(ms)
      /\ Discs(wire[o]) = {} /\ Discs(ms) = {} => Discs(SubSeq(w, 1, k)) = {}
      /\ AtMostOne(Discs(wire[o])) /\ Discs(ms) = {} => AtMostOne(Discs(SubSeq(w, 1, k)))
      /\ Discs(wire[o]) = {} /\ Len(ms) = 1 => AtMostOne(Discs(SubSeq(w, 1, k)))
  BY <1>1, <1>3, CutFacts
<1> HIDE DEF w
<1>7. wire' \in [Peers -> Seq(Messages)]
  BY <1>1, <1>4, <1>6 DEF TypeOK
<1>8. \A m \in Peers : Len(wire'[m]) <= MaxWire
  BY <1>1, <1>3, <1>4, <1>6 DEF TypeOK
<1> QED BY <1>5, <1>6, <1>7, <1>8

\* The event channel keeps its type and its capacity.
LEMMA EmitFacts ==
    ASSUME TypeOK, NEW n \in Peers, NEW e \in Events, Emit(n, e)
    PROVE  /\ events' \in [Peers -> Seq(Events)]
           /\ \A m \in Peers : Len(events'[m]) <= EventCapacity
<1>1. CASE events' = events
  BY <1>1 DEF TypeOK
<1>2. CASE /\ Len(events[n]) < EventCapacity
           /\ events' = [events EXCEPT ![n] = Append(@, e)]
  <2>1. events[n] \in Seq(Events) /\ EventCapacity \in Nat
    BY CarrierHandshakeAssumption DEF TypeOK
  <2>2. /\ Append(events[n], e) \in Seq(Events)
        /\ Len(Append(events[n], e)) = Len(events[n]) + 1 /\ Len(events[n]) \in Nat
    BY <2>1, AppendProperties, LenProperties
  <2>3. Len(events[n]) + 1 <= EventCapacity
    BY <1>2, <2>1, <2>2
  <2> QED BY <1>2, <2>2, <2>3 DEF TypeOK
<1> QED BY <1>1, <1>2 DEF Emit

\* Drop of a handle keeps the types.
LEMMA DropFacts ==
    ASSUME TypeOK, NEW n \in Peers, DropHandle(n)
    PROVE  /\ cmds' \in [Peers -> Seq({"disconnect"})]
           /\ \A m \in Peers : Len(cmds'[m]) <= CmdCapacity
           /\ flag' \in [Peers -> BOOLEAN] /\ \A m \in Peers : flag[m] => flag'[m]
           /\ app' \in [Peers -> AppStates]
<1>1. cmds[n] \in Seq({"disconnect"}) /\ CmdCapacity \in Nat /\ Len(cmds[n]) \in Nat
  BY CarrierHandshakeAssumption, LenProperties DEF TypeOK
<1>2. /\ Append(cmds[n], "disconnect") \in Seq({"disconnect"})
      /\ Len(Append(cmds[n], "disconnect")) = Len(cmds[n]) + 1
  BY <1>1, AppendProperties
<1>3. cmds' \in [Peers -> Seq({"disconnect"})]
  BY <1>1, <1>2 DEF DropHandle, TypeOK
<1>4. \A m \in Peers : Len(cmds'[m]) <= CmdCapacity
  BY <1>1, <1>2 DEF DropHandle, TypeOK
<1>5. flag' \in [Peers -> BOOLEAN] /\ \A m \in Peers : flag[m] => flag'[m]
  BY DEF DropHandle, TypeOK
<1>6. app' \in [Peers -> AppStates]
  BY DEF DropHandle, TypeOK, AppStates
<1> QED BY <1>3, <1>4, <1>5, <1>6

\* Steps that touch no message, announce nothing and leave the connecting
\* phase alone: the driver stays where it is or ends, flags are only set.
LEMMA QuietInv ==
    ASSUME IndInv, TypeOK',
           UNCHANGED <<version, connecting, inbox, toSend, wire, closings>>,
           \A n \in Peers : flag[n] => flag'[n],
           \A n \in Peers : \/ driver'[n] = driver[n]
                            \/ driver[n] \in {"idle", "failing"} /\ driver'[n] \in {"failing", "exited"}
    PROVE  IndInv'
<1>1. AgreeInv'
  BY DEF IndInv, AgreeInv, AllFit, Fits, AckFits, RequestFits, ConnectedAgree
<1>2. ASSUME NEW n \in Peers PROVE OnceFits(n)'
  <2>1. OnceFits(n) /\ OnceFits(Other(n)) /\ Other(n) \in Peers
    BY PeerFacts DEF IndInv, OnceInv
  <2> QED BY <2>1 DEF OnceFits
<1> QED BY <1>1, <1>2 DEF IndInv, OnceInv

-----------------------------------------------------------------------------
(* One lemma per action.                                                   *)

LEMMA InitInv == Init => IndInv
<1> SUFFICES ASSUME Init PROVE IndInv
  OBVIOUS
<1>1. \A S : << >> \in Seq(S) /\ Len(<< >>) = 0
  BY EmptySeq
<1>2. TypeOK
  BY <1>1, CarrierHandshakeAssumption DEF Init, TypeOK, AppStates
<1>3. Elems(<< >>) = {} /\ Discs(<< >>) = {}
  BY <1>1 DEF Elems, Discs
<1>4. AgreeInv
  BY <1>3, PeerFacts DEF Init, AgreeInv, AllFit, ConnectedAgree
<1>5. ASSUME NEW n \in Peers PROVE OnceFits(n)
  BY <1>3 DEF Init, OnceFits, AtMostOne
<1> QED BY <1>2, <1>4, <1>5 DEF IndInv, OnceInv

LEMMA HandshakeRetryInv == ASSUME IndInv, HandshakeRetry PROVE IndInv'
<1> DEFINE m == [kind |-> "request", version |-> version[Initiator]]
<1>1. TypeOK /\ Initiator \in Peers /\ Responder \in Peers /\ Initiator # Responder
      /\ Other(Initiator) = Responder
  BY PeerFacts DEF IndInv, Other
<1>2. m \in Messages
  BY <1>1 DEF TypeOK, Messages
<1>3. <<m>> \in Seq(Messages) /\ Len(<<m>>) = 1 /\ <<m>>[1] = m
  BY <1>2
<1>4. Elems(<<m>>) = {m} /\ Discs(<<m>>) = {}
  BY <1>3 DEF Elems, Discs
<1>5. Transmit(Initiator, <<m>>)
  BY DEF HandshakeRetry
<1>6. /\ wire' \in [Peers -> Seq(Messages)]
      /\ \A p \in Peers : Len(wire'[p]) <= MaxWire
      /\ wire'[Initiator] = wire[Initiator]
      /\ Elems(wire'[Responder]) \subseteq Elems(wire[Responder]) \cup {m}
      /\ Discs(wire[Responder]) = {} => Discs(wire'[Responder]) = {}
      /\ AtMostOne(Discs(wire[Responder])) => AtMostOne(Discs(wire'[Responder]))
  BY <1>1, <1>3, <1>4, <1>5, TransmitFacts
<1>7. TypeOK'
  BY <1>1, <1>6 DEF TypeOK, HandshakeRetry, NextTurn
<1>8. AgreeInv'
  <2>1. RequestFits(m)
    BY DEF RequestFits
  <2>2. AllFit(Responder, wire[Responder]) /\ AllFit(Initiator, wire[Initiator])
    BY <1>1 DEF IndInv, AgreeInv
  <2>3. \A x \in Elems(wire'[Responder]) : RequestFits(x)
    BY <1>1, <1>6, <2>1, <2>2 DEF AllFit, Fits
  <2>4. AllFit(Responder, wire[Responder])'
    BY <1>1, <2>3 DEF AllFit, Fits, RequestFits, HandshakeRetry
  <2>5. AllFit(Initiator, wire[Initiator])'
    BY <1>1, <1>6, <2>2 DEF AllFit, Fits, AckFits, HandshakeRetry
  <2>6. \A n \in Peers : AllFit(n, wire[n])'
    BY <2>4, <2>5 DEF Peers
  <2> QED BY <2>6 DEF IndInv, AgreeInv, HandshakeRetry, AllFit, Fits, AckFits, RequestFits,
                      ConnectedAgree
<1>9. ASSUME NEW n \in Peers PROVE OnceFits(n)'
  <2>1. /\ driver[Initiator] = "idle" /\ driver' = [driver EXCEPT ![Initiator] = NextTurn(Initiator)]
        /\ UNCHANGED <<flag, inbox, toSend, closings>>
    BY DEF HandshakeRetry
  <2>2. OnceFits(n) /\ OnceFits(Other(n)) /\ OnceFits(Initiator)
    BY <1>1, PeerFacts DEF IndInv, OnceInv
  <2>3. driver'[Initiator] \in {"idle", "exited"} /\ driver'[Responder] = driver[Responder]
    BY <1>1, <2>1 DEF NextTurn, TypeOK
  <2>4. CASE n = Initiator
    BY <1>1, <1>6, <2>1, <2>2, <2>3, <2>4 DEF OnceFits
  <2>5. CASE n = Responder
    <3>1. Other(n) = Initiator
      BY <2>5, PeerFacts DEF Other
    <3> QED BY <1>1, <1>6, <2>1, <2>2, <2>3, <2>5, <3>1 DEF OnceFits
  <2> QED BY <2>4, <2>5 DEF Peers
<1> QED BY <1>7, <1>8, <1>9 DEF IndInv, OnceInv

LEMMA ReceiveInv ==
    ASSUME IndInv, NEW n \in Peers, NEW i \in 1 .. Len(wire[n]), Receive(n, i)
    PROVE  IndInv'
<1> DEFINE m == wire[n][i]
<1>1. TypeOK /\ wire[n] \in Seq(Messages) /\ inbox[n] \in Seq(Messages)
  BY DEF IndInv, TypeOK
<1>2. /\ RemoveAt(wire[n], i) \in Seq(Messages)
      /\ Len(RemoveAt(wire[n], i)) = Len(wire[n]) - 1
  BY <1>1, RemoveAtProperties
<1>3. m \in Messages /\ Len(wire[n]) \in Nat /\ MaxWire \in Nat
  BY <1>1, ElementOfSeq, LenProperties, CarrierHandshakeAssumption
<1>4. /\ inbox' = [inbox EXCEPT ![n] = Append(inbox[n], m)]
      /\ wire' = [wire EXCEPT ![n] = RemoveAt(wire[n], i)]
      /\ driver' = [driver EXCEPT ![n] = "draining"]
      /\ driver[n] \in {"idle", "draining"}
      /\ UNCHANGED <<version, connecting, flag, toSend, cmds, events, app, closings>>
  BY DEF Receive
<1>5. Append(inbox[n], m) \in Seq(Messages)
  BY <1>1, <1>3, AppendProperties
<1>6. TypeOK'
  <2>1. wire' \in [Peers -> Seq(Messages)] /\ inbox' \in [Peers -> Seq(Messages)]
    BY <1>1, <1>2, <1>4, <1>5 DEF TypeOK
  <2>2. \A p \in Peers : Len(wire'[p]) <= MaxWire
    BY <1>1, <1>2, <1>3, <1>4 DEF TypeOK
  <2> QED BY <1>1, <1>4, <2>1, <2>2 DEF TypeOK
<1>7. /\ wire'[n] = RemoveAt(wire[n], i) /\ inbox'[n] = Append(inbox[n], m)
      /\ \A p \in Peers : p # n => /\ wire'[p] = wire[p] /\ inbox'[p] = inbox[p]
                                   /\ driver'[p] = driver[p]
      /\ driver'[n] = "draining"
  BY <1>1, <1>4 DEF TypeOK
<1>8. /\ Elems(wire'[n]) \subseteq Elems(wire[n]) /\ m \in Elems(wire[n])
      /\ Elems(inbox'[n]) = Elems(inbox[n]) \cup {m}
      /\ AtMostOne(Discs(wire[n])) => AtMostOne(Discs(wire'[n]))
      /\ Discs(wire[n]) = {} => Discs(wire'[n]) = {} /\ m.kind # "disconnect"
      /\ AtMostOne(Discs(wire[n])) /\ m.kind = "disconnect" => Discs(wire'[n]) = {}
      /\ m.kind # "disconnect" => Discs(inbox'[n]) = Discs(inbox[n])
      /\ Discs(inbox[n]) = {} => AtMostOne(Discs(inbox'[n]))
  BY <1>1, <1>3, <1>7, RemoveAtFacts, AppendFacts
<1> HIDE DEF m
<1>9. AgreeInv'
  <2>1. ASSUME NEW p \in Peers PROVE AllFit(p, wire'[p]) /\ AllFit(p, inbox'[p])
    BY <1>7, <1>8 DEF IndInv, AgreeInv, AllFit
  <2> QED BY <1>4, <2>1 DEF IndInv, AgreeInv, AllFit, Fits, AckFits, RequestFits,
                            ConnectedAgree
<1>10. ASSUME NEW p \in Peers PROVE OnceFits(p)'
  <2>1. OnceFits(p) /\ OnceFits(Other(p)) /\ OnceFits(n) /\ Other(p) \in Peers /\ Other(p) # p
    BY PeerFacts DEF IndInv, OnceInv
  <2>2. CASE p = n
    <3>1. driver'[Other(n)] = driver[Other(n)] /\ closings[n] = 0
      BY <1>4, <1>7, <2>1, <2>2, PeerFacts DEF OnceFits
    <3>2. CASE m.kind = "disconnect"
      BY <1>4, <1>7, <1>8, <2>1, <2>2, <3>1, <3>2 DEF OnceFits
    <3>3. CASE m.kind # "disconnect"
      BY <1>4, <1>7, <1>8, <2>1, <2>2, <3>1, <3>3 DEF OnceFits
    <3> QED BY <3>2, <3>3
  <2>3. CASE p # n
    <3>1. Other(p) = n
      BY <2>3, PeerFacts
    <3> QED BY <1>4, <1>7, <2>1, <2>3, <3>1 DEF OnceFits
  <2> QED BY <2>2, <2>3
<1> QED BY <1>6, <1>9, <1>10 DEF IndInv, OnceInv

LEMMA LoseInv ==
    ASSUME IndInv, NEW n \in Peers, NEW i \in 1 .. Len(wire[n]), Lose(n, i)
    PROVE  IndInv'
<1>1. TypeOK /\ wire[n] \in Seq(Messages) /\ Len(wire[n]) \in Nat /\ MaxWire \in Nat
  BY LenProperties, CarrierHandshakeAssumption DEF IndInv, TypeOK
<1>2. /\ RemoveAt(wire[n], i) \in Seq(Messages)
      /\ Len(RemoveAt(wire[n], i)) = Len(wire[n]) - 1
  BY <1>1, RemoveAtProperties
<1>3. /\ wire' = [wire EXCEPT ![n] = RemoveAt(wire[n], i)]
      /\ UNCHANGED <<version, driver, connecting, flag, inbox, toSend, cmds, events, app,
                     closings>>
  BY DEF Lose
<1>4. TypeOK'
  <2>1. wire' \in [Peers -> Seq(Messages)]
    BY <1>1, <1>2, <1>3 DEF TypeOK
  <2>2. \A p \in Peers : Len(wire'[p]) <= MaxWire
    BY <1>1, <1>2, <1>3 DEF TypeOK
  <2> QED BY <1>1, <1>3, <2>1, <2>2 DEF TypeOK
<1>5. /\ wire'[n] = RemoveAt(wire[n], i)
      /\ \A p \in Peers : p # n => wire'[p] = wire[p]
  BY <1>1, <1>3 DEF TypeOK
<1>6. /\ Elems(wire'[n]) \subseteq Elems(wire[n])
      /\ AtMostOne(Discs(wire[n])) => AtMostOne(Discs(wire'[n]))
      /\ Discs(wire[n]) = {} => Discs(wire'[n]) = {}
  BY <1>1, <1>5, RemoveAtFacts
<1>7. AgreeInv'
  <2>1. ASSUME NEW p \in Peers PROVE AllFit(p, wire'[p])
    BY <1>5, <1>6 DEF IndInv, AgreeInv, AllFit
  <2> QED BY <1>3, <2>1 DEF IndInv, AgreeInv, AllFit, Fits, AckFits, RequestFits,
                            ConnectedAgree
<1>8. ASSUME NEW p \in Peers PROVE OnceFits(p)'
  <2>1. OnceFits(p)
    BY DEF IndInv, OnceInv
  <2>2. CASE p = n
    BY <1>3, <1>6, <2>1, <2>2 DEF OnceFits
  <2>3. CASE p # n
    BY <1>3, <1>5, <2>1, <2>3 DEF OnceFits
  <2> QED BY <2>2, <2>3
<1> QED BY <1>4, <1>7, <1>8 DEF IndInv, OnceInv

\* What handling one message does to the reply queue, by kind of message.
LEMMA HandleCases ==
    ASSUME IndInv, NEW n \in Peers, Handle(n)
    PROVE  LET m == Head(inbox[n])
               ack == [kind |-> "ack", version |-> version[n]]
           IN  \/ /\ n = Responder /\ version[Initiator] = version[Responder]
                  /\ toSend' = [toSend EXCEPT ![n] = Append(@, ack)]
                  /\ connecting' = [connecting EXCEPT ![n] = FALSE]
                  /\ Emit(n, "connected") /\ m.kind # "disconnect"
                  /\ UNCHANGED <<flag, closings>>
               \/ /\ n = Initiator /\ version[Initiator] = version[Responder]
                  /\ ~connecting[Responder] /\ m.kind # "disconnect"
                  /\ connecting' = [connecting EXCEPT ![n] = FALSE]
                  /\ Emit(n, "connected")
                  /\ UNCHANGED <<toSend, flag, closings>>
               \/ /\ Emit(n, "error") \/ UNCHANGED events
                  /\ m.kind # "disconnect"
                  /\ UNCHANGED <<toSend, connecting, flag, closings>>
               \/ m.kind = "disconnect" /\ OnDisconnect(n)
<1> DEFINE m == Head(inbox[n])
<1>1. inbox[n] \in Seq(Messages) /\ inbox[n] # << >>
  BY DEF IndInv, TypeOK, Handle
<1>2. m \in Elems(inbox[n]) /\ AllFit(n, inbox[n])
  BY <1>1, TailFacts DEF IndInv, AgreeInv
<1>3. Fits(n, m)
  BY <1>2 DEF AllFit
<1> HIDE DEF m
<1>4. \/ m.kind = "request" /\ n = Responder /\ OnRequest(n, m)
      \/ /\ m.kind = "request" /\ n # Responder
         /\ UNCHANGED <<toSend, connecting, events, flag, closings>>
      \/ m.kind = "ack" /\ OnAck(n, m)
      \/ m.kind = "disconnect" /\ OnDisconnect(n)
  BY DEF Handle, m
<1>5. CASE m.kind = "request" /\ n = Responder /\ OnRequest(n, m)
  <2>1. m.version = version[Initiator]
    BY <1>3, <1>5, PeerFacts DEF Fits, RequestFits
  <2> QED BY <1>5, <2>1 DEF OnRequest, m
<1>6. CASE m.kind = "ack" /\ OnAck(n, m)
  <2>1. n = Initiator /\ ~connecting[Responder] /\ version[Initiator] = version[Responder]
    BY <1>3, <1>6 DEF Fits, AckFits, RequestFits
  <2> QED BY <1>6, <2>1 DEF OnAck, m
<1> QED BY <1>4, <1>5, <1>6 DEF m

LEMMA HandleInv == ASSUME IndInv, NEW n \in Peers, Handle(n) PROVE IndInv'
<1> DEFINE m == Head(inbox[n])
           o == Other(n)
           ack == [kind |-> "ack", version |-> version[n]]
<1>1. TypeOK /\ inbox[n] \in Seq(Messages) /\ inbox[n] # << >> /\ toSend[n] \in Seq(Messages)
  BY DEF IndInv, TypeOK, Handle
<1>2. /\ driver[n] \in {"draining", "handling"}
      /\ driver' = [driver EXCEPT ![n] = "handling"]
      /\ inbox' = [inbox EXCEPT ![n] = Tail(@)]
      /\ UNCHANGED <<version, wire, cmds, app>>
  BY DEF Handle
<1>3. o \in Peers /\ o # n /\ Other(o) = n /\ \A p \in Peers : p = n \/ p = o
  BY PeerFacts
<1>4. /\ Elems(Tail(inbox[n])) \subseteq Elems(inbox[n])
      /\ Discs(inbox[n]) = {} => Discs(Tail(inbox[n])) = {} /\ m.kind # "disconnect"
      /\ AtMostOne(Discs(inbox[n])) =>
             /\ AtMostOne(Discs(Tail(inbox[n])))
             /\ m.kind = "disconnect" => Discs(Tail(inbox[n])) = {}
      /\ Tail(inbox[n]) \in Seq(Messages)
  BY <1>1, TailFacts, HeadTailProperties
<1>5. ack \in Messages
  BY <1>1 DEF TypeOK, Messages
<1>6. /\ Append(toSend[n], ack) \in Seq(Messages)
      /\ Elems(Append(toSend[n], ack)) = Elems(toSend[n]) \cup {ack}
      /\ Discs(Append(toSend[n], ack)) = Discs(toSend[n])
  BY <1>1, <1>5, AppendFacts, AppendProperties
<1>7. /\ inbox'[n] = Tail(inbox[n]) /\ inbox'[o] = inbox[o]
      /\ driver'[n] = "handling" /\ driver'[o] = driver[o]
      /\ wire' = wire
  BY <1>1, <1>2, <1>3 DEF TypeOK
<1>8. \/ /\ n = Responder /\ version[Initiator] = version[Responder]
         /\ toSend' = [toSend EXCEPT ![n] = Append(@, ack)]
         /\ connecting' = [connecting EXCEPT ![n] = FALSE]
         /\ Emit(n, "connected") /\ m.kind # "disconnect"
         /\ UNCHANGED <<flag, closings>>
      \/ /\ n = Initiator /\ version[Initiator] = version[Responder]
         /\ ~connecting[Responder] /\ m.kind # "disconnect"
         /\ connecting' = [connecting EXCEPT ![n] = FALSE]
         /\ Emit(n, "connected")
         /\ UNCHANGED <<toSend, flag, closings>>
      \/ /\ Emit(n, "error") \/ UNCHANGED events
         /\ m.kind # "disconnect"
         /\ UNCHANGED <<toSend, connecting, flag, closings>>
      \/ m.kind = "disconnect" /\ OnDisconnect(n)
  BY HandleCases
<1> HIDE DEF m, ack, o
<1>9. events' \in [Peers -> Seq(Events)] /\ \A p \in Peers : Len(events'[p]) <= EventCapacity
  <2>1. (\E e \in Events : Emit(n, e)) \/ UNCHANGED events
    BY <1>8 DEF OnDisconnect, Events
  <2>2. CASE UNCHANGED events
    BY <1>1, <2>2 DEF TypeOK
  <2> QED BY <1>1, <2>1, <2>2, EmitFacts
<1>10. toSend' \in [Peers -> Seq(Messages)] /\ connecting' \in [Peers -> BOOLEAN]
       /\ flag' \in [Peers -> BOOLEAN] /\ closings' \in [Peers -> 0 .. 2]
  <2>1. toSend' \in [Peers -> Seq(Messages)]
    BY <1>1, <1>6, <1>8 DEF TypeOK, OnDisconnect
  <2>2. connecting' \in [Peers -> BOOLEAN] /\ flag' \in [Peers -> BOOLEAN]
    BY <1>1, <1>8 DEF TypeOK, OnDisconnect
  <2>3. closings' \in [Peers -> 0 .. 2]
    <3>1. closings[n] \in 0 .. 2 /\ closings \in [Peers -> 0 .. 2]
      BY <1>1 DEF TypeOK
    <3>2. CountedUp(closings[n]) \in 0 .. 2
      BY <3>1 DEF CountedUp
    <3>3. closings' = closings \/ closings' = [closings EXCEPT ![n] = CountedUp(@)]
      BY <1>8 DEF OnDisconnect
    <3> QED BY <3>1, <3>2, <3>3
  <2> QED BY <2>1, <2>2, <2>3
<1>11. TypeOK'
  <2>1. inbox' \in [Peers -> Seq(Messages)]
    BY <1>1, <1>2, <1>4 DEF TypeOK
  <2> QED BY <1>1, <1>2, <1>9, <1>10, <2>1 DEF TypeOK
<1>12. AgreeInv'
  <2>1. /\ ~connecting[Responder] => ~connecting'[Responder]
        /\ ConnectedAgree'
    <3>1. ConnectedAgree /\ version' = version /\ connecting \in [Peers -> BOOLEAN]
      BY <1>1, <1>2 DEF IndInv, AgreeInv, TypeOK
    <3>2. CASE connecting' = connecting
      BY <3>1, <3>2 DEF ConnectedAgree
    <3>3. CASE /\ connecting' = [connecting EXCEPT ![n] = FALSE]
               /\ version[Initiator] = version[Responder]
               /\ n = Responder \/ ~connecting[Responder]
      <4>1. ~connecting'[Responder]
        BY <3>1, <3>3, PeerFacts
      <4> QED BY <3>1, <3>3, <4>1 DEF ConnectedAgree
    <3> QED BY <1>8, <3>2, <3>3 DEF OnDisconnect
  <2>3. ASSUME NEW p \in Peers PROVE AllFit(p, wire[p])' /\ AllFit(p, inbox[p])'
    <3>1. AllFit(p, wire[p]) /\ AllFit(p, inbox[p])
      BY DEF IndInv, AgreeInv
    <3>2. AllFit(p, inbox'[p])
      BY <1>3, <1>4, <1>7, <3>1 DEF AllFit
    <3>3. AllFit(p, wire[p])' /\ AllFit(p, inbox[p])'
      BY <1>2, <2>1, <3>1, <3>2 DEF AllFit, Fits, AckFits, RequestFits
    <3> QED BY <3>3
  <2>4. ASSUME NEW p \in Peers PROVE AllFit(Other(p), toSend[p])'
    <3>1. AllFit(Other(p), toSend[p])
      BY DEF IndInv, AgreeInv
    <3>2. CASE toSend' = toSend
      BY <1>2, <2>1, <3>1, <3>2 DEF AllFit, Fits, AckFits, RequestFits
    <3>3. CASE /\ n = Responder /\ version[Initiator] = version[Responder]
               /\ toSend' = [toSend EXCEPT ![n] = Append(@, ack)]
               /\ connecting' = [connecting EXCEPT ![n] = FALSE]
      <4>1. CASE p # n
        BY <1>1, <1>2, <2>1, <3>1, <3>3, <4>1 DEF AllFit, Fits, AckFits, RequestFits, TypeOK
      <4>2. CASE p = n
        <5>1. Elems(toSend'[p]) = Elems(toSend[p]) \cup {ack} /\ ~connecting'[Responder]
          BY <1>1, <1>6, <3>3, <4>2, PeerFacts DEF TypeOK
        <5>2. Other(p) = Initiator /\ version' = version
          BY <1>2, <3>3, <4>2, PeerFacts DEF Other
        <5>3. \A x \in Elems(toSend'[p]) : AckFits(x)'
          BY <3>3, <5>1, <5>2 DEF AckFits
        <5> QED BY <5>2, <5>3 DEF AllFit, Fits, AckFits
      <4> QED BY <4>1, <4>2
    <3> QED BY <1>8, <3>2, <3>3 DEF OnDisconnect
  <2> QED BY <2>1, <2>3, <2>4 DEF AgreeInv
<1>13. OnceFits(o)'
  <2>1. OnceFits(o) /\ driver[n] \notin {"closing", "exited"}
    BY <1>2, <1>3 DEF IndInv, OnceInv
  <2>2. toSend'[o] = toSend[o] /\ closings'[o] = closings[o] /\ flag'[o] = flag[o]
    BY <1>1, <1>3, <1>8 DEF TypeOK, OnDisconnect
  <2> QED BY <1>3, <1>7, <2>1, <2>2 DEF OnceFits
<1>14. OnceFits(n)'
  <2>1. OnceFits(n)
    BY DEF IndInv, OnceInv
  <2>2. CASE m.kind # "disconnect" /\ UNCHANGED <<flag, closings>>
    <3>1. Discs(toSend'[n]) = {}
      BY <1>1, <1>6, <1>8, <2>1, <2>2 DEF TypeOK, OnceFits
    <3> QED BY <1>3, <1>4, <1>7, <2>1, <2>2, <3>1 DEF OnceFits, o
  <2>3. CASE m.kind = "disconnect" /\ OnDisconnect(n)
    <3>1. closings[n] = 0
      BY <1>4, <2>1, <2>3 DEF OnceFits
    <3>2. closings'[n] = 1 /\ flag'[n] /\ toSend'[n] = toSend[n]
      BY <1>1, <2>3, <3>1 DEF OnDisconnect, CountedUp, TypeOK
    <3>3. Discs(Tail(inbox[n])) = {}
      BY <1>4, <2>1, <2>3 DEF OnceFits
    <3> QED BY <1>4, <1>3, <1>7, <2>1, <3>2, <3>3 DEF OnceFits, o
  <2> QED BY <1>8, <2>2, <2>3
<1> QED BY <1>3, <1>11, <1>12, <1>13, <1>14 DEF IndInv, OnceInv

LEMMA FlushInv == ASSUME IndInv, NEW n \in Peers, Flush(n) PROVE IndInv'
<1> DEFINE o == Other(n)
<1>1. TypeOK /\ toSend[n] \in Seq(Messages)
  BY DEF IndInv, TypeOK
<1>2. o \in Peers /\ o # n /\ Other(o) = n /\ \A p \in Peers : p = n \/ p = o
  BY PeerFacts
<1>3. /\ driver[n] = "handling" /\ inbox[n] = << >>
      /\ Transmit(n, toSend[n])
      /\ toSend' = [toSend EXCEPT ![n] = << >>]
      /\ driver' = [driver EXCEPT ![n] = NextTurn(n)]
      /\ UNCHANGED <<version, connecting, flag, inbox, cmds, events, app, closings>>
  BY DEF Flush
<1>4. OnceFits(n) /\ OnceFits(o)
  BY <1>2 DEF IndInv, OnceInv
<1>5. /\ wire' \in [Peers -> Seq(Messages)]
      /\ \A p \in Peers : Len(wire'[p]) <= MaxWire
      /\ wire'[n] = wire[n]
      /\ Elems(wire'[o]) \subseteq Elems(wire[o]) \cup Elems(toSend[n])
      /\ Discs(wire[o]) = {} => Discs(wire'[o]) = {}
      /\ AtMostOne(Discs(wire[o])) => AtMostOne(Discs(wire'[o]))
  BY <1>1, <1>3, <1>4, TransmitFacts DEF OnceFits
<1>6. << >> \in Seq(Messages) /\ Elems(<< >>) = {} /\ Discs(<< >>) = {}
  BY EmptySeq DEF Elems, Discs
<1>7. TypeOK'
  <2>1. toSend' \in [Peers -> Seq(Messages)]
    BY <1>1, <1>3, <1>6 DEF TypeOK
  <2> QED BY <1>1, <1>3, <1>5, <2>1 DEF TypeOK, NextTurn
<1>8. /\ toSend'[n] = << >> /\ toSend'[o] = toSend[o]
      /\ driver'[n] \in {"idle", "exited"} /\ (flag[n] => driver'[n] = "exited")
      /\ driver'[o] = driver[o]
  BY <1>1, <1>2, <1>3 DEF TypeOK, NextTurn
<1> HIDE DEF o
<1>9. AgreeInv'
  <2>1. ASSUME NEW p \in Peers
        PROVE AllFit(p, wire'[p]) /\ AllFit(p, inbox'[p]) /\ AllFit(Other(p), toSend'[p])
    <3>1. AllFit(p, wire[p]) /\ AllFit(Other(p), toSend[p]) /\ AllFit(p, inbox'[p])
          /\ AllFit(o, toSend[n])
      BY <1>2, <1>3 DEF IndInv, AgreeInv, o
    <3>2. CASE p = n
      BY <1>5, <1>6, <1>8, <3>1, <3>2 DEF AllFit
    <3>3. CASE p = o
      BY <1>5, <1>8, <3>1, <3>3 DEF AllFit
    <3> QED BY <1>2, <3>2, <3>3
  <2> QED BY <1>3, <2>1 DEF IndInv, AgreeInv, AllFit, Fits, AckFits, RequestFits,
                            ConnectedAgree
<1>10. OnceFits(n)'
  BY <1>2, <1>3, <1>4, <1>5, <1>6, <1>8 DEF OnceFits, o
<1>11. OnceFits(o)'
  BY <1>2, <1>3, <1>4, <1>5, <1>6, <1>8 DEF OnceFits
<1> QED BY <1>2, <1>7, <1>9, <1>10, <1>11 DEF IndInv, OnceInv

LEMMA CommandInv == ASSUME IndInv, NEW n \in Peers, Command(n) PROVE IndInv'
<1> DEFINE o == Other(n)
           m == [kind |-> "disconnect", version |-> version[n]]
<1>1. TypeOK /\ cmds[n] \in Seq({"disconnect"}) /\ Len(cmds[n]) <= CmdCapacity
      /\ CmdCapacity \in Nat
  BY CarrierHandshakeAssumption DEF IndInv, TypeOK
<1>2. o \in Peers /\ o # n /\ Other(o) = n /\ \A p \in Peers : p = n \/ p = o
  BY PeerFacts
<1>3. /\ driver[n] = "idle" /\ cmds[n] # << >>
      /\ cmds' = [cmds EXCEPT ![n] = Tail(@)]
      /\ Transmit(n, <<m>>)
      /\ driver' = [driver EXCEPT ![n] = "closing"]
      /\ UNCHANGED <<version, connecting, flag, inbox, toSend, events, app, closings>>
  BY DEF Command
<1>4. OnceFits(n) /\ OnceFits(o) /\ Discs(wire[o]) = {} /\ Discs(inbox[o]) = {}
  BY <1>2, <1>3 DEF IndInv, OnceInv, OnceFits
<1>5. m \in Messages
  BY <1>1 DEF TypeOK, Messages
<1>6. <<m>> \in Seq(Messages) /\ Len(<<m>>) = 1 /\ <<m>>[1] = m
  BY <1>5
<1>7. Elems(<<m>>) = {m}
  BY <1>6 DEF Elems
<1>8. /\ wire' \in [Peers -> Seq(Messages)]
      /\ \A p \in Peers : Len(wire'[p]) <= MaxWire
      /\ wire'[n] = wire[n]
      /\ Elems(wire'[o]) \subseteq Elems(wire[o]) \cup {m}
      /\ AtMostOne(Discs(wire'[o]))
  BY <1>1, <1>3, <1>4, <1>6, <1>7, TransmitFacts
<1>9. TypeOK'
  <2>1. /\ Tail(cmds[n]) \in Seq({"disconnect"}) /\ Len(Tail(cmds[n])) = Len(cmds[n]) - 1
        /\ Len(cmds[n]) \in Nat
    BY <1>1, <1>3, HeadTailProperties, LenProperties
  <2>2. cmds' \in [Peers -> Seq({"disconnect"})]
    BY <1>1, <1>3, <2>1 DEF TypeOK
  <2>3. \A p \in Peers : Len(cmds'[p]) <= CmdCapacity
    BY <1>1, <1>3, <2>1 DEF TypeOK
  <2> QED BY <1>1, <1>3, <1>8, <2>2, <2>3 DEF TypeOK
<1>10. driver'[n] = "closing" /\ driver'[o] = driver[o]
  BY <1>1, <1>2, <1>3 DEF TypeOK
<1>11. Fits(o, m)
  BY PeerFacts DEF Fits, AckFits, RequestFits, o, Other
<1> HIDE DEF o, m
<1>12. AgreeInv'
  <2>1. ASSUME NEW p \in Peers PROVE AllFit(p, wire'[p])
    <3>1. AllFit(p, wire[p])
      BY DEF IndInv, AgreeInv
    <3> QED BY <1>2, <1>8, <1>11, <3>1 DEF AllFit
  <2> QED BY <1>3, <2>1 DEF IndInv, AgreeInv, AllFit, Fits, AckFits, RequestFits,
                            ConnectedAgree
<1>13. OnceFits(n)'
  BY <1>2, <1>3, <1>4, <1>8, <1>10 DEF OnceFits, o
<1>14. OnceFits(o)'
  BY <1>2, <1>3, <1>4, <1>8, <1>10 DEF OnceFits
<1> QED BY <1>2, <1>9, <1>12, <1>13, <1>14 DEF IndInv, OnceInv

LEMMA CloseInv == ASSUME IndInv, NEW n \in Peers, Close(n) PROVE IndInv'
<1> DEFINE o == Other(n)
<1>1. TypeOK /\ OnceFits(n) /\ closings[n] = 0 /\ inbox[n] = << >>
  BY DEF IndInv, OnceInv, OnceFits, Close
<1>2. o \in Peers /\ o # n /\ Other(o) = n /\ \A p \in Peers : p = n \/ p = o
  BY PeerFacts
<1>3. /\ Emit(n, "disconnected")
      /\ closings' = [closings EXCEPT ![n] = 1]
      /\ flag' = [flag EXCEPT ![n] = TRUE]
      /\ driver[n] = "closing" /\ driver' = [driver EXCEPT ![n] = "exited"]
      /\ UNCHANGED <<version, connecting, inbox, toSend, wire, cmds, app>>
  BY <1>1 DEF Close, CountedUp
<1>4. events' \in [Peers -> Seq(Events)] /\ \A p \in Peers : Len(events'[p]) <= EventCapacity
  BY <1>1, <1>3, EmitFacts DEF Events
<1>5. TypeOK'
  <2>1. closings' \in [Peers -> 0 .. 2]
    BY <1>1, <1>3 DEF TypeOK
  <2> QED BY <1>1, <1>3, <1>4, <2>1 DEF TypeOK
<1>6. AgreeInv'
  BY <1>3 DEF IndInv, AgreeInv, AllFit, Fits, AckFits, RequestFits, ConnectedAgree
<1>7. /\ driver'[n] = "exited" /\ driver'[o] = driver[o] /\ flag'[n] /\ flag'[o] = flag[o]
      /\ closings'[n] = 1 /\ closings'[o] = closings[o]
  BY <1>1, <1>2, <1>3 DEF TypeOK
<1>8. Discs(<< >>) = {}
  BY EmptySeq DEF Discs
<1>9. OnceFits(o)
  BY <1>2 DEF IndInv, OnceInv
<1> HIDE DEF o
<1>10. OnceFits(n)'
  BY <1>1, <1>2, <1>3, <1>7, <1>8 DEF OnceFits, o
<1>11. OnceFits(o)'
  BY <1>2, <1>3, <1>7, <1>9 DEF OnceFits
<1> QED BY <1>2, <1>5, <1>6, <1>10, <1>11 DEF IndInv, OnceInv

\* The owner's actions and the ends of a driver that send and announce nothing.
LEMMA OwnerInv ==
    ASSUME IndInv, NEW n \in Peers,
           TakeEvent(n) \/ TakeClosed(n) \/ Disconnect(n) \/ Release(n)
    PROVE  IndInv'
<1>1. TypeOK /\ events[n] \in Seq(Events) /\ cmds[n] \in Seq({"disconnect"})
      /\ Len(cmds[n]) \in Nat /\ Len(events[n]) \in Nat /\ CmdCapacity \in Nat
      /\ EventCapacity \in Nat
  BY CarrierHandshakeAssumption, LenProperties DEF IndInv, TypeOK
<1>2. UNCHANGED <<version, driver, connecting, inbox, toSend, wire, closings>>
  BY DEF TakeEvent, TakeClosed, Disconnect, Release
<1>3. CASE DropHandle(n) /\ UNCHANGED events
  <2>1. TypeOK' /\ \A p \in Peers : flag[p] => flag'[p]
    BY <1>1, <1>2, <1>3, DropFacts DEF TypeOK
  <2> QED BY <1>2, <2>1, QuietInv
<1>4. CASE TakeEvent(n)
  <2>1. events[n] # << >> /\ events' = [events EXCEPT ![n] = Tail(@)]
    BY <1>4 DEF TakeEvent
  <2>2. Tail(events[n]) \in Seq(Events) /\ Len(Tail(events[n])) = Len(events[n]) - 1
    BY <1>1, <2>1, HeadTailProperties
  <2>3. events' \in [Peers -> Seq(Events)]
    BY <1>1, <2>1, <2>2 DEF TypeOK
  <2>4. \A p \in Peers : Len(events'[p]) <= EventCapacity
    BY <1>1, <2>1, <2>2 DEF TypeOK
  <2>5. /\ cmds' \in [Peers -> Seq({"disconnect"})]
        /\ \A m \in Peers : Len(cmds'[m]) <= CmdCapacity
        /\ flag' \in [Peers -> BOOLEAN] /\ \A m \in Peers : flag[m] => flag'[m]
        /\ app' \in [Peers -> AppStates]
    <3>1. CASE DropHandle(n)
      BY <1>1, <3>1, DropFacts
    <3>2. CASE UNCHANGED <<cmds, flag>>
               /\ app' \in {app, [app EXCEPT ![n] = "connected"]}
      BY <1>1, <3>2 DEF TypeOK, AppStates
    <3> QED BY <1>4, <3>1, <3>2 DEF TakeEvent
  <2>6. TypeOK'
    BY <1>1, <1>2, <2>3, <2>4, <2>5 DEF TypeOK
  <2> QED BY <1>2, <2>5, <2>6, QuietInv
<1>5. CASE Disconnect(n)
  <2>1. /\ Append(cmds[n], "disconnect") \in Seq({"disconnect"})
        /\ Len(Append(cmds[n], "disconnect")) = Len(cmds[n]) + 1
    BY <1>1, AppendProperties
  <2>2. cmds' \in [Peers -> Seq({"disconnect"})]
    BY <1>1, <1>5, <2>1 DEF Disconnect, TypeOK
  <2>3. \A m \in Peers : Len(cmds'[m]) <= CmdCapacity
    BY <1>1, <1>5, <2>1 DEF Disconnect, TypeOK
  <2>4. TypeOK' /\ flag' = flag
    BY <1>1, <1>2, <1>5, <2>2, <2>3 DEF TypeOK, Disconnect, AppStates
  <2> QED BY <1>2, <2>4, QuietInv
<1> QED BY <1>3, <1>4, <1>5 DEF TakeClosed, Release

LEMMA EndInv ==
    ASSUME IndInv, NEW n \in Peers, Exit(n) \/ Fail(n) \/ TransportFails
    PROVE  IndInv'
<1>1. TypeOK /\ Initiator \in Peers
  BY PeerFacts DEF IndInv
<1>2. UNCHANGED <<version, connecting, flag, inbox, toSend, wire, closings, cmds, app>>
  BY DEF Exit, Fail, TransportFails
<1>3. events' \in [Peers -> Seq(Events)] /\ \A p \in Peers : Len(events'[p]) <= EventCapacity
  <2>1. CASE Fail(n)
    BY <1>1, <2>1, EmitFacts DEF Fail, Events
  <2>2. CASE events' = events
    BY <1>1, <2>2 DEF TypeOK
  <2> QED BY <2>1, <2>2 DEF Exit, TransportFails
<1>4. \A p \in Peers : \/ driver'[p] = driver[p]
                       \/ driver[p] \in {"idle", "failing"} /\ driver'[p] \in {"failing", "exited"}
  BY <1>1 DEF TypeOK, Exit, Fail, TransportFails
<1>5. driver' \in [Peers -> {"idle", "draining", "handling", "closing", "failing", "exited"}]
  BY <1>1 DEF TypeOK, Exit, Fail, TransportFails
<1>6. TypeOK'
  BY <1>1, <1>2, <1>3, <1>5 DEF TypeOK
<1> QED BY <1>2, <1>4, <1>6, QuietInv

-----------------------------------------------------------------------------
(* The theorems.                                                           *)

LEMMA NextInv == IndInv /\ [Next]_vars => IndInv'
<1> SUFFICES ASSUME IndInv, [Next]_vars PROVE IndInv'
  OBVIOUS
<1>1. CASE UNCHANGED vars
  <2>1. TypeOK'
    BY <1>1 DEF IndInv, TypeOK, vars
  <2> QED BY <1>1, <2>1, QuietInv DEF vars
<1>2. CASE HandshakeRetry
  BY <1>2, HandshakeRetryInv
<1>3. CASE TransportFails
  BY <1>3, EndInv, PeerFacts
<1>4. ASSUME NEW n \in Peers,
             \/ Exit(n) \/ Handle(n) \/ Flush(n) \/ Command(n) \/ Close(n)
             \/ Fail(n)
             \/ TakeEvent(n) \/ TakeClosed(n) \/ Disconnect(n) \/ Release(n)
             \/ \E i \in 1 .. Len(wire[n]) : Receive(n, i) \/ Lose(n, i)
      PROVE  IndInv'
  <2>1. CASE Exit(n) \/ Fail(n)
    BY <2>1, EndInv
  <2>2. CASE TakeEvent(n) \/ TakeClosed(n) \/ Disconnect(n) \/ Release(n)
    BY <2>2, OwnerInv
  <2>3. ASSUME NEW i \in 1 .. Len(wire[n]), Receive(n, i) \/ Lose(n, i) PROVE IndInv'
    BY <2>3, ReceiveInv, LoseInv
  <2> QED BY <1>4, <2>1, <2>2, <2>3, HandleInv, FlushInv, CommandInv, CloseInv
<1> QED BY <1>1, <1>2, <1>3, <1>4 DEF Next

\* The inductive invariant holds in every reachable state.
THEOREM Invariance == Spec => []IndInv
<1> QED BY InitInv, NextInv, PTL DEF Spec

\* Every variable keeps its type, and the wire, the command channel and the
\* event channel their capacities.
THEOREM TypeCorrect == Spec => []TypeOK
<1>1. IndInv => TypeOK
  BY DEF IndInv
<1> QED BY <1>1, Invariance, PTL

\* handle_system_message: a driver leaves the connecting phase only when both
\* peers run the same version and the responder has accepted, however the
\* requests and acknowledgements are lost, repeated and reordered.
THEOREM VersionsAgree == Spec => []ConnectedAgree
<1>1. IndInv => ConnectedAgree
  BY DEF IndInv, AgreeInv
<1> QED BY <1>1, Invariance, PTL

\* An owner hears at most one Disconnected, whichever side closes first and
\* however SM_DISCONNECT and the Disconnect command cross.
THEOREM ClosedOnce == Spec => []DisconnectedOnce
<1>1. IndInv => DisconnectedOnce
  <2>1. ASSUME IndInv, NEW n \in Peers PROVE closings[n] = 0 \/ closings[n] = 1
    BY <2>1 DEF IndInv, OnceInv, OnceFits
  <2>2. ASSUME IndInv, NEW n \in Peers PROVE closings[n] <= 1
    BY <2>1, <2>2
  <2> QED BY <2>2 DEF DisconnectedOnce
<1> QED BY <1>1, Invariance, PTL

=============================================================================
