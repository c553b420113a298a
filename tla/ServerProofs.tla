---------------------------- MODULE ServerProofs ----------------------------
(***************************************************************************)
(* Proofs about ServerPeers, for every set of addresses, every number of   *)
(* connections and every capacity: type correctness, the two halves of the *)
(* registry, that plaintexts reach the carrier of their own connection     *)
(* although they are routed by address, and that Ready comes first.        *)
(***************************************************************************)
EXTENDS ServerPeers, SequenceTheorems, FiniteSetTheorems, TLAPS

-----------------------------------------------------------------------------
(* The inductive invariant.                                                *)

Active == {"accepting", "announcing", "open", "reading", "ended"}
Spawning == {"spawned", "register", "ready"}

Queued(i) == i \in 1 .. Len(listenerEvents)
Ev(i) == listenerEvents[i]
HasSession(c) == \E s \in 1 .. sessions : connOf[s] = c

\* Connections are numbered as they come; the table lists, for an address,
\* the last of its connections, from the first datagram until the peer task
\* has sent everything its connection said.
ConnInv ==
    /\ \A c \in Conns : c <= conns <=> task[c] # "none"
    /\ \A c \in 1 .. conns : addr[c] \in Addrs
    /\ \A c \in 1 .. conns : task[c] \in Active => table[addr[c]] = c
    /\ \A a \in Addrs : table[a] # 0 =>
          /\ table[a] \in 1 .. conns /\ addr[table[a]] = a
          /\ \A c \in 1 .. conns : addr[c] = a => c <= table[a]

\* The listener's queue: one Established per connection, before its Data; the
\* events of the connections of one address in the order of the connections,
\* but for a Disconnected, which may come late.
QueueInv ==
    /\ \A i \in 1 .. Len(listenerEvents) :
          /\ Ev(i).conn \in 1 .. conns /\ Ev(i).addr = addr[Ev(i).conn]
          /\ task[Ev(i).conn] \notin {"accepting", "announcing"}
          /\ Ev(i).kind = "established" => ~HasSession(Ev(i).conn)
          /\ Ev(i).kind = "data" =>
                \/ HasSession(Ev(i).conn)
                \/ \E j \in 1 .. i - 1 : Ev(j).kind = "established" /\ Ev(j).conn = Ev(i).conn
    /\ \A i, j \in 1 .. Len(listenerEvents) :
          /\ i # j /\ Ev(i).kind = "established" /\ Ev(j).kind = "established"
                => Ev(i).conn # Ev(j).conn
          /\ i < j /\ Ev(i).addr = Ev(j).addr /\ Ev(i).kind # "disconnected"
                   /\ Ev(j).kind # "disconnected" => Ev(i).conn <= Ev(j).conn
    /\ \A c \in 1 .. conns : task[c] \in {"open", "reading"} =>
          \/ HasSession(c)
          \/ \E i \in 1 .. Len(listenerEvents) :
                Ev(i).kind = "established" /\ Ev(i).conn = c

\* One session per connection, made when its Established is taken; the queue
\* an address feeds is that of its newest session, and nothing in the
\* listener's queue comes from an older connection than that session's.
SessionInv ==
    /\ \A s \in 1 .. sessions :
          connOf[s] \in 1 .. conns /\ task[connOf[s]] \notin {"accepting", "announcing"}
    /\ \A s, t \in 1 .. sessions : connOf[s] = connOf[t] => s = t
    /\ \A s \in Sessions : s > sessions => /\ inbound[s] = << >> /\ carrier[s].at = "none"
                                           /\ connOf[s] = 0
    /\ \A a \in Addrs : peerInbound[a] # 0 =>
          /\ peerInbound[a] \in 1 .. sessions /\ AddrOf(peerInbound[a]) = a
          /\ \A s \in 1 .. sessions : AddrOf(s) = a => connOf[s] <= connOf[peerInbound[a]]
    /\ \A s \in 1 .. sessions : \A i \in 1 .. Len(listenerEvents) :
          Ev(i).addr = AddrOf(s) /\ Ev(i).kind # "disconnected" => connOf[s] <= Ev(i).conn

\* What the bridge is about to do concerns a session that exists; while it
\* registers one, that is the newest.
BridgeInv ==
    /\ bridge.op \in Spawning \cup {"data", "disconnected"} => bridge.s \in 1 .. sessions
    /\ bridge.op \in Spawning =>
          /\ bridge.s = sessions /\ inbound[bridge.s] = << >>
          /\ \/ carrier[bridge.s].at \in {"connecting", "gone"}
             \/ carrier[bridge.s].at = "emit" /\ carrier[bridge.s].ev = "disconnected"

\* by_addr only names sessions of the address.
RegistryInv ==
    /\ \A a \in Addrs : byAddr[a] # 0 => byAddr[a] \in 1 .. sessions /\ AddrOf(byAddr[a]) = a
    /\ RegistryForward

\* A session shares its address with no carrier but its own, or is contended.
EmitInv ==
    /\ \A s, t \in 1 .. sessions : s < t /\ AddrOf(s) = AddrOf(t) =>
          /\ carrier[s].at # "gone" => s \in contended /\ t \in contended
          /\ byAddr[AddrOf(s)] = s => s \in contended
    /\ \A s \in 1 .. sessions : carrier[s].at = "emit" =>
          /\ carrier[s].s \in 1 .. sessions /\ carrier[s].ev # "none"
          /\ carrier[s].then \in {"up", "gone"}
          /\ carrier[s].ev = "disconnected" => carrier[s].then = "gone"
          /\ carrier[s].s = s \/ carrier[s].s \in contended

\* Every session but the one in the bridge's hands was reported ready, as long
\* as there is somebody to report to.
HeardInv ==
    /\ \A s \in 1 .. sessions :
          \/ bridge.op \in Spawning /\ bridge.s = s
          \/ "ready" \in heard[s] \/ ~open
    /\ ReadyFirst

IndInv ==
    /\ TypeOK /\ ConnInv /\ QueueInv /\ SessionInv /\ BridgeInv /\ RegistryInv
    /\ EmitInv /\ HeardInv /\ OwnPlaintexts

-----------------------------------------------------------------------------
(* The state.                                                              *)

LEMMA ConstantFacts ==
    /\ MaxConns \in Nat /\ MaxData \in Nat /\ MaxSends \in Nat
    /\ ListenerCapacity \in Nat \ {0} /\ EventCapacity \in Nat \ {0}
    /\ QueueCapacity \in Nat \ {0} /\ 0 \notin Addrs
BY ServerPeersAssumption

LEMMA CountFacts ==
    ASSUME TypeOK
    PROVE  /\ conns \in Nat /\ sessions \in Nat /\ sessions <= conns /\ conns <= MaxConns
           /\ 1 .. conns \subseteq Conns /\ 1 .. sessions \subseteq Sessions
           /\ 1 .. sessions \subseteq 1 .. conns
BY ConstantFacts DEF TypeOK, Conns, Sessions

LEMMA SessionFacts ==
    ASSUME IndInv, NEW s \in 1 .. sessions
    PROVE  /\ s \in Sessions /\ connOf[s] \in 1 .. conns /\ connOf[s] \in Conns
           /\ AddrOf(s) \in Addrs /\ AddrOf(s) = addr[connOf[s]]
BY CountFacts DEF IndInv, SessionInv, ConnInv, AddrOf

LEMMA InitInv == Init => IndInv
<1> SUFFICES ASSUME Init PROVE IndInv
  OBVIOUS
<1>1. \A S : << >> \in Seq(S) /\ Len(<< >>) = 0
  BY EmptySeq
<1>2. 0 \in 0 .. MaxConns /\ 0 \in 0 .. MaxData /\ 0 \in 0 .. MaxSends /\ 0 <= 0
      /\ 0 \in 0 .. QueueCapacity /\ 0 \in 0 .. EventCapacity /\ 0 <= ListenerCapacity
      /\ 0 <= QueueCapacity /\ 1 .. 0 = {}
  BY ConstantFacts
<1>3. At("none") \in CarrierStates /\ At("none").at = "none"
  BY <1>2 DEF At, CarrierStates, CarrierAt
<1>4. bridge \in BridgeStates /\ bridge.op = "idle"
  BY <1>2 DEF Init, Idle, BridgeStates, BridgeOps
<1>5. carrier \in [Sessions -> CarrierStates] /\ \A s \in Sessions : carrier[s].at = "none"
  BY <1>3 DEF Init
<1>6. TypeOK
  BY <1>1, <1>2, <1>4, <1>5 DEF Init, TypeOK, TaskAt
<1>7. ConnInv
  <2>1. \A c \in Conns : ~(c <= 0)
    BY ConstantFacts DEF Conns
  <2> QED BY <1>2, <2>1 DEF Init, ConnInv
<1>8. QueueInv
  BY <1>1, <1>2 DEF Init, QueueInv
<1>9. SessionInv
  BY <1>1, <1>2, <1>5 DEF Init, SessionInv
<1>10. BridgeInv
  BY <1>4 DEF BridgeInv, Spawning
<1>11. RegistryInv
  BY DEF Init, RegistryInv, RegistryForward
<1>12. EmitInv
  BY <1>2 DEF Init, EmitInv
<1>13. HeardInv /\ OwnPlaintexts
  BY <1>1, <1>2, <1>4 DEF Init, HeardInv, OwnPlaintexts, ReadyFirst
<1> QED BY <1>6, <1>7, <1>8, <1>9, <1>10, <1>11, <1>12, <1>13 DEF IndInv

-----------------------------------------------------------------------------
(* The demultiplexer and the peer tasks.                                   *)

\* What the peer tasks leave alone.
Elsewhere == <<bridge, registryVars, carrierVars, appVars, events, heard>>

LEMMA ElsewhereInv ==
    ASSUME IndInv, UNCHANGED Elsewhere, addr' = addr
    PROVE  BridgeInv' /\ RegistryInv' /\ EmitInv' /\ HeardInv' /\ OwnPlaintexts'
<1>1. UNCHANGED <<bridge, peerInbound, byAddr, bySession, sessions, connOf, contended, carrier,
                  closed, inbound, open, sends, outbound, events, heard>>
  BY DEF Elsewhere, registryVars, carrierVars, appVars
<1>2. BridgeInv'
  BY <1>1 DEF IndInv, BridgeInv
<1>3. RegistryInv'
  BY <1>1 DEF IndInv, RegistryInv, RegistryForward, AddrOf
<1>4. EmitInv'
  BY <1>1 DEF IndInv, EmitInv, AddrOf
<1>5. HeardInv' /\ OwnPlaintexts'
  BY <1>1 DEF IndInv, HeardInv, ReadyFirst, OwnPlaintexts
<1> QED BY <1>2, <1>3, <1>4, <1>5

LEMMA ConnectInv == ASSUME IndInv, NEW a \in Addrs, Connect(a) PROVE IndInv'
<1> DEFINE c == conns + 1
<1>1. /\ conns < MaxConns /\ table[a] = 0 /\ conns' = c
      /\ addr' = [addr EXCEPT ![c] = a]
      /\ table' = [table EXCEPT ![a] = c]
      /\ task' = [task EXCEPT ![c] = "accepting"]
      /\ UNCHANGED <<data, listenerEvents, Elsewhere>>
  BY DEF Connect, Elsewhere
<1>2. UNCHANGED <<bridge, peerInbound, byAddr, bySession, sessions, connOf, contended, carrier,
                  closed, inbound, open, sends, outbound, events, heard, listenerEvents, data>>
  BY <1>1 DEF Elsewhere, registryVars, carrierVars, appVars
<1>3. TypeOK /\ conns \in Nat /\ sessions \in Nat /\ sessions <= conns /\ c \in Conns
      /\ c \in Nat /\ c \in 0 .. MaxConns
  BY <1>1, CountFacts, ConstantFacts DEF IndInv, Conns
<1>4. /\ addr'[c] = a /\ \A d \in 1 .. conns : addr'[d] = addr[d] /\ task'[d] = task[d]
      /\ task'[c] = "accepting" /\ table'[a] = c
      /\ \A b \in Addrs \ {a} : table'[b] = table[b]
      /\ \A d \in Conns \ {c} : task'[d] = task[d]
  BY <1>1, <1>3, CountFacts DEF TypeOK
<1>5. TypeOK'
  <2>1. conns' \in 0 .. MaxConns /\ sessions <= conns'
    BY <1>1, <1>3
  <2>2. addr' \in [Conns -> Addrs \cup {0}] /\ table' \in [Addrs -> 0 .. MaxConns]
        /\ task' \in [Conns -> TaskAt]
    BY <1>1, <1>3 DEF TypeOK, TaskAt
  <2> QED BY <1>2, <1>3, <2>1, <2>2 DEF TypeOK
<1>6. 1 .. conns' = 1 .. conns \cup {c} /\ c \notin 1 .. conns
  BY <1>1, <1>3
<1>7. c <= conns' /\ \A d \in Conns : d # c => (d <= conns' <=> d <= conns)
  BY <1>1, <1>3 DEF Conns
<1>8. ASSUME NEW d \in 1 .. conns PROVE d # c /\ d \in Conns /\ d <= c
  BY <1>3, CountFacts
<1> HIDE DEF c
<1>9. ConnInv'
  <2>1. ConnInv
    BY DEF IndInv
  <2>2. \A d \in Conns : d <= conns' <=> task'[d] # "none"
    BY <1>4, <1>7, <2>1 DEF ConnInv
  <2>3. \A d \in 1 .. conns' : addr'[d] \in Addrs
    BY <1>4, <1>6, <2>1 DEF ConnInv
  <2>4. ASSUME NEW d \in 1 .. conns', task'[d] \in Active PROVE table'[addr'[d]] = d
    <3>1. CASE d = c
      BY <1>4, <3>1
    <3>2. CASE d \in 1 .. conns
      <4>1. table[addr[d]] = d /\ addr[d] \in Addrs /\ d # 0
        BY <1>3, <1>4, <2>1, <2>4, <3>2 DEF ConnInv
      <4> QED BY <1>1, <1>4, <3>2, <4>1
    <3> QED BY <1>6, <3>1, <3>2
  <2>5. ASSUME NEW b \in Addrs, table'[b] # 0
        PROVE  /\ table'[b] \in 1 .. conns' /\ addr'[table'[b]] = b
               /\ \A d \in 1 .. conns' : addr'[d] = b => d <= table'[b]
    <3>1. CASE b = a
      <4>1. c <= c
        BY <1>3
      <4> QED BY <1>4, <1>6, <1>8, <3>1, <4>1
    <3>2. CASE b # a
      <4>1. /\ table'[b] = table[b] /\ table[b] \in 1 .. conns /\ addr[table[b]] = b
            /\ \A d \in 1 .. conns : addr[d] = b => d <= table[b]
        BY <1>4, <2>1, <2>5, <3>2 DEF ConnInv
      <4> QED BY <1>4, <1>6, <3>2, <4>1
    <3> QED BY <3>1, <3>2
  <2> QED BY <2>2, <2>3, <2>4, <2>5 DEF ConnInv
<1>10. QueueInv'
  <2>1. QueueInv
    BY DEF IndInv
  <2>2. ASSUME NEW d PROVE HasSession(d)' <=> HasSession(d)
    BY <1>2 DEF HasSession
  <2>3. ASSUME NEW i \in 1 .. Len(listenerEvents)
        PROVE  Ev(i)' = Ev(i) /\ Ev(i).conn \in 1 .. conns /\ Ev(i).conn \in 1 .. conns'
               /\ addr'[Ev(i).conn] = addr[Ev(i).conn] /\ task'[Ev(i).conn] = task[Ev(i).conn]
    BY <1>2, <1>4, <1>6, <2>1 DEF QueueInv, Ev
  <2>4. ASSUME NEW d \in 1 .. conns', task'[d] \in {"open", "reading"}
        PROVE  d \in 1 .. conns /\ task[d] \in {"open", "reading"}
    BY <1>4, <1>6, <2>4
  <2>5. listenerEvents' = listenerEvents
    BY <1>2
  <2> QED BY <2>1, <2>2, <2>3, <2>4, <2>5 DEF QueueInv, Ev
<1>11. ASSUME NEW s \in 1 .. sessions
       PROVE  connOf[s] \in 1 .. conns /\ addr'[connOf[s]] = addr[connOf[s]]
              /\ task'[connOf[s]] = task[connOf[s]] /\ AddrOf(s)' = AddrOf(s)
              /\ connOf[s] \in 1 .. conns'
  BY <1>2, <1>4, <1>6, SessionFacts DEF AddrOf
<1>12. SessionInv'
  BY <1>2, <1>11 DEF IndInv, SessionInv, Ev
<1>13. BridgeInv' /\ HeardInv' /\ OwnPlaintexts'
  BY <1>2 DEF IndInv, BridgeInv, HeardInv, ReadyFirst, OwnPlaintexts
<1>14. RegistryInv'
  BY <1>2, <1>11 DEF IndInv, RegistryInv, RegistryForward
<1>15. EmitInv'
  <2>1. ASSUME NEW s \in 1 .. sessions, NEW t \in 1 .. sessions
        PROVE  (AddrOf(s) = AddrOf(t))' <=> AddrOf(s) = AddrOf(t)
    BY <1>11
  <2> QED BY <1>2, <1>11, <2>1 DEF IndInv, EmitInv
<1> QED BY <1>5, <1>9, <1>10, <1>12, <1>13, <1>14, <1>15 DEF IndInv

\* A peer task moves: the table and the numbering of the connections.
LEMMA MoveConnInv ==
    ASSUME IndInv, NEW c \in Conns, NEW from, NEW to \in TaskAt \ {"none"}, from # "none",
           task[c] = from, task' = [task EXCEPT ![c] = to],
           UNCHANGED <<conns, addr>>,
           \/ table' = table /\ (to \in Active => from \in Active)
           \/ from \in Active /\ to \notin Active /\ table' = [table EXCEPT ![addr[c]] = 0]
    PROVE  /\ ConnInv' /\ task' \in [Conns -> TaskAt] /\ table' \in [Addrs -> 0 .. MaxConns]
           /\ c \in 1 .. conns /\ addr[c] \in Addrs
           /\ task'[c] = to /\ \A d \in Conns \ {c} : task'[d] = task[d]
<1>1. TypeOK /\ ConnInv
  BY DEF IndInv
<1>2. c \in 1 .. conns
  BY <1>1, CountFacts DEF ConnInv, Conns
<1>3. task'[c] = to /\ \A d \in Conns \ {c} : task'[d] = task[d]
  BY <1>1 DEF TypeOK
<1>4. addr[c] \in Addrs /\ task' \in [Conns -> TaskAt]
  BY <1>1, <1>2 DEF TypeOK, ConnInv
<1>5. table' \in [Addrs -> 0 .. MaxConns]
  <2>1. 0 \in 0 .. MaxConns
    BY ConstantFacts
  <2> QED BY <1>1, <1>4, <2>1 DEF TypeOK
<1>6. \A d \in Conns : d <= conns <=> task'[d] # "none"
  BY <1>1, <1>3 DEF ConnInv
<1>7. 1 .. conns \subseteq Conns
  BY <1>1, CountFacts
<1>8. ASSUME NEW d \in 1 .. conns, task'[d] \in Active
      PROVE  task[d] \in Active /\ table[addr[d]] = d /\ table'[addr[d]] = d
  <2>1. task[d] \in Active
    BY <1>3, <1>7, <1>8 DEF Active
  <2>2. table[addr[d]] = d /\ addr[d] \in Addrs
    BY <1>1, <2>1 DEF ConnInv
  <2>3. CASE table' = table
    BY <2>1, <2>2, <2>3
  <2>4. CASE from \in Active /\ to \notin Active /\ table' = [table EXCEPT ![addr[c]] = 0]
    <3>1. table[addr[c]] = c /\ c # d
      BY <1>1, <1>2, <1>3, <1>8, <2>4 DEF ConnInv
    <3>2. addr[c] # addr[d]
      BY <2>2, <3>1
    <3> QED BY <1>1, <2>1, <2>2, <2>4, <3>2 DEF TypeOK
  <2> QED BY <2>3, <2>4
<1>9. ASSUME NEW a \in Addrs, table'[a] # 0 PROVE table'[a] = table[a]
  BY <1>1, <1>4, <1>9 DEF TypeOK
<1>10. ConnInv'
  BY <1>1, <1>6, <1>8, <1>9 DEF ConnInv
<1> QED BY <1>2, <1>3, <1>4, <1>5, <1>10

Unannounced == {"accepting", "announcing"}

\* A step that leaves the connections, the queue and the sessions alone.
LEMMA ConnFrame ==
    ASSUME ConnInv, QueueInv,
           UNCHANGED <<conns, addr, table, task, listenerEvents, sessions, connOf>>
    PROVE  ConnInv' /\ QueueInv'
<1>1. ConnInv'
  BY DEF ConnInv
<1>2. QueueInv'
  BY DEF QueueInv, Ev, HasSession
<1> QED BY <1>1, <1>2

\* A peer task moves and says nothing.
LEMMA MoveInv ==
    ASSUME IndInv, NEW c \in Conns, NEW from \in TaskAt \ {"none"}, NEW to \in TaskAt \ {"none"},
           Go(c, from, to), listenerEvents' = listenerEvents,
           to \in Unannounced => from \in Unannounced,
           to \in {"open", "reading"} => from \in {"open", "reading"},
           \/ table' = table /\ (to \in Active => from \in Active)
           \/ from \in Active /\ to \notin Active /\ table' = [table EXCEPT ![addr[c]] = 0],
           data' \in 0 .. MaxData
    PROVE  IndInv'
<1>1. /\ task[c] = from /\ task' = [task EXCEPT ![c] = to]
      /\ UNCHANGED <<conns, addr, Elsewhere>>
  BY DEF Go, Elsewhere
<1>2. UNCHANGED <<bridge, peerInbound, byAddr, bySession, sessions, connOf, contended, carrier,
                  closed, inbound, open, sends, outbound, events, heard>>
  BY <1>1 DEF Elsewhere, registryVars, carrierVars, appVars
<1>3. /\ ConnInv' /\ task' \in [Conns -> TaskAt] /\ table' \in [Addrs -> 0 .. MaxConns]
      /\ c \in 1 .. conns /\ addr[c] \in Addrs
      /\ task'[c] = to /\ \A d \in Conns \ {c} : task'[d] = task[d]
  BY <1>1, MoveConnInv
<1>4. TypeOK'
  BY <1>1, <1>2, <1>3 DEF IndInv, TypeOK
<1>5. BridgeInv' /\ RegistryInv' /\ EmitInv' /\ HeardInv' /\ OwnPlaintexts'
  BY <1>1, ElsewhereInv
<1>6. \A d \in Conns : /\ task'[d] \in Unannounced => task[d] \in Unannounced
                       /\ task'[d] \in {"open", "reading"} => task[d] \in {"open", "reading"}
  BY <1>1, <1>3 DEF Unannounced
<1>7. 1 .. conns \subseteq Conns
  BY CountFacts DEF IndInv
<1>8. QueueInv'
  <2>1. QueueInv
    BY DEF IndInv
  <2>2. ASSUME NEW d PROVE HasSession(d)' <=> HasSession(d)
    BY <1>2 DEF HasSession
  <2>3. ASSUME NEW i \in 1 .. Len(listenerEvents) PROVE task'[Ev(i).conn] \notin Unannounced
    BY <1>6, <1>7, <2>1 DEF QueueInv, Unannounced
  <2> QED BY <1>1, <1>6, <1>7, <2>1, <2>2, <2>3 DEF QueueInv, Ev, Unannounced
<1>9. SessionInv'
  <2>1. ASSUME NEW s \in 1 .. sessions PROVE task'[connOf[s]] \notin Unannounced
    BY <1>6, <1>7 DEF IndInv, SessionInv, Unannounced
  <2> QED BY <1>1, <1>2, <2>1 DEF IndInv, SessionInv, Ev, AddrOf, Unannounced
<1> QED BY <1>3, <1>4, <1>5, <1>8, <1>9 DEF IndInv

\* A peer task moves and sends an event.
LEMMA TellInv ==
    ASSUME IndInv, NEW c \in Conns, NEW from \in TaskAt \ {"none"}, NEW to \in TaskAt \ {"none"},
           NEW kind, Go(c, from, to), Tell(c, kind), UNCHANGED <<table, data>>,
           \/ from = "announcing" /\ to = "open" /\ kind = "established"
           \/ from = "reading" /\ to = "open" /\ kind = "data"
           \/ from = "leaving" /\ to = "gone" /\ kind = "disconnected"
    PROVE  IndInv'
<1> DEFINE e == [kind |-> kind, addr |-> addr[c], conn |-> c]
<1>0. PICK n : n = Len(listenerEvents)
  OBVIOUS
<1>1. /\ task[c] = from /\ task' = [task EXCEPT ![c] = to]
      /\ UNCHANGED <<conns, addr, Elsewhere>>
      /\ n < ListenerCapacity
      /\ listenerEvents' = Append(listenerEvents, e)
  BY <1>0 DEF Go, Elsewhere, Tell
<1>2. UNCHANGED <<bridge, peerInbound, byAddr, bySession, sessions, connOf, contended, carrier,
                  closed, inbound, open, sends, outbound, events, heard>>
  BY <1>1 DEF Elsewhere, registryVars, carrierVars, appVars
<1>3. /\ ConnInv' /\ task' \in [Conns -> TaskAt] /\ table' \in [Addrs -> 0 .. MaxConns]
      /\ c \in 1 .. conns /\ addr[c] \in Addrs
      /\ task'[c] = to /\ \A d \in Conns \ {c} : task'[d] = task[d]
  BY <1>1, MoveConnInv DEF Active
<1>4. e \in ListenerEvents
  BY <1>3 DEF ListenerEvents
<1>5. /\ n \in Nat /\ listenerEvents' \in Seq(ListenerEvents)
      /\ Len(listenerEvents') = n + 1 /\ listenerEvents'[n + 1] = e
      /\ \A i \in 1 .. n : listenerEvents'[i] = listenerEvents[i]
  BY <1>0, <1>1, <1>4, AppendProperties, LenProperties DEF IndInv, TypeOK
<1>6. n + 1 <= ListenerCapacity /\ 1 .. n + 1 = 1 .. n \cup {n + 1} /\ 1 .. (n + 1) - 1 = 1 .. n
      /\ \A i \in 1 .. n : i < n + 1 /\ ~(n + 1 < i) /\ i # n + 1
      /\ ~(n + 1 < n + 1)
  BY <1>1, <1>5, ConstantFacts
<1>7. TypeOK'
  BY <1>1, <1>2, <1>3, <1>5, <1>6 DEF IndInv, TypeOK
<1>8. BridgeInv' /\ RegistryInv' /\ EmitInv' /\ HeardInv' /\ OwnPlaintexts'
  BY <1>1, ElsewhereInv
<1>9. e.kind = kind /\ e.addr = addr[c] /\ e.conn = c
  OBVIOUS
<1> HIDE DEF e
<1>10. \A d \in Conns : /\ task'[d] \in Unannounced => task[d] \in Unannounced
                        /\ task'[d] \in {"open", "reading"} =>
                               \/ d = c /\ kind \in {"established", "data"}
                               \/ task[d] \in {"open", "reading"}
  BY <1>1, <1>3 DEF Unannounced
<1>11. 1 .. conns \subseteq Conns
  BY CountFacts DEF IndInv
<1>12. ASSUME kind # "disconnected", NEW d \in 1 .. conns, addr[d] = addr[c]
       PROVE  d <= c
  <2>1. table[addr[c]] = c /\ c # 0
    BY <1>1, <1>3, <1>12 DEF IndInv, ConnInv, Active
  <2> QED BY <1>3, <1>12, <2>1 DEF IndInv, ConnInv
<1>13. kind = "established" => /\ ~HasSession(c)
                               /\ \A i \in 1 .. n : Ev(i).conn # c
  BY <1>0, <1>1 DEF IndInv, QueueInv, SessionInv, HasSession
<1>15. Ev(n + 1)' = e /\ \A i \in 1 .. n : Ev(i)' = Ev(i)
  BY <1>5 DEF Ev
<1>16. QueueInv'
  <2>1. QueueInv
    BY DEF IndInv
  <2>2. ASSUME NEW i \in 1 .. n
        PROVE  /\ Ev(i)'.conn \in 1 .. conns /\ Ev(i)'.addr = addr[Ev(i)'.conn]
               /\ task'[Ev(i)'.conn] \notin {"accepting", "announcing"}
               /\ Ev(i)'.kind = "established" => ~HasSession(Ev(i)'.conn)
               /\ Ev(i)'.kind = "data" =>
                     \/ HasSession(Ev(i)'.conn)
                     \/ \E j \in 1 .. i - 1 : Ev(j)'.kind = "established" /\ Ev(j)'.conn = Ev(i)'.conn
    <3>1. 1 .. i - 1 \subseteq 1 .. n
      BY <1>5
    <3> QED BY SMTT(30), <1>0, <1>10, <1>11, <1>15, <2>1, <3>1 DEF QueueInv, Unannounced
  <2>3. /\ e.conn \in 1 .. conns /\ e.addr = addr[e.conn]
        /\ task'[e.conn] \notin {"accepting", "announcing"}
        /\ e.kind = "established" => ~HasSession(e.conn)
        /\ e.kind = "data" => \/ HasSession(e.conn)
                              \/ \E j \in 1 .. n : Ev(j)'.kind = "established" /\ Ev(j)'.conn = e.conn
    BY SMTT(30), <1>0, <1>1, <1>3, <1>9, <1>13, <1>15, <2>1 DEF QueueInv
  <2>4. ASSUME NEW i \in 1 .. n + 1
        PROVE  /\ Ev(i)'.conn \in 1 .. conns /\ Ev(i)'.addr = addr[Ev(i)'.conn]
               /\ task'[Ev(i)'.conn] \notin {"accepting", "announcing"}
               /\ Ev(i)'.kind = "established" => ~HasSession(Ev(i)'.conn)
               /\ Ev(i)'.kind = "data" =>
                     \/ HasSession(Ev(i)'.conn)
                     \/ \E j \in 1 .. i - 1 : Ev(j)'.kind = "established" /\ Ev(j)'.conn = Ev(i)'.conn
    <3>1. CASE i \in 1 .. n
      BY <2>2, <3>1
    <3>2. CASE i = n + 1
      BY <1>6, <1>15, <2>3, <3>2
    <3> QED BY <1>6, <3>1, <3>2
  <2>5. ASSUME NEW i \in 1 .. n + 1, NEW j \in 1 .. n + 1
        PROVE  /\ i # j /\ Ev(i)'.kind = "established" /\ Ev(j)'.kind = "established"
                     => Ev(i)'.conn # Ev(j)'.conn
               /\ i < j /\ Ev(i)'.addr = Ev(j)'.addr /\ Ev(i)'.kind # "disconnected"
                        /\ Ev(j)'.kind # "disconnected" => Ev(i)'.conn <= Ev(j)'.conn
    <3>1. CASE i \in 1 .. n /\ j \in 1 .. n
      BY <1>0, <1>15, <2>1, <3>1 DEF QueueInv
    <3>2. CASE i \in 1 .. n /\ j = n + 1
      <4>1. Ev(i)' = Ev(i) /\ Ev(j)' = e /\ Ev(i).conn \in 1 .. conns /\ Ev(i).addr = addr[Ev(i).conn]
        BY <1>0, <1>15, <2>1, <3>2 DEF QueueInv
      <4> QED BY <1>9, <1>12, <1>13, <3>2, <4>1
    <3>3. CASE i = n + 1 /\ j \in 1 .. n
      BY <1>6, <1>9, <1>13, <1>15, <3>3
    <3>4. CASE i = n + 1 /\ j = n + 1
      BY <1>6, <3>4
    <3> QED BY <1>6, <3>1, <3>2, <3>3, <3>4
  <2>6. ASSUME NEW d \in 1 .. conns, task'[d] \in {"open", "reading"}
        PROVE  \/ HasSession(d)
               \/ \E i \in 1 .. n + 1 : Ev(i)'.kind = "established" /\ Ev(i)'.conn = d
    <3>1. CASE task[d] \in {"open", "reading"}
      BY <1>0, <1>6, <1>15, <2>1, <3>1 DEF QueueInv
    <3>2. CASE d = c /\ kind = "established"
      BY <1>6, <1>9, <1>15, <3>2
    <3>3. CASE d = c /\ kind = "data"
      BY <1>0, <1>1, <1>6, <1>15, <2>1, <3>3 DEF QueueInv
    <3> QED BY <1>10, <1>11, <2>6, <3>1, <3>2, <3>3
  <2>7. sessions' = sessions /\ connOf' = connOf /\ conns' = conns /\ addr' = addr
        /\ Len(listenerEvents') = n + 1
    BY <1>1, <1>2, <1>5
  <2> QED BY <2>4, <2>5, <2>6, <2>7 DEF QueueInv, HasSession
<1>17. SessionInv'
  <2>1. SessionInv
    BY DEF IndInv
  <2>2. ASSUME NEW s \in 1 .. sessions
        PROVE  /\ task'[connOf[s]] \notin {"accepting", "announcing"}
               /\ AddrOf(s)' = AddrOf(s) /\ connOf[s] \in 1 .. conns /\ AddrOf(s) = addr[connOf[s]]
    BY <1>1, <1>2, <1>10, <1>11, <2>1 DEF SessionInv, Unannounced, AddrOf
  <2>3. ASSUME NEW s \in 1 .. sessions, NEW i \in 1 .. n + 1,
               Ev(i)'.addr = AddrOf(s), Ev(i)'.kind # "disconnected"
        PROVE  connOf[s] <= Ev(i)'.conn
    <3>1. CASE i \in 1 .. n
      BY <1>0, <1>15, <2>1, <2>3, <3>1 DEF SessionInv
    <3>2. CASE i = n + 1
      BY <1>9, <1>12, <1>15, <2>2, <2>3, <3>2
    <3> QED BY <1>6, <3>1, <3>2
  <2>4. \A s \in 1 .. sessions : \A i \in 1 .. Len(listenerEvents') :
           Ev(i)'.addr = AddrOf(s)' /\ Ev(i)'.kind # "disconnected" => connOf[s] <= Ev(i)'.conn
    BY <1>5, <2>2, <2>3
  <2> QED BY <1>1, <1>2, <2>1, <2>2, <2>4 DEF SessionInv
<1> QED BY <1>3, <1>7, <1>8, <1>16, <1>17 DEF IndInv

LEMMA PeerInv ==
    ASSUME IndInv, NEW c \in Conns,
           \/ Accept(c) \/ Announce(c) \/ Forward(c) \/ SslFails(c) \/ Unlist(c) \/ Leave(c)
           \/ Decrypt(c)
    PROVE  IndInv'
<1> USE DEF TaskAt, Active, Unannounced
<1>1. data \in 0 .. MaxData /\ MaxData \in Nat
  BY ConstantFacts DEF IndInv, TypeOK
<1>2. CASE Accept(c)
  <2>1. UNCHANGED <<table, data, listenerEvents>>
    BY <1>2 DEF Accept
  <2>2. CASE Go(c, "accepting", "announcing")
    BY <1>1, <2>1, <2>2, MoveInv
  <2>3. CASE Go(c, "accepting", "ended")
    BY <1>1, <2>1, <2>3, MoveInv
  <2> QED BY <1>2, <2>2, <2>3 DEF Accept
<1>3. CASE Announce(c)
  BY <1>3, TellInv DEF Announce
<1>4. CASE Forward(c)
  BY <1>4, TellInv DEF Forward
<1>5. CASE Leave(c)
  BY <1>5, TellInv DEF Leave
<1>6. CASE SslFails(c)
  BY <1>1, <1>6, MoveInv DEF SslFails
<1>7. CASE Unlist(c)
  <2>1. /\ Go(c, "ended", "leaving") /\ table' = [table EXCEPT ![addr[c]] = 0]
        /\ UNCHANGED <<data, listenerEvents>>
    BY <1>7 DEF Unlist
  <2> QED BY <1>1, <2>1, MoveInv
<1>8. CASE Decrypt(c)
  <2>1. data' \in 0 .. MaxData
    BY <1>1, <1>8 DEF Decrypt
  <2> QED BY <1>8, <2>1, MoveInv DEF Decrypt
<1> QED BY <1>2, <1>3, <1>4, <1>5, <1>6, <1>7, <1>8

-----------------------------------------------------------------------------
(* The carrier tasks.                                                      *)

LEMMA RemoveFacts ==
    ASSUME IndInv, NEW a \in Addrs, Remove(a) \/ UNCHANGED <<byAddr, bySession>>
    PROVE  /\ byAddr' \in [Addrs -> 0 .. MaxConns]
           /\ bySession' \in [Sessions -> Addrs \cup {0}]
           /\ \A b \in Addrs : byAddr'[b] # 0 =>
                 /\ byAddr'[b] = byAddr[b]
                 /\ bySession'[byAddr[b]] = bySession[byAddr[b]]
<1>1. /\ byAddr \in [Addrs -> 0 .. MaxConns] /\ bySession \in [Sessions -> Addrs \cup {0}]
      /\ 0 \in 0 .. MaxConns
  BY ConstantFacts DEF IndInv, TypeOK
<1>2. CASE UNCHANGED <<byAddr, bySession>>
  BY <1>1, <1>2
<1>3. CASE Remove(a)
  <2>1. byAddr' = [byAddr EXCEPT ![a] = 0]
        /\ bySession' = IF byAddr[a] = 0 THEN bySession ELSE [bySession EXCEPT ![byAddr[a]] = 0]
    BY <1>3 DEF Remove
  <2>2. byAddr' \in [Addrs -> 0 .. MaxConns]
    BY <1>1, <2>1
  <2>3. bySession' \in [Sessions -> Addrs \cup {0}]
    BY <1>1, <2>1
  <2>4. ASSUME NEW b \in Addrs, byAddr'[b] # 0
        PROVE  byAddr'[b] = byAddr[b] /\ bySession'[byAddr[b]] = bySession[byAddr[b]]
    <3>1. b # a /\ byAddr'[b] = byAddr[b]
      BY <1>1, <2>1, <2>4
    <3>2. byAddr[b] \in 1 .. sessions /\ AddrOf(byAddr[b]) = b
      BY <2>4, <3>1 DEF IndInv, RegistryInv
    <3>3. byAddr[a] # 0 => AddrOf(byAddr[a]) = a
      BY DEF IndInv, RegistryInv
    <3>4. byAddr[a] # byAddr[b]
      BY <3>1, <3>2, <3>3, <2>4
    <3>5. byAddr[b] \in Sessions
      BY <3>2, SessionFacts
    <3> QED BY <1>1, <2>1, <3>1, <3>4, <3>5
  <2> QED BY <2>2, <2>3, <2>4
<1> QED BY <1>2, <1>3

\* What an event announces is of the carrier's own session, or contended.
LEMMA NowFacts ==
    ASSUME IndInv, NEW s \in 1 .. sessions, byAddr[AddrOf(s)] # 0, carrier[s].at # "gone"
    PROVE  LET now == byAddr[AddrOf(s)]
           IN  now \in 1 .. sessions /\ (now = s \/ now \in contended)
<1> DEFINE now == byAddr[AddrOf(s)]
<1>1. now \in 1 .. sessions /\ AddrOf(now) = AddrOf(s)
  BY SessionFacts DEF IndInv, RegistryInv
<1>2. now = s \/ now < s \/ s < now
  BY <1>1, CountFacts DEF IndInv
<1>3. CASE now < s
  BY <1>1, <1>3 DEF IndInv, EmitInv
<1>4. CASE s < now
  BY <1>1, <1>4 DEF IndInv, EmitInv
<1> QED BY <1>1, <1>2, <1>3, <1>4

\* Every element of p is one of q.
Within(p, q) == \A i \in 1 .. Len(p) : \E j \in 1 .. Len(q) : p[i] = q[j]

\* A carrier task moves from where it is to r.
LEMMA CarrierStepInv ==
    ASSUME IndInv, NEW s \in 1 .. sessions, NEW r \in CarrierStates,
           carrier[s].at # "gone", carrier' = [carrier EXCEPT ![s] = r],
           UNCHANGED <<peerVars, listenerEvents, bridge, peerInbound, sessions, connOf,
                       contended, open, sends>>,
           outbound' \in [Sessions -> 0 .. QueueCapacity],
           closed' \in [Sessions -> BOOLEAN],
           events' \in 0 .. EventCapacity, heard' \in [Sessions -> SUBSET AppEvents],
           Remove(AddrOf(s)) \/ UNCHANGED <<byAddr, bySession>>,
           \/ inbound' = inbound
           \/ inbound[s] # << >> /\ inbound' = [inbound EXCEPT ![s] = Tail(@)],
           r.at = "emit" =>
              /\ r.s = byAddr[AddrOf(s)] /\ r.s # 0 /\ r.ev # "none" /\ r.then \in {"up", "gone"}
              /\ r.ev = "disconnected" => r.then = "gone",
           bridge.op \in Spawning /\ bridge.s = s =>
              r.at \in {"connecting", "gone"} \/ (r.at = "emit" /\ r.ev = "disconnected")
    PROVE  /\ TypeOK' /\ ConnInv' /\ QueueInv' /\ SessionInv' /\ BridgeInv' /\ RegistryInv'
           /\ EmitInv' /\ OwnPlaintexts'
<1>1. UNCHANGED <<conns, addr, table, task, data, listenerEvents, bridge, peerInbound, sessions,
                  connOf, contended, open, sends>>
  BY DEF peerVars
<1>2. TypeOK /\ s \in Sessions /\ AddrOf(s) \in Addrs /\ 1 .. sessions \subseteq Sessions
      /\ sessions \in Nat
  BY SessionFacts, CountFacts DEF IndInv
<1>3. /\ byAddr' \in [Addrs -> 0 .. MaxConns]
      /\ bySession' \in [Sessions -> Addrs \cup {0}]
      /\ \A b \in Addrs : byAddr'[b] # 0 => /\ byAddr'[b] = byAddr[b]
                                            /\ bySession'[byAddr[b]] = bySession[byAddr[b]]
  BY <1>2, RemoveFacts
<1>4. /\ carrier'[s] = r /\ \A t \in Sessions \ {s} : carrier'[t] = carrier[t]
      /\ carrier' \in [Sessions -> CarrierStates]
  BY <1>2 DEF TypeOK
<1>5. /\ inbound' \in [Sessions -> Seq(Conns)]
      /\ \A t \in Sessions : /\ Len(inbound'[t]) <= QueueCapacity
                             /\ inbound[t] = << >> => inbound'[t] = << >>
                             /\ Within(inbound'[t], inbound[t])
  <2>1. CASE inbound' = inbound
    BY <1>2, <2>1 DEF TypeOK, Within
  <2>2. CASE inbound[s] # << >> /\ inbound' = [inbound EXCEPT ![s] = Tail(@)]
    <3>1. inbound[s] \in Seq(Conns) /\ Len(inbound[s]) <= QueueCapacity
      BY <1>2 DEF TypeOK
    <3>2. /\ Tail(inbound[s]) \in Seq(Conns) /\ Len(inbound[s]) \in Nat
          /\ Len(Tail(inbound[s])) = Len(inbound[s]) - 1
          /\ \A i \in 1 .. Len(Tail(inbound[s])) : Tail(inbound[s])[i] = inbound[s][i + 1]
      BY <2>2, <3>1, HeadTailProperties, LenProperties
    <3>3. \A i \in 1 .. Len(inbound[s]) - 1 : i + 1 \in 1 .. Len(inbound[s])
      BY <3>2
    <3>4. Len(Tail(inbound[s])) <= QueueCapacity
      BY SMTT(30), <3>1, <3>2, ConstantFacts
    <3>5. /\ inbound' \in [Sessions -> Seq(Conns)]
          /\ inbound'[s] = Tail(inbound[s])
          /\ \A t \in Sessions \ {s} : inbound'[t] = inbound[t]
      BY <1>2, <2>2, <3>2 DEF TypeOK
    <3>6. ASSUME NEW t \in Sessions
          PROVE  /\ Len(inbound'[t]) <= QueueCapacity
                 /\ inbound[t] = << >> => inbound'[t] = << >>
                 /\ Within(inbound'[t], inbound[t])
      <4>1. CASE t = s
        <5>1. Within(Tail(inbound[s]), inbound[s])
          BY <3>2, <3>3 DEF Within
        <5> QED BY <2>2, <3>4, <3>5, <4>1, <5>1
      <4>2. CASE t # s
        BY <1>2, <3>5, <4>2 DEF TypeOK, Within
      <4> QED BY <4>1, <4>2
    <3> QED BY <3>5, <3>6
  <2> QED BY <2>1, <2>2
<1>6. TypeOK'
  BY ZenonT(60), <1>1, <1>2, <1>3, <1>4, <1>5 DEF TypeOK
<1>7. ConnInv' /\ QueueInv'
  BY <1>1, ConnFrame DEF IndInv
<1>8. SessionInv'
  <2>1. ASSUME NEW t \in Sessions, t > sessions
        PROVE  inbound'[t] = << >> /\ carrier'[t].at = "none" /\ connOf[t] = 0
    <3>1. t # s
      BY <1>2, <2>1
    <3>2. inbound[t] = << >> /\ carrier[t].at = "none" /\ connOf[t] = 0
      BY <2>1 DEF IndInv, SessionInv
    <3> QED BY <1>4, <1>5, <3>1, <3>2
  <2> QED BY SMTT(30), <1>1, <2>1 DEF IndInv, SessionInv, Ev, AddrOf
<1>9. BridgeInv'
  <2>1. BridgeInv
    BY DEF IndInv
  <2>2. ASSUME bridge.op \in Spawning
        PROVE  /\ bridge.s = sessions /\ inbound'[bridge.s] = << >>
               /\ \/ carrier'[bridge.s].at \in {"connecting", "gone"}
                  \/ carrier'[bridge.s].at = "emit" /\ carrier'[bridge.s].ev = "disconnected"
    <3>1. bridge.s \in Sessions
      BY <1>2, <2>1, <2>2 DEF BridgeInv, Spawning
    <3>2. CASE bridge.s = s
      BY <1>4, <1>5, <2>1, <2>2, <3>1, <3>2 DEF BridgeInv
    <3>3. CASE bridge.s # s
      BY <1>4, <1>5, <2>1, <2>2, <3>1, <3>3 DEF BridgeInv
    <3> QED BY <3>2, <3>3
  <2> QED BY <1>1, <2>1, <2>2 DEF BridgeInv
<1>10. RegistryInv'
  <2>1. ASSUME NEW a \in Addrs, byAddr'[a] # 0
        PROVE  /\ byAddr'[a] \in 1 .. sessions /\ AddrOf(byAddr'[a]) = a
               /\ \/ bySession'[byAddr'[a]] = a
                  \/ bridge.op = "register" /\ bridge.s = byAddr'[a]
    BY <1>3, <2>1 DEF IndInv, RegistryInv, RegistryForward
  <2> QED BY <1>1, <2>1 DEF RegistryInv, RegistryForward, AddrOf
<1>11. EmitInv'
  <2>1. EmitInv
    BY DEF IndInv
  <2>2. ASSUME NEW t \in 1 .. sessions, carrier'[t].at # "gone" PROVE carrier[t].at # "gone"
    BY <1>2, <1>4, <2>2
  <2>3. ASSUME NEW t \in 1 .. sessions, byAddr'[AddrOf(t)] = t PROVE byAddr[AddrOf(t)] = t
    <3>1. t # 0 /\ AddrOf(t) \in Addrs
      BY <1>2, SessionFacts
    <3> QED BY <1>3, <2>3, <3>1
  <2>4. ASSUME NEW t \in 1 .. sessions, carrier'[t].at = "emit"
        PROVE  /\ carrier'[t].s \in 1 .. sessions /\ carrier'[t].ev # "none"
               /\ carrier'[t].then \in {"up", "gone"}
               /\ carrier'[t].ev = "disconnected" => carrier'[t].then = "gone"
               /\ carrier'[t].s = t \/ carrier'[t].s \in contended
    <3>1. CASE t = s
      BY <1>4, <2>4, <3>1, NowFacts
    <3>2. CASE t # s
      BY <1>2, <1>4, <2>1, <2>4, <3>2 DEF EmitInv
    <3> QED BY <3>1, <3>2
  <2>5. ASSUME NEW t \in 1 .. sessions, NEW u \in 1 .. sessions,
               t < u, AddrOf(t) = AddrOf(u)
        PROVE  /\ carrier'[t].at # "gone" => t \in contended /\ u \in contended
               /\ byAddr'[AddrOf(t)] = t => t \in contended
    BY <2>1, <2>2, <2>3, <2>5 DEF EmitInv
  <2> QED BY <1>1, <2>4, <2>5 DEF EmitInv, AddrOf
<1>12. OwnPlaintexts'
  <2>1. ASSUME NEW t \in Sessions, NEW i \in 1 .. Len(inbound'[t])
        PROVE  inbound'[t][i] = connOf[t]
    BY <1>5 DEF IndInv, OwnPlaintexts, Within
  <2> QED BY <1>1, <2>1 DEF IndInv, OwnPlaintexts
<1> QED BY <1>6, <1>7, <1>8, <1>9, <1>10, <1>11, <1>12

LEMMA AtFacts ==
    ASSUME NEW where \in CarrierAt \ {"emit"}
    PROVE  At(where) \in CarrierStates /\ At(where).at = where
BY ConstantFacts DEF At, CarrierStates

\* EndSession leads to r as CarrierStepInv wants it.
LEMMA EndFacts ==
    ASSUME IndInv, NEW s \in 1 .. sessions, EndSession(s)
    PROVE  /\ Remove(AddrOf(s))
           /\ \E r \in CarrierStates :
                 /\ carrier' = [carrier EXCEPT ![s] = r]
                 /\ r.at = "emit" => /\ r.s = byAddr[AddrOf(s)] /\ r.s # 0
                                     /\ r.ev # "none" /\ r.then \in {"up", "gone"}
                                     /\ r.ev = "disconnected" => r.then = "gone"
                 /\ r.at = "gone" \/ (r.at = "emit" /\ r.ev = "disconnected")
<1> DEFINE a == AddrOf(s)
           r == IF byAddr[a] = 0 THEN At("gone")
                ELSE [at |-> "emit", ev |-> "disconnected", s |-> byAddr[a], then |-> "gone"]
<1>1. byAddr[a] \in 0 .. MaxConns
  BY SessionFacts DEF IndInv, TypeOK
<1>2. r \in CarrierStates
  BY <1>1, AtFacts DEF CarrierStates, CarrierAt, AppEvents
<1>3. /\ r.at = "emit" => /\ r.s = byAddr[AddrOf(s)] /\ r.s # 0
                          /\ r.ev # "none" /\ r.then \in {"up", "gone"}
                          /\ r.ev = "disconnected" => r.then = "gone"
      /\ r.at = "gone" \/ (r.at = "emit" /\ r.ev = "disconnected")
  <2>1. CASE byAddr[a] = 0
    BY <2>1, AtFacts DEF CarrierAt
  <2>2. CASE byAddr[a] # 0
    BY <2>2
  <2> QED BY <2>1, <2>2
<1>4. Remove(a) /\ carrier' = [carrier EXCEPT ![s] = r]
  BY DEF EndSession
<1> QED BY <1>2, <1>3, <1>4

\* HeardInv is not touched by a step that reports nothing.
LEMMA SilentInv ==
    ASSUME IndInv, UNCHANGED <<bridge, sessions, contended, open, heard>>
    PROVE  HeardInv'
BY DEF IndInv, HeardInv, ReadyFirst

LEMMA CarrierTypes ==
    ASSUME IndInv
    PROVE  /\ outbound \in [Sessions -> 0 .. QueueCapacity] /\ closed \in [Sessions -> BOOLEAN]
           /\ events \in 0 .. EventCapacity /\ heard \in [Sessions -> SUBSET AppEvents]
BY DEF IndInv, TypeOK

\* A carrier that ends its session.
LEMMA EndInv ==
    ASSUME IndInv, NEW s \in 1 .. sessions, carrier[s].at # "gone", EndSession(s),
           UNCHANGED <<peerVars, listenerEvents, bridge, peerInbound, sessions, connOf,
                       contended, appVars, events, heard>>,
           closed' \in [Sessions -> BOOLEAN],
           \/ inbound' = inbound
           \/ inbound[s] # << >> /\ inbound' = [inbound EXCEPT ![s] = Tail(@)]
    PROVE  IndInv'
<1>1. UNCHANGED <<open, sends, outbound, events, heard>>
  BY DEF appVars
<1>2. Remove(AddrOf(s))
  BY EndFacts
<1>3. PICK r \in CarrierStates :
         /\ carrier' = [carrier EXCEPT ![s] = r]
         /\ r.at = "emit" => /\ r.s = byAddr[AddrOf(s)] /\ r.s # 0
                             /\ r.ev # "none" /\ r.then \in {"up", "gone"}
                             /\ r.ev = "disconnected" => r.then = "gone"
         /\ r.at = "gone" \/ (r.at = "emit" /\ r.ev = "disconnected")
  BY EndFacts
<1>4. /\ TypeOK' /\ ConnInv' /\ QueueInv' /\ SessionInv' /\ BridgeInv' /\ RegistryInv'
      /\ EmitInv' /\ OwnPlaintexts'
  BY <1>1, <1>2, <1>3, CarrierTypes, CarrierStepInv
<1>5. HeardInv'
  BY <1>1, SilentInv
<1> QED BY <1>4, <1>5 DEF IndInv

\* A carrier that goes to r, registry untouched and nothing reported, and is
\* not the one the bridge registers.
LEMMA OnwardInv ==
    ASSUME IndInv, NEW s \in 1 .. sessions, NEW r \in CarrierStates,
           carrier[s].at # "gone", carrier' = [carrier EXCEPT ![s] = r],
           r.at = "emit" =>
              /\ r.s = byAddr[AddrOf(s)] /\ r.s # 0 /\ r.ev # "none" /\ r.then \in {"up", "gone"}
              /\ r.ev = "disconnected" => r.then = "gone",
           UNCHANGED <<peerVars, listenerEvents, bridge, registryVars, open, sends, events,
                       heard>>,
           outbound' \in [Sessions -> 0 .. QueueCapacity],
           closed' \in [Sessions -> BOOLEAN],
           \/ inbound' = inbound
           \/ inbound[s] # << >> /\ inbound' = [inbound EXCEPT ![s] = Tail(@)],
           carrier[s].at \in {"up", "sending"} \/ inbound[s] # << >>
    PROVE  IndInv'
<1>1. UNCHANGED <<peerInbound, byAddr, bySession, sessions, connOf, contended>>
  BY DEF registryVars
<1>2. ~(bridge.op \in Spawning /\ bridge.s = s)
  BY DEF IndInv, BridgeInv
<1>3. /\ TypeOK' /\ ConnInv' /\ QueueInv' /\ SessionInv' /\ BridgeInv' /\ RegistryInv'
      /\ EmitInv' /\ OwnPlaintexts'
  BY <1>1, <1>2, CarrierTypes, CarrierStepInv
<1>4. HeardInv'
  BY <1>1, SilentInv
<1> QED BY <1>3, <1>4 DEF IndInv

LEMMA WriteFailsInv ==
    ASSUME IndInv, NEW s \in 1 .. sessions, WriteFails(s) PROVE IndInv'
<1>1. closed' \in [Sessions -> BOOLEAN]
  BY CarrierTypes DEF WriteFails
<1> QED BY <1>1, EndInv DEF WriteFails

LEMMA AwaitReadyInv ==
    ASSUME IndInv, NEW s \in 1 .. sessions, NEW e \in CarrierEvents, AwaitReady(s, e)
    PROVE  IndInv'
<1>1. /\ carrier[s].at = "connecting" /\ inbound[s] # << >>
      /\ inbound' = [inbound EXCEPT ![s] = Tail(@)]
      /\ UNCHANGED <<peerVars, listenerEvents, bridge, peerInbound, sessions, connOf, contended,
                     appVars, events, heard>>
  BY DEF AwaitReady
<1>2. s \in Sessions /\ carrier \in [Sessions -> CarrierStates]
  BY SessionFacts DEF IndInv, TypeOK
<1>3. CASE /\ e = "connected" /\ carrier' = [carrier EXCEPT ![s] = At("up")]
           /\ UNCHANGED <<closed, byAddr, bySession>>
  <2>1. At("up") \in CarrierStates /\ At("up").at = "up"
    BY AtFacts DEF CarrierAt
  <2> QED BY <1>1, <1>3, <2>1, CarrierTypes, OnwardInv DEF registryVars, appVars
<1>4. CASE e = "message" /\ UNCHANGED <<carrier, closed, byAddr, bySession>>
  <2>1. carrier' = [carrier EXCEPT ![s] = carrier[s]] /\ carrier[s] \in CarrierStates
    BY <1>2, <1>4
  <2> QED BY <1>1, <1>4, <2>1, CarrierTypes, OnwardInv DEF registryVars, appVars
<1>5. CASE closed' = [closed EXCEPT ![s] = TRUE] /\ EndSession(s)
  <2>1. closed' \in [Sessions -> BOOLEAN]
    BY <1>5, CarrierTypes
  <2> QED BY <1>1, <1>5, <2>1, EndInv
<1> QED BY <1>3, <1>4, <1>5 DEF AwaitReady

LEMMA InboundInv ==
    ASSUME IndInv, NEW s \in 1 .. sessions, NEW e \in CarrierEvents \cup {"closed"}, Inbound(s, e)
    PROVE  IndInv'
<1> DEFINE now == byAddr[AddrOf(s)]
           r == [at |-> "emit", s |-> now, ev |-> IF e = "message" THEN "received" ELSE e,
                 then |-> IF e = "message" THEN "up" ELSE "gone"]
<1>1. /\ carrier[s].at = "up" /\ TakeEvent(s, e)
      /\ UNCHANGED <<peerVars, listenerEvents, bridge, peerInbound, sessions, connOf, contended,
                     appVars, events, heard>>
  BY DEF Inbound
<1>2. s \in Sessions /\ carrier \in [Sessions -> CarrierStates] /\ now \in 0 .. MaxConns
  BY SessionFacts DEF IndInv, TypeOK
<1>3. \/ inbound' = inbound
      \/ inbound[s] # << >> /\ inbound' = [inbound EXCEPT ![s] = Tail(@)]
  BY <1>1 DEF TakeEvent, HasEvent
<1>4. closed' \in [Sessions -> BOOLEAN]
  BY <1>1, CarrierTypes DEF TakeEvent
<1>5. CASE e = "closed" /\ EndSession(s)
  BY <1>1, <1>3, <1>4, <1>5, EndInv
<1>6. CASE /\ e \in {"message", "disconnected"} /\ now # 0
           /\ carrier' = [carrier EXCEPT ![s] = r]
           /\ UNCHANGED <<byAddr, bySession>>
  <2>1. r \in CarrierStates
    BY <1>2, <1>6 DEF CarrierStates, CarrierAt, AppEvents
  <2>2. /\ r.at = "emit" /\ r.s = now /\ r.ev # "none" /\ r.then \in {"up", "gone"}
        /\ r.ev = "disconnected" => r.then = "gone"
    BY <1>6
  <2> HIDE DEF r
  <2> QED BY <1>1, <1>3, <1>4, <1>6, <2>1, <2>2, CarrierTypes, OnwardInv
          DEF registryVars, appVars
<1>7. CASE UNCHANGED <<carrier, byAddr, bySession>>
  <2>1. carrier' = [carrier EXCEPT ![s] = carrier[s]] /\ carrier[s] \in CarrierStates
    BY <1>2, <1>7
  <2> QED BY <1>1, <1>3, <1>4, <1>7, <2>1, CarrierTypes, OnwardInv DEF registryVars, appVars
<1> QED BY <1>5, <1>6, <1>7 DEF Inbound

LEMMA OutboundInv ==
    ASSUME IndInv, NEW s \in 1 .. sessions, Outbound(s) PROVE IndInv'
<1>1. /\ carrier[s].at = "up"
      /\ UNCHANGED <<peerVars, listenerEvents, bridge, registryVars, closed, inbound, open,
                     sends, events, heard>>
  BY DEF Outbound
<1>2. s \in Sessions /\ QueueCapacity \in Nat
  BY SessionFacts, ConstantFacts
<1>3. At("sending") \in CarrierStates /\ At("sending").at = "sending"
      /\ At("gone") \in CarrierStates /\ At("gone").at = "gone"
  BY AtFacts DEF CarrierAt
<1>4. CASE outbound[s] > 0 /\ outbound' = [outbound EXCEPT ![s] = @ - 1]
           /\ carrier' = [carrier EXCEPT ![s] = At("sending")]
  <2>1. outbound[s] - 1 \in 0 .. QueueCapacity
    BY <1>2, <1>4, CarrierTypes
  <2>2. outbound' \in [Sessions -> 0 .. QueueCapacity]
    BY <1>2, <1>4, <2>1, CarrierTypes
  <2> QED BY <1>1, <1>3, <1>4, <2>2, CarrierTypes, OnwardInv
<1>5. CASE carrier' = [carrier EXCEPT ![s] = At("gone")] /\ UNCHANGED outbound
  BY <1>1, <1>3, <1>5, CarrierTypes, OnwardInv
<1> QED BY <1>4, <1>5 DEF Outbound

LEMMA HandOverInv ==
    ASSUME IndInv, NEW s \in 1 .. sessions, HandOver(s) PROVE IndInv'
<1> DEFINE now == byAddr[AddrOf(s)]
           r == IF now = 0 THEN At("up")
                ELSE [at |-> "emit", ev |-> "sent", s |-> now, then |-> "up"]
<1>1. /\ carrier[s].at = "sending"
      /\ UNCHANGED <<peerVars, listenerEvents, bridge, peerInbound, sessions, connOf, contended,
                     closed, inbound, appVars, events, heard>>
  BY DEF HandOver
<1>2. CASE EndSession(s)
  BY <1>1, <1>2, CarrierTypes, EndInv
<1>3. CASE carrier' = [carrier EXCEPT ![s] = r] /\ UNCHANGED <<byAddr, bySession>>
  <2>1. now \in 0 .. MaxConns /\ At("up") \in CarrierStates /\ At("up").at = "up"
    BY SessionFacts, AtFacts DEF IndInv, TypeOK, CarrierAt
  <2>2. /\ r \in CarrierStates
        /\ r.at = "emit" => /\ r.s = now /\ r.s # 0 /\ r.ev # "none"
                            /\ r.then \in {"up", "gone"}
                            /\ r.ev = "disconnected" => r.then = "gone"
    <3>1. CASE now = 0
      BY <2>1, <3>1
    <3>2. CASE now # 0
      BY <2>1, <3>2 DEF CarrierStates, CarrierAt, AppEvents
    <3> QED BY <3>1, <3>2
  <2> HIDE DEF r
  <2> QED BY <1>1, <1>3, <2>2, CarrierTypes, OnwardInv DEF registryVars, appVars
<1> QED BY <1>2, <1>3 DEF HandOver

\* event_tx.send keeps the capacity.
LEMMA SendFacts ==
    ASSUME IndInv, NEW s \in Sessions, NEW ev \in AppEvents, Send(s, ev)
    PROVE  /\ events' \in 0 .. EventCapacity
           /\ heard' \in [Sessions -> SUBSET AppEvents]
           /\ \A t \in Sessions : heard[t] \subseteq heard'[t]
           /\ \A t \in Sessions \ {s} : heard'[t] = heard[t]
           /\ heard'[s] \subseteq heard[s] \cup {ev}
           /\ ~open => heard' = heard
           /\ open => ev \in heard'[s]
<1>1. events \in 0 .. EventCapacity /\ EventCapacity \in Nat
  BY CarrierTypes, ConstantFacts
<1>2. events' \in 0 .. EventCapacity
  BY <1>1 DEF Send
<1>3. CASE open
  BY <1>2, <1>3, CarrierTypes DEF Send
<1>4. CASE ~open
  BY <1>2, <1>4, CarrierTypes DEF Send
<1> QED BY <1>3, <1>4

LEMMA TaskSendInv ==
    ASSUME IndInv, NEW s \in 1 .. sessions, TaskSend(s) PROVE IndInv'
<1> DEFINE x == carrier[s].s
           ev == carrier[s].ev
           where == IF ~open /\ ev = "received" THEN "gone" ELSE carrier[s].then
<1>1. /\ carrier[s].at = "emit" /\ Send(x, ev)
      /\ carrier' = [carrier EXCEPT ![s] = At(where)]
      /\ UNCHANGED <<peerVars, listenerEvents, bridge, registryVars, closed, inbound, appVars>>
  BY DEF TaskSend
<1>2. UNCHANGED <<peerInbound, byAddr, bySession, sessions, connOf, contended, open, sends,
                  outbound>>
  BY <1>1 DEF registryVars, appVars
<1>3. /\ x \in 1 .. sessions /\ ev # "none" /\ carrier[s].then \in {"up", "gone"}
      /\ ev = "disconnected" => carrier[s].then = "gone"
      /\ x = s \/ x \in contended
  BY <1>1 DEF IndInv, EmitInv
<1>4. s \in Sessions /\ x \in Sessions /\ carrier[s] \in CarrierStates
  BY <1>3, SessionFacts DEF IndInv, TypeOK
<1>5. ev \in AppEvents
  BY <1>3, <1>4 DEF CarrierStates
<1>6. /\ events' \in 0 .. EventCapacity
      /\ heard' \in [Sessions -> SUBSET AppEvents]
      /\ \A t \in Sessions : heard[t] \subseteq heard'[t]
      /\ \A t \in Sessions \ {x} : heard'[t] = heard[t]
      /\ heard'[x] \subseteq heard[x] \cup {ev}
      /\ ~open => heard' = heard
  BY <1>1, <1>4, <1>5, SendFacts
<1>7. where \in {"up", "gone"} /\ (ev = "disconnected" => where = "gone")
  BY <1>3
<1>8. At(where) \in CarrierStates /\ At(where).at = where
  BY <1>7, AtFacts DEF CarrierAt
<1>9. bridge.op \in Spawning /\ bridge.s = s => ev = "disconnected"
  BY <1>1 DEF IndInv, BridgeInv
<1> HIDE DEF x, ev, where
<1>10. /\ TypeOK' /\ ConnInv' /\ QueueInv' /\ SessionInv' /\ BridgeInv' /\ RegistryInv'
       /\ EmitInv' /\ OwnPlaintexts'
  BY <1>1, <1>2, <1>6, <1>7, <1>8, <1>9, CarrierTypes, CarrierStepInv
<1>11. HeardInv'
  <2>1. HeardInv
    BY DEF IndInv
  <2>2. ASSUME NEW t \in 1 .. sessions
        PROVE  \/ bridge.op \in Spawning /\ bridge.s = t
               \/ "ready" \in heard'[t] \/ ~open
    BY <1>6, <2>1, SessionFacts DEF HeardInv
  <2>3. ASSUME NEW t \in Sessions \ contended, heard'[t] \cap {"received", "sent"} # {}
        PROVE  "ready" \in heard'[t]
    <3>1. CASE heard[t] \cap {"received", "sent"} # {}
      BY <1>6, <2>1, <3>1 DEF HeardInv, ReadyFirst
    <3>2. CASE heard[t] \cap {"received", "sent"} = {}
      <4>1. t = x /\ open /\ ev \in {"received", "sent"}
        BY <1>4, <1>6, <2>3, <3>2
      <4>2. t = s
        BY <1>3, <4>1
      <4> QED BY <1>9, <2>2, <4>1, <4>2
    <3> QED BY <3>1, <3>2
  <2> QED BY <1>1, <1>2, <2>2, <2>3 DEF HeardInv, ReadyFirst
<1> QED BY <1>10, <1>11 DEF IndInv

-----------------------------------------------------------------------------
(* The bridge.                                                             *)

\* A connection without a session leaves room for one: there are no more
\* sessions than connections because no two are of the same connection.
LEMMA RoomForSession ==
    ASSUME IndInv, NEW c \in 1 .. conns, ~HasSession(c)
    PROVE  sessions < conns
<1> SUFFICES ASSUME ~(sessions < conns) PROVE FALSE
  OBVIOUS
<1> DEFINE S == 1 .. sessions + 1
           T == 1 .. conns
           f == [x \in S |-> IF x <= sessions THEN connOf[x] ELSE c]
<1>1. conns \in Nat /\ sessions = conns
  BY CountFacts DEF IndInv
<1>2. ASSUME NEW x \in S PROVE x \in 1 .. sessions \/ (x = sessions + 1 /\ ~(x <= sessions))
  BY <1>1
<1>3. f \in [S -> T]
  BY <1>2, SessionFacts
<1>4. /\ IsFiniteSet(S) /\ IsFiniteSet(T)
      /\ Cardinality(S) = sessions + 1 /\ Cardinality(T) = conns
  BY <1>1, FS_Interval
<1>5. Cardinality(T) < Cardinality(S)
  BY <1>1, <1>4
<1> HIDE DEF f
<1>6. \E x, y \in S : x # y /\ f[x] = f[y]
  BY <1>3, <1>4, <1>5, FS_PigeonHole
<1>7. PICK x \in S, y \in S : x # y /\ f[x] = f[y]
  BY <1>6
<1>8. ASSUME NEW z \in 1 .. sessions PROVE f[z] = connOf[z] /\ connOf[z] # c /\ z # sessions + 1
  BY <1>1, <1>2 DEF f, HasSession
<1>9. f[sessions + 1] = c
  BY <1>1 DEF f
<1>10. ASSUME NEW y1 \in 1 .. sessions, NEW z1 \in 1 .. sessions, connOf[y1] = connOf[z1]
       PROVE  y1 = z1
  BY <1>10 DEF IndInv, SessionInv
<1> QED BY <1>2, <1>7, <1>8, <1>9, <1>10

\* The queue without its head.
LEMMA TakeFacts ==
    ASSUME IndInv, listenerEvents # << >>, listenerEvents' = Tail(listenerEvents)
    PROVE  /\ Head(listenerEvents) = Ev(1) /\ Ev(1) \in ListenerEvents
           /\ 1 \in 1 .. Len(listenerEvents)
           /\ Len(listenerEvents) \in Nat \ {0}
           /\ Len(listenerEvents') = Len(listenerEvents) - 1
           /\ listenerEvents' \in Seq(ListenerEvents)
           /\ Len(listenerEvents') <= ListenerCapacity
           /\ \A i \in 1 .. Len(listenerEvents') :
                 /\ listenerEvents'[i] = listenerEvents[i + 1]
                 /\ i + 1 \in 1 .. Len(listenerEvents) /\ i + 1 # 1 /\ 1 < i + 1
<1>1. listenerEvents \in Seq(ListenerEvents) /\ Len(listenerEvents) <= ListenerCapacity
      /\ ListenerCapacity \in Nat
  BY ConstantFacts DEF IndInv, TypeOK
<1>2. /\ Len(listenerEvents) \in Nat \ {0} /\ Head(listenerEvents) = listenerEvents[1]
      /\ Head(listenerEvents) \in ListenerEvents
      /\ listenerEvents' \in Seq(ListenerEvents)
      /\ Len(listenerEvents') = Len(listenerEvents) - 1
      /\ \A i \in 1 .. Len(listenerEvents') : listenerEvents'[i] = listenerEvents[i + 1]
  BY <1>1, HeadTailProperties, EmptySeq, LenProperties
<1> QED BY <1>1, <1>2 DEF Ev

\* The bridge takes the head; the session it starts when that is Established.
LEMMA TakeQueueInv ==
    ASSUME IndInv, listenerEvents # << >>, listenerEvents' = Tail(listenerEvents),
           UNCHANGED <<conns, addr, table, task>>,
           \/ Ev(1).kind # "established" /\ UNCHANGED <<sessions, connOf>>
           \/ /\ Ev(1).kind = "established" /\ sessions' = sessions + 1
              /\ connOf' = [connOf EXCEPT ![sessions + 1] = Ev(1).conn]
              /\ sessions + 1 \in Sessions
    PROVE  ConnInv' /\ QueueInv'
<1>1. QueueInv /\ TypeOK
  BY DEF IndInv
<1>2. /\ 1 \in 1 .. Len(listenerEvents)
      /\ Len(listenerEvents) \in Nat \ {0}
      /\ Len(listenerEvents') = Len(listenerEvents) - 1
      /\ \A i \in 1 .. Len(listenerEvents') :
            /\ listenerEvents'[i] = listenerEvents[i + 1]
            /\ i + 1 \in 1 .. Len(listenerEvents) /\ i + 1 # 1 /\ 1 < i + 1
  BY TakeFacts
<1>3. PICK n : n = Len(listenerEvents')
  OBVIOUS
<1>4. n \in Nat /\ Len(listenerEvents) = n + 1
  BY <1>2, <1>3
<1>5. ConnInv'
  BY DEF IndInv, ConnInv
<1>6. ASSUME NEW d
      PROVE  (\E t \in 1 .. sessions' : connOf'[t] = d) <=>
                 HasSession(d) \/ (Ev(1).kind = "established" /\ Ev(1).conn = d)
  <2>1. CASE Ev(1).kind # "established" /\ UNCHANGED <<sessions, connOf>>
    BY <2>1 DEF HasSession
  <2>2. CASE /\ Ev(1).kind = "established" /\ sessions' = sessions + 1
             /\ connOf' = [connOf EXCEPT ![sessions + 1] = Ev(1).conn]
             /\ sessions + 1 \in Sessions
    <3>1. 1 .. sessions + 1 = 1 .. sessions \cup {sessions + 1} /\ sessions + 1 \notin 1 .. sessions
          /\ 1 .. sessions \subseteq Sessions
      BY <1>1, CountFacts
    <3>2. connOf'[sessions + 1] = Ev(1).conn /\ \A t \in 1 .. sessions : connOf'[t] = connOf[t]
      BY <1>1, <2>2, <3>1 DEF TypeOK
    <3> QED BY <2>2, <3>1, <3>2 DEF HasSession
  <2> QED BY <2>1, <2>2
<1>7. ASSUME NEW i \in 1 .. n
      PROVE  Ev(i)' = Ev(i + 1) /\ i + 1 \in 1 .. Len(listenerEvents) /\ i + 1 # 1 /\ 1 < i + 1
             /\ i \in Nat
  BY <1>2, <1>3, <1>4 DEF Ev
<1>8. ASSUME NEW i \in 1 .. n
      PROVE  /\ Ev(i + 1).conn \in 1 .. conns /\ Ev(i + 1).addr = addr[Ev(i + 1).conn]
             /\ task[Ev(i + 1).conn] \notin {"accepting", "announcing"}
             /\ Ev(i + 1).kind = "established" =>
                    /\ ~HasSession(Ev(i + 1).conn)
                    /\ ~(Ev(1).kind = "established" /\ Ev(1).conn = Ev(i + 1).conn)
             /\ Ev(i + 1).kind = "data" =>
                    \/ HasSession(Ev(i + 1).conn)
                    \/ Ev(1).kind = "established" /\ Ev(1).conn = Ev(i + 1).conn
                    \/ \E j \in 1 .. i - 1 : Ev(j + 1).kind = "established"
                                             /\ Ev(j + 1).conn = Ev(i + 1).conn
  <2>1. /\ Ev(i + 1).conn \in 1 .. conns /\ Ev(i + 1).addr = addr[Ev(i + 1).conn]
        /\ task[Ev(i + 1).conn] \notin {"accepting", "announcing"}
        /\ Ev(i + 1).kind = "established" => ~HasSession(Ev(i + 1).conn)
        /\ Ev(i + 1).kind = "data" =>
              \/ HasSession(Ev(i + 1).conn)
              \/ \E j \in 1 .. (i + 1) - 1 : Ev(j).kind = "established" /\ Ev(j).conn = Ev(i + 1).conn
    BY <1>1, <1>7 DEF QueueInv
  <2>2. Ev(i + 1).kind = "established" => ~(Ev(1).kind = "established" /\ Ev(1).conn = Ev(i + 1).conn)
    BY <1>1, <1>2, <1>7 DEF QueueInv
  <2>3. ASSUME NEW j \in 1 .. (i + 1) - 1
        PROVE  j = 1 \/ (j - 1 \in 1 .. i - 1 /\ (j - 1) + 1 = j)
    BY <1>4
  <2>4. ASSUME Ev(i + 1).kind = "data", ~HasSession(Ev(i + 1).conn)
        PROVE  \/ Ev(1).kind = "established" /\ Ev(1).conn = Ev(i + 1).conn
               \/ \E j \in 1 .. i - 1 : Ev(j + 1).kind = "established"
                                        /\ Ev(j + 1).conn = Ev(i + 1).conn
    <3>1. PICK j \in 1 .. (i + 1) - 1 : Ev(j).kind = "established" /\ Ev(j).conn = Ev(i + 1).conn
      BY <2>1, <2>4
    <3>2. CASE j = 1
      BY <3>1, <3>2
    <3>3. CASE j - 1 \in 1 .. i - 1 /\ (j - 1) + 1 = j
      BY <3>1, <3>3
    <3> QED BY <2>3, <3>2, <3>3
  <2> QED BY <2>1, <2>2, <2>4
<1>9. ASSUME NEW i \in 1 .. n, NEW j \in 1 .. n
      PROVE  /\ i # j /\ Ev(i + 1).kind = "established" /\ Ev(j + 1).kind = "established"
                   => Ev(i + 1).conn # Ev(j + 1).conn
             /\ i < j /\ Ev(i + 1).addr = Ev(j + 1).addr /\ Ev(i + 1).kind # "disconnected"
                      /\ Ev(j + 1).kind # "disconnected" => Ev(i + 1).conn <= Ev(j + 1).conn
  <2>1. i # j => i + 1 # j + 1
    BY <1>4
  <2>2. i < j => i + 1 < j + 1
    BY <1>4
  <2> QED BY <1>1, <1>7, <2>1, <2>2 DEF QueueInv
<1>10. ASSUME NEW c \in 1 .. conns, task[c] \in {"open", "reading"}
       PROVE  \/ HasSession(c) \/ (Ev(1).kind = "established" /\ Ev(1).conn = c)
              \/ \E i \in 1 .. n : Ev(i + 1).kind = "established" /\ Ev(i + 1).conn = c
  <2>1. ASSUME NEW i \in 1 .. n + 1 PROVE i = 1 \/ (i - 1 \in 1 .. n /\ (i - 1) + 1 = i)
    BY <1>4
  <2>2. CASE HasSession(c)
    BY <2>2
  <2>3. CASE \E i \in 1 .. n + 1 : Ev(i).kind = "established" /\ Ev(i).conn = c
    <3>1. PICK i \in 1 .. n + 1 : Ev(i).kind = "established" /\ Ev(i).conn = c
      BY <2>3
    <3> QED BY <2>1, <3>1
  <2> QED BY <1>1, <1>4, <1>10, <2>2, <2>3 DEF QueueInv
<1>11. QueueInv'
  <2>1. \A i \in 1 .. Len(listenerEvents') :
          /\ Ev(i)'.conn \in 1 .. conns' /\ Ev(i)'.addr = addr'[Ev(i)'.conn]
          /\ task'[Ev(i)'.conn] \notin {"accepting", "announcing"}
          /\ Ev(i)'.kind = "established" => ~(\E t \in 1 .. sessions' : connOf'[t] = Ev(i)'.conn)
          /\ Ev(i)'.kind = "data" =>
                \/ \E t \in 1 .. sessions' : connOf'[t] = Ev(i)'.conn
                \/ \E j \in 1 .. i - 1 : Ev(j)'.kind = "established" /\ Ev(j)'.conn = Ev(i)'.conn
    <3> SUFFICES ASSUME NEW i \in 1 .. n
                 PROVE  /\ Ev(i + 1).conn \in 1 .. conns' /\ Ev(i + 1).addr = addr'[Ev(i + 1).conn]
                        /\ task'[Ev(i + 1).conn] \notin {"accepting", "announcing"}
                        /\ Ev(i + 1).kind = "established" =>
                               ~(\E t \in 1 .. sessions' : connOf'[t] = Ev(i + 1).conn)
                        /\ Ev(i + 1).kind = "data" =>
                               \/ \E t \in 1 .. sessions' : connOf'[t] = Ev(i + 1).conn
                               \/ \E j \in 1 .. i - 1 : Ev(j)'.kind = "established"
                                                        /\ Ev(j)'.conn = Ev(i + 1).conn
      BY <1>3, <1>7
    <3>1. \A j \in 1 .. i - 1 : Ev(j)' = Ev(j + 1)
      <4>1. 1 .. i - 1 \subseteq 1 .. n
        BY <1>4
      <4> QED BY <1>7, <4>1
    <3>2. (\E t \in 1 .. sessions' : connOf'[t] = Ev(i + 1).conn) <=>
             HasSession(Ev(i + 1).conn) \/ (Ev(1).kind = "established" /\ Ev(1).conn = Ev(i + 1).conn)
      BY <1>6
    <3>3. conns' = conns /\ addr' = addr /\ task' = task
      OBVIOUS
    <3>4. Ev(i + 1).kind = "data" =>
             \/ \E t \in 1 .. sessions' : connOf'[t] = Ev(i + 1).conn
             \/ \E j \in 1 .. i - 1 : Ev(j)'.kind = "established" /\ Ev(j)'.conn = Ev(i + 1).conn
      BY <1>8, <3>1, <3>2
    <3>5. Ev(i + 1).kind = "established" =>
             ~(\E t \in 1 .. sessions' : connOf'[t] = Ev(i + 1).conn)
      BY <1>8, <3>2
    <3> QED BY <1>8, <3>3, <3>4, <3>5
  <2>2. \A i, j \in 1 .. Len(listenerEvents') :
          /\ i # j /\ Ev(i)'.kind = "established" /\ Ev(j)'.kind = "established"
                => Ev(i)'.conn # Ev(j)'.conn
          /\ i < j /\ Ev(i)'.addr = Ev(j)'.addr /\ Ev(i)'.kind # "disconnected"
                   /\ Ev(j)'.kind # "disconnected" => Ev(i)'.conn <= Ev(j)'.conn
    BY <1>3, <1>7, <1>9
  <2>3. \A c \in 1 .. conns' : task'[c] \in {"open", "reading"} =>
          \/ \E t \in 1 .. sessions' : connOf'[t] = c
          \/ \E i \in 1 .. Len(listenerEvents') : Ev(i)'.kind = "established" /\ Ev(i)'.conn = c
    <3> SUFFICES ASSUME NEW c \in 1 .. conns, task[c] \in {"open", "reading"}
                 PROVE  \/ \E t \in 1 .. sessions' : connOf'[t] = c
                        \/ \E i \in 1 .. n : Ev(i)'.kind = "established" /\ Ev(i)'.conn = c
      BY <1>3
    <3>1. \/ HasSession(c) \/ (Ev(1).kind = "established" /\ Ev(1).conn = c)
          \/ \E i \in 1 .. n : Ev(i + 1).kind = "established" /\ Ev(i + 1).conn = c
      BY <1>10
    <3>2. (\E t \in 1 .. sessions' : connOf'[t] = c) <=>
             HasSession(c) \/ (Ev(1).kind = "established" /\ Ev(1).conn = c)
      BY <1>6
    <3> QED BY <1>7, <3>1, <3>2
  <2> QED BY <2>1, <2>2, <2>3 DEF QueueInv, HasSession
<1> QED BY <1>5, <1>11

LEMMA EstablishedInv ==
    ASSUME IndInv, BridgeTake, Ev(1).kind = "established", OnEstablished(Head(listenerEvents))
    PROVE  IndInv'
<1> DEFINE e == Ev(1)
<1>0. PICK s : s = sessions + 1
  OBVIOUS
<1>1. /\ bridge.op = "idle" /\ listenerEvents # << >> /\ listenerEvents' = Tail(listenerEvents)
      /\ UNCHANGED <<peerVars, closed, inbound, appVars, events, heard>>
  BY DEF BridgeTake
<1>2. UNCHANGED <<conns, addr, table, task, data, closed, inbound, open, sends, outbound, events,
                  heard>>
  BY <1>1 DEF peerVars, appVars
<1>3. /\ Head(listenerEvents) = e /\ e \in ListenerEvents /\ 1 \in 1 .. Len(listenerEvents)
      /\ listenerEvents' \in Seq(ListenerEvents)
      /\ Len(listenerEvents') <= ListenerCapacity
      /\ \A i \in 1 .. Len(listenerEvents') :
            /\ listenerEvents'[i] = listenerEvents[i + 1]
            /\ i + 1 \in 1 .. Len(listenerEvents) /\ 1 < i + 1
  BY <1>1, TakeFacts
<1> HIDE DEF e
<1>4. /\ sessions' = s
      /\ connOf' = [connOf EXCEPT ![s] = e.conn]
      /\ carrier' = [carrier EXCEPT ![s] = At("connecting")]
      /\ peerInbound' = [peerInbound EXCEPT ![e.addr] = s]
      /\ contended' = IF Leftovers(e.addr) = {} THEN contended
                      ELSE contended \cup Leftovers(e.addr) \cup {s}
      /\ bridge' = [op |-> "spawned", s |-> s, from |-> 0]
      /\ UNCHANGED <<byAddr, bySession>>
  BY <1>0, <1>3 DEF OnEstablished
<1>5. /\ e.conn \in 1 .. conns /\ e.addr = addr[e.conn] /\ ~HasSession(e.conn)
      /\ task[e.conn] \notin {"accepting", "announcing"} /\ e.addr \in Addrs
  BY <1>3 DEF IndInv, QueueInv, ListenerEvents, e
<1>6. /\ sessions \in Nat /\ conns \in Nat /\ sessions < conns /\ conns <= MaxConns
      /\ MaxConns \in Nat /\ 1 .. sessions \subseteq Sessions /\ 1 .. conns \subseteq Conns
  BY <1>5, RoomForSession, CountFacts, ConstantFacts DEF IndInv
<1>7. /\ s \in Sessions /\ s \in 0 .. MaxConns /\ s <= conns /\ s # 0 /\ s \in Nat
      /\ 1 .. s = 1 .. sessions \cup {s} /\ s \in 1 .. s /\ e.conn \in 0 .. MaxConns /\ 0 \in 0 .. MaxConns
      /\ \A t \in 1 .. sessions : t < s /\ t # s /\ ~(s < t)
      /\ \A t \in Sessions : t > s => t > sessions /\ t # s
      /\ s > sessions
  BY <1>0, <1>5, <1>6 DEF Sessions
<1>8. TypeOK
  BY DEF IndInv
<1>9. /\ connOf'[s] = e.conn /\ \A t \in Sessions \ {s} : connOf'[t] = connOf[t]
      /\ carrier'[s] = At("connecting") /\ \A t \in Sessions \ {s} : carrier'[t] = carrier[t]
      /\ peerInbound'[e.addr] = s
      /\ \A a \in Addrs \ {e.addr} : peerInbound'[a] = peerInbound[a]
  BY <1>4, <1>5, <1>7, <1>8 DEF TypeOK
<1>10. ASSUME NEW t \in 1 .. sessions
       PROVE  /\ t \in Sessions /\ t # s /\ connOf'[t] = connOf[t] /\ carrier'[t] = carrier[t]
              /\ AddrOf(t)' = AddrOf(t) /\ connOf[t] \in 1 .. conns
              /\ AddrOf(t) = addr[connOf[t]] /\ connOf[t] # e.conn
  BY <1>2, <1>5, <1>6, <1>7, <1>9, SessionFacts DEF AddrOf, HasSession
<1>11. addr'[connOf'[s]] = e.addr /\ AddrOf(s)' = e.addr
  BY <1>2, <1>5, <1>9 DEF AddrOf
<1>12. At("connecting") \in CarrierStates /\ At("connecting").at = "connecting"
  BY AtFacts DEF CarrierAt
<1>13. Leftovers(e.addr) \subseteq 1 .. sessions
       /\ contended \subseteq contended' /\ contended' \subseteq Sessions
  BY <1>4, <1>6, <1>7, <1>8 DEF Leftovers, TypeOK
<1>14. TypeOK'
  <2>1. connOf' \in [Sessions -> 0 .. MaxConns] /\ carrier' \in [Sessions -> CarrierStates]
        /\ peerInbound' \in [Addrs -> 0 .. MaxConns]
    BY <1>4, <1>7, <1>8, <1>12 DEF TypeOK
  <2>2. bridge' \in BridgeStates
    BY <1>4, <1>7 DEF BridgeStates, BridgeOps
  <2>3. sessions' \in 0 .. MaxConns /\ sessions' <= conns'
    BY <1>2, <1>4, <1>7
  <2> QED BY <1>2, <1>3, <1>4, <1>8, <1>13, <2>1, <2>2, <2>3 DEF TypeOK
<1>15. ConnInv' /\ QueueInv'
  BY <1>0, <1>1, <1>2, <1>4, <1>7, TakeQueueInv DEF e
<1>16. SessionInv'
  <2>1. SessionInv
    BY DEF IndInv
  <2>2. \A t \in 1 .. s : connOf'[t] \in 1 .. conns
                          /\ task[connOf'[t]] \notin {"accepting", "announcing"}
    BY <1>5, <1>7, <1>9, <1>10, <2>1 DEF SessionInv
  <2>3. \A t, u \in 1 .. s : connOf'[t] = connOf'[u] => t = u
    BY <1>7, <1>9, <1>10, <2>1 DEF SessionInv
  <2>4. \A t \in Sessions : t > s => inbound[t] = << >> /\ carrier'[t].at = "none" /\ connOf'[t] = 0
    BY <1>7, <1>9, <2>1 DEF SessionInv
  <2>5. ASSUME NEW t \in 1 .. sessions, AddrOf(t) = e.addr PROVE connOf[t] <= e.conn
    BY <1>3, <2>1, <2>5 DEF SessionInv, e
  <2>6. ASSUME NEW t \in 1 .. s, NEW i \in 1 .. Len(listenerEvents'),
               Ev(i)'.addr = AddrOf(t)', Ev(i)'.kind # "disconnected"
        PROVE  connOf'[t] <= Ev(i)'.conn
    <3>1. Ev(i)' = Ev(i + 1) /\ i + 1 \in 1 .. Len(listenerEvents) /\ 1 < i + 1
      BY <1>3 DEF Ev
    <3>2. CASE t \in 1 .. sessions
      BY <1>10, <2>1, <2>6, <3>1, <3>2 DEF SessionInv
    <3>3. CASE t = s
      <4>1. Ev(i + 1).addr = Ev(1).addr /\ Ev(i + 1).kind # "disconnected"
        BY <1>11, <2>6, <3>1, <3>3 DEF e
      <4>2. Ev(1).conn <= Ev(i + 1).conn
        BY <1>3, <3>1, <4>1 DEF IndInv, QueueInv
      <4> QED BY <1>9, <3>1, <3>3, <4>2 DEF e
    <3> QED BY <1>7, <3>2, <3>3
  <2>7. ASSUME NEW a \in Addrs, peerInbound'[a] # 0
        PROVE  /\ peerInbound'[a] \in 1 .. s /\ AddrOf(peerInbound[a])' = a
               /\ \A t \in 1 .. s : AddrOf(t)' = a => connOf'[t] <= connOf'[peerInbound'[a]]
    <3>1. CASE a = e.addr
      <4>1. peerInbound'[a] = s /\ AddrOf(s)' = a /\ connOf'[s] = e.conn /\ e.conn \in Nat
        BY <1>5, <1>6, <1>9, <1>11, <3>1
      <4>2. AddrOf(peerInbound[a])' = a
        BY <4>1 DEF AddrOf
      <4>3. ASSUME NEW t \in 1 .. s, AddrOf(t)' = a PROVE connOf'[t] <= e.conn
        <5>1. CASE t = s
          BY <4>1, <5>1
        <5>2. CASE t \in 1 .. sessions
          BY <1>10, <2>5, <3>1, <4>3, <5>2
        <5> QED BY <1>7, <5>1, <5>2
      <4> QED BY <1>7, <4>1, <4>2, <4>3
    <3>2. CASE a # e.addr
      <4>0. PICK q : q = peerInbound[a]
        OBVIOUS
      <4>1. /\ peerInbound'[a] = q /\ q \in 1 .. sessions
            /\ AddrOf(q) = a
            /\ \A t \in 1 .. sessions : AddrOf(t) = a => connOf[t] <= connOf[q]
        BY <1>9, <2>1, <2>7, <3>2, <4>0 DEF SessionInv
      <4>2. AddrOf(q)' = a /\ connOf'[q] = connOf[q]
        BY <1>10, <4>1
      <4>3. AddrOf(peerInbound[a])' = a
        BY <4>1, <4>2 DEF AddrOf
      <4>4. ASSUME NEW t \in 1 .. s, AddrOf(t)' = a PROVE connOf'[t] <= connOf[q]
        <5>1. t # s
          BY <1>11, <3>2, <4>4
        <5>2. t \in 1 .. sessions
          BY <1>7, <5>1
        <5> QED BY <1>10, <4>1, <4>4, <5>2
      <4> QED BY <1>7, <4>1, <4>2, <4>3, <4>4
    <3> QED BY <3>1, <3>2
  <2>8. sessions' = s /\ inbound' = inbound /\ conns' = conns /\ task' = task
    BY <1>2, <1>4
  <2> QED BY <2>2, <2>3, <2>4, <2>6, <2>7, <2>8 DEF SessionInv
<1>17. BridgeInv'
  <2>1. bridge'.op = "spawned" /\ bridge'.s = s
    BY <1>4
  <2>2. inbound[s] = << >>
    BY <1>7 DEF IndInv, SessionInv
  <2> QED BY <1>2, <1>4, <1>7, <1>9, <1>12, <2>1, <2>2 DEF BridgeInv, Spawning
<1>18. RegistryInv'
  <2>1. ASSUME NEW a \in Addrs, byAddr[a] # 0
        PROVE  byAddr[a] \in 1 .. sessions /\ AddrOf(byAddr[a]) = a /\ bySession[byAddr[a]] = a
    BY <1>1, <2>1 DEF IndInv, RegistryInv, RegistryForward
  <2>2. ASSUME NEW a \in Addrs, byAddr'[a] # 0
        PROVE  /\ byAddr'[a] \in 1 .. s /\ AddrOf(byAddr[a])' = a /\ bySession'[byAddr'[a]] = a
    <3>1. byAddr'[a] = byAddr[a] /\ bySession' = bySession
      BY <1>4
    <3>2. connOf'[byAddr[a]] = connOf[byAddr[a]]
      BY <1>10, <2>1, <2>2, <3>1
    <3> QED BY <1>2, <1>4, <1>7, <2>1, <2>2, <3>1, <3>2 DEF AddrOf
  <2> QED BY <1>4, <2>2 DEF RegistryInv, RegistryForward
<1>19. EmitInv'
  <2>1. EmitInv
    BY DEF IndInv
  <2>2. ASSUME NEW t \in 1 .. s, NEW u \in 1 .. s, t < u, AddrOf(t)' = AddrOf(u)'
        PROVE  /\ carrier'[t].at # "gone" => t \in contended' /\ u \in contended'
               /\ byAddr[AddrOf(t)'] = t => t \in contended'
    <3>1. t \in 1 .. sessions
      BY <1>7, <2>2
    <3>2. CASE u \in 1 .. sessions
      BY <1>10, <1>13, <2>1, <2>2, <3>1, <3>2 DEF EmitInv
    <3>3. CASE u = s
      <4>1. AddrOf(t)' = AddrOf(t) /\ AddrOf(t) = e.addr /\ carrier'[t] = carrier[t]
        BY <1>10, <1>11, <2>2, <3>1, <3>3
      <4>2. carrier[t].at # "gone" \/ byAddr[e.addr] = t => t \in Leftovers(e.addr)
        BY <3>1, <4>1 DEF Leftovers
      <4>3. t \in Leftovers(e.addr) => t \in contended' /\ s \in contended'
        BY <1>4
      <4> QED BY <3>3, <4>1, <4>2, <4>3
    <3> QED BY <1>7, <3>2, <3>3
  <2>3. ASSUME NEW t \in 1 .. s, carrier'[t].at = "emit"
        PROVE  /\ carrier'[t].s \in 1 .. s /\ carrier'[t].ev # "none"
               /\ carrier'[t].then \in {"up", "gone"}
               /\ carrier'[t].ev = "disconnected" => carrier'[t].then = "gone"
               /\ carrier'[t].s = t \/ carrier'[t].s \in contended'
    <3>1. t \in 1 .. sessions /\ carrier'[t] = carrier[t]
      BY <1>7, <1>9, <1>10, <1>12, <2>3
    <3> QED BY <1>7, <1>13, <2>1, <2>3, <3>1 DEF EmitInv
  <2>4. sessions' = s /\ byAddr' = byAddr
    BY <1>4
  <2> QED BY <2>2, <2>3, <2>4 DEF EmitInv
<1>20. HeardInv'
  <2>1. bridge'.op \in Spawning /\ bridge'.s = s /\ bridge.op \notin Spawning
    BY <1>1, <1>4 DEF Spawning
  <2>2. ASSUME NEW t \in 1 .. sessions PROVE "ready" \in heard[t] \/ ~open
    BY <2>1 DEF IndInv, HeardInv
  <2>3. ReadyFirst'
    BY <1>2, <1>13 DEF IndInv, HeardInv, ReadyFirst
  <2> QED BY <1>2, <1>4, <1>7, <2>1, <2>2, <2>3 DEF HeardInv
<1>21. OwnPlaintexts'
  <2>1. bridge'.op # "data"
    BY <1>4
  <2>2. inbound[s] = << >> /\ Len(<< >>) = 0
    BY <1>7, EmptySeq DEF IndInv, SessionInv
  <2>3. ASSUME NEW t \in Sessions, NEW i \in 1 .. Len(inbound[t]) PROVE inbound[t][i] = connOf'[t]
    <3>1. t # s
      BY <2>2
    <3> QED BY <1>9, <3>1 DEF IndInv, OwnPlaintexts
  <2> QED BY <1>2, <2>1, <2>3 DEF OwnPlaintexts
<1> QED BY <1>14, <1>15, <1>16, <1>17, <1>18, <1>19, <1>20, <1>21 DEF IndInv

\* Steps of the bridge that start no session and touch no carrier; the queue
\* keeps its tail at least, and a forwarding entry stays or goes.
LEMMA RouteInv ==
    ASSUME IndInv, TypeOK', ConnInv', QueueInv',
           UNCHANGED <<conns, addr, table, task, sessions, connOf, contended, carrier, inbound>>,
           \/ listenerEvents' = listenerEvents
           \/ listenerEvents # << >> /\ listenerEvents' = Tail(listenerEvents),
           \A a \in Addrs : peerInbound'[a] = peerInbound[a] \/ peerInbound'[a] = 0
    PROVE  SessionInv'
<1>1. ASSUME NEW i \in 1 .. Len(listenerEvents')
      PROVE  \E j \in 1 .. Len(listenerEvents) : Ev(i)' = Ev(j)
  <2>1. CASE listenerEvents' = listenerEvents
    BY <2>1 DEF Ev
  <2>2. CASE listenerEvents # << >> /\ listenerEvents' = Tail(listenerEvents)
    BY <2>2, TakeFacts DEF Ev
  <2> QED BY SMTT(30), <2>1, <2>2
<1>2. SessionInv
  BY DEF IndInv
<1>3. ASSUME NEW a \in Addrs, peerInbound'[a] # 0
      PROVE  /\ peerInbound'[a] \in 1 .. sessions /\ AddrOf(peerInbound'[a]) = a
             /\ \A s \in 1 .. sessions : AddrOf(s) = a => connOf[s] <= connOf[peerInbound'[a]]
  BY <1>2, <1>3 DEF SessionInv
<1>4. ASSUME NEW s \in 1 .. sessions, NEW i \in 1 .. Len(listenerEvents'),
             Ev(i)'.addr = AddrOf(s), Ev(i)'.kind # "disconnected"
      PROVE  connOf[s] <= Ev(i)'.conn
  BY SMTT(30), <1>1, <1>2, <1>4 DEF SessionInv
<1> QED BY <1>2, <1>3, <1>4 DEF SessionInv, AddrOf

LEMMA DataInv ==
    ASSUME IndInv, BridgeTake, Ev(1).kind = "data", OnData(Head(listenerEvents))
    PROVE  IndInv'
<1> DEFINE e == Ev(1)
           s == peerInbound[e.addr]
<1>1. /\ bridge.op = "idle" /\ listenerEvents # << >> /\ listenerEvents' = Tail(listenerEvents)
      /\ UNCHANGED <<peerVars, closed, inbound, appVars, events, heard>>
  BY DEF BridgeTake
<1>2. /\ Head(listenerEvents) = e /\ e \in ListenerEvents /\ 1 \in 1 .. Len(listenerEvents)
      /\ listenerEvents' \in Seq(ListenerEvents)
      /\ Len(listenerEvents') <= ListenerCapacity
  BY <1>1, TakeFacts
<1>3. UNCHANGED <<conns, addr, table, task, data, closed, inbound, open, sends, outbound, events,
                  heard, registryVars, carrier>>
  BY <1>1, <1>2 DEF peerVars, appVars, OnData
<1>4. UNCHANGED <<peerInbound, byAddr, bySession, sessions, connOf, contended>>
  BY <1>3 DEF registryVars
<1>5. bridge' = IF s = 0 THEN Idle ELSE [op |-> "data", s |-> s, from |-> e.conn]
  BY <1>2 DEF OnData
<1>6. /\ e.conn \in 1 .. conns /\ e.addr = addr[e.conn] /\ e.addr \in Addrs
      /\ HasSession(e.conn) /\ e.kind = "data" /\ e.conn \in Conns
  <2>1. 1 .. 1 - 1 = {}
    OBVIOUS
  <2> QED BY <1>2, <2>1, CountFacts DEF IndInv, QueueInv, ListenerEvents
<1>7. s # 0 => s \in 1 .. sessions /\ connOf[s] = e.conn
  <2> SUFFICES ASSUME s # 0 PROVE s \in 1 .. sessions /\ connOf[s] = e.conn
    OBVIOUS
  <2>1. /\ s \in 1 .. sessions /\ AddrOf(s) = e.addr
        /\ \A t \in 1 .. sessions : AddrOf(t) = e.addr => connOf[t] <= connOf[s]
    BY <1>6 DEF IndInv, SessionInv
  <2>2. PICK t \in 1 .. sessions : connOf[t] = e.conn
    BY <1>6 DEF HasSession
  <2>3. AddrOf(t) = e.addr
    BY <1>6, <2>2 DEF AddrOf
  <2>4. connOf[s] <= e.conn
    BY <1>2, <1>6, <2>1 DEF IndInv, SessionInv
  <2>5. e.conn <= connOf[s]
    BY <2>1, <2>2, <2>3
  <2>6. connOf[s] \in Nat /\ e.conn \in Nat
    BY <1>6, <2>1, SessionFacts, CountFacts DEF IndInv
  <2> QED BY <2>1, <2>4, <2>5, <2>6
<1>8. s \in 0 .. MaxConns /\ e.conn \in 0 .. MaxConns /\ 0 \in 0 .. MaxConns
  BY <1>6, ConstantFacts DEF IndInv, TypeOK, Conns
<1>9. /\ bridge' \in BridgeStates
      /\ \/ bridge'.op = "idle"
         \/ bridge'.op = "data" /\ bridge'.s \in 1 .. sessions /\ bridge'.from = connOf[bridge'.s]
  BY <1>5, <1>7, <1>8 DEF Idle, BridgeStates, BridgeOps
<1> HIDE DEF e, s
<1>10. TypeOK'
  BY <1>2, <1>3, <1>4, <1>9 DEF IndInv, TypeOK
<1>11. ConnInv' /\ QueueInv'
  BY <1>1, <1>3, <1>4, <1>6, TakeQueueInv DEF e
<1>12. SessionInv'
  BY <1>1, <1>3, <1>4, <1>10, <1>11, RouteInv
<1>13. BridgeInv'
  BY <1>4, <1>9 DEF BridgeInv, Spawning
<1>14. RegistryInv'
  <2>1. \A a \in Addrs : byAddr[a] # 0 => bySession[byAddr[a]] = a
    BY <1>1 DEF IndInv, RegistryInv, RegistryForward
  <2> QED BY <1>3, <1>4, <2>1 DEF IndInv, RegistryInv, RegistryForward, AddrOf
<1>15. EmitInv'
  BY <1>3, <1>4 DEF IndInv, EmitInv, AddrOf
<1>16. HeardInv'
  BY <1>1, <1>3, <1>4 DEF IndInv, HeardInv, ReadyFirst, Spawning
<1>17. OwnPlaintexts'
  BY <1>3, <1>4, <1>9 DEF IndInv, OwnPlaintexts
<1> QED BY <1>10, <1>11, <1>12, <1>13, <1>14, <1>15, <1>16, <1>17 DEF IndInv

LEMMA DisconnectedInv ==
    ASSUME IndInv, BridgeTake, Ev(1).kind = "disconnected", OnDisconnected(Head(listenerEvents))
    PROVE  IndInv'
<1> DEFINE e == Ev(1)
           s == byAddr[e.addr]
<1>1. /\ bridge.op = "idle" /\ listenerEvents # << >> /\ listenerEvents' = Tail(listenerEvents)
      /\ UNCHANGED <<peerVars, closed, inbound, appVars, events, heard>>
  BY DEF BridgeTake
<1>2. /\ Head(listenerEvents) = e /\ e \in ListenerEvents /\ e.addr \in Addrs
      /\ listenerEvents' \in Seq(ListenerEvents)
      /\ Len(listenerEvents') <= ListenerCapacity
  BY <1>1, TakeFacts DEF ListenerEvents
<1>3. UNCHANGED <<conns, addr, table, task, data, closed, inbound, open, sends, outbound, events,
                  heard, carrier, sessions, connOf, contended>>
  BY <1>1, <1>2 DEF peerVars, appVars, OnDisconnected
<1>4. /\ peerInbound' = [peerInbound EXCEPT ![e.addr] = 0] /\ Remove(e.addr)
      /\ bridge' = IF s = 0 THEN Idle ELSE [op |-> "disconnected", s |-> s, from |-> 0]
  BY <1>2 DEF OnDisconnected
<1>5. /\ byAddr' \in [Addrs -> 0 .. MaxConns]
      /\ bySession' \in [Sessions -> Addrs \cup {0}]
      /\ \A b \in Addrs : byAddr'[b] # 0 => /\ byAddr'[b] = byAddr[b]
                                            /\ bySession'[byAddr[b]] = bySession[byAddr[b]]
  BY <1>2, <1>4, RemoveFacts
<1>6. s \in 0 .. MaxConns /\ (s # 0 => s \in 1 .. sessions) /\ 0 \in 0 .. MaxConns
  BY <1>2, ConstantFacts DEF IndInv, TypeOK, RegistryInv
<1>7. /\ bridge' \in BridgeStates
      /\ bridge'.op = "idle" \/ (bridge'.op = "disconnected" /\ bridge'.s \in 1 .. sessions)
  BY <1>4, <1>6 DEF Idle, BridgeStates, BridgeOps
<1>8. /\ peerInbound' \in [Addrs -> 0 .. MaxConns]
      /\ \A a \in Addrs : peerInbound'[a] = peerInbound[a] \/ peerInbound'[a] = 0
  BY <1>2, <1>4, <1>6 DEF IndInv, TypeOK
<1> HIDE DEF e, s
<1>9. TypeOK'
  BY <1>2, <1>3, <1>5, <1>7, <1>8 DEF IndInv, TypeOK
<1>10. ConnInv' /\ QueueInv'
  <2>1. e.kind # "established"
    BY DEF e
  <2> QED BY <1>1, <1>3, <2>1, TakeQueueInv DEF e
<1>11. SessionInv'
  BY <1>1, <1>3, <1>8, <1>9, <1>10, RouteInv
<1>12. BridgeInv'
  BY <1>3, <1>7 DEF BridgeInv, Spawning
<1>13. RegistryInv'
  <2>1. \A a \in Addrs : byAddr[a] # 0 => /\ bySession[byAddr[a]] = a
                                          /\ byAddr[a] \in 1 .. sessions /\ AddrOf(byAddr[a]) = a
    BY <1>1 DEF IndInv, RegistryInv, RegistryForward
  <2>2. \A a \in Addrs : byAddr'[a] # 0 => /\ bySession'[byAddr'[a]] = a
                                           /\ byAddr'[a] \in 1 .. sessions
                                           /\ AddrOf(byAddr'[a]) = a
    BY <1>5, <2>1
  <2> QED BY <1>3, <2>2 DEF RegistryInv, RegistryForward, AddrOf
<1>14. EmitInv'
  <2>1. ASSUME NEW t \in 1 .. sessions, byAddr'[AddrOf(t)] = t PROVE byAddr[AddrOf(t)] = t
    <3>1. t # 0 /\ AddrOf(t) \in Addrs
      BY SessionFacts, CountFacts DEF IndInv
    <3> QED BY <1>5, <2>1, <3>1
  <2> QED BY <1>3, <2>1 DEF IndInv, EmitInv, AddrOf
<1>15. HeardInv'
  BY <1>1, <1>3 DEF IndInv, HeardInv, ReadyFirst, Spawning
<1>16. OwnPlaintexts'
  BY <1>3, <1>7 DEF IndInv, OwnPlaintexts
<1> QED BY <1>9, <1>10, <1>11, <1>12, <1>13, <1>14, <1>15, <1>16 DEF IndInv

LEMMA BridgeTakeInv == ASSUME IndInv, BridgeTake PROVE IndInv'
<1>1. Head(listenerEvents) = Ev(1)
  BY TakeFacts DEF BridgeTake
<1>2. \/ Ev(1).kind = "established" /\ OnEstablished(Head(listenerEvents))
      \/ Ev(1).kind = "data" /\ OnData(Head(listenerEvents))
      \/ Ev(1).kind = "disconnected" /\ OnDisconnected(Head(listenerEvents))
  BY <1>1 DEF BridgeTake
<1> QED BY <1>2, EstablishedInv, DataInv, DisconnectedInv

LEMMA BridgeRegisterInv == ASSUME IndInv, BridgeRegister PROVE IndInv'
<1> DEFINE s == bridge.s
           a == AddrOf(s)
<1>1. /\ UNCHANGED <<peerVars, listenerEvents, peerInbound, sessions, connOf, contended,
                     carrierVars, appVars, events, heard>>
      /\ bridge.op \in {"spawned", "register"}
      /\ bridge.op = "spawned" => /\ byAddr' = [byAddr EXCEPT ![a] = s]
                                  /\ bridge' = [bridge EXCEPT !.op = "register"]
                                  /\ UNCHANGED bySession
      /\ bridge.op = "register" => /\ bySession' = [bySession EXCEPT ![s] = a]
                                   /\ bridge' = [bridge EXCEPT !.op = "ready"]
                                   /\ UNCHANGED byAddr
  BY DEF BridgeRegister
<1>2. UNCHANGED <<conns, addr, table, task, data, listenerEvents, peerInbound, sessions, connOf,
                  contended, carrier, closed, inbound, open, sends, outbound, events, heard>>
  BY <1>1 DEF peerVars, carrierVars, appVars
<1>3. /\ s \in 1 .. sessions /\ s = sessions /\ s \in Sessions /\ a \in Addrs /\ TypeOK
      /\ s \in 0 .. MaxConns /\ bridge \in BridgeStates
  <2>1. s \in 1 .. sessions /\ s = sessions
    BY <1>1 DEF IndInv, BridgeInv, Spawning
  <2> QED BY <2>1, SessionFacts DEF IndInv, TypeOK
<1>4. /\ bridge' \in BridgeStates /\ bridge'.s = s /\ bridge'.from = bridge.from
      /\ bridge.op = "spawned" => bridge'.op = "register"
      /\ bridge.op = "register" => bridge'.op = "ready"
  BY <1>1, <1>3 DEF BridgeStates, BridgeOps
<1>5. /\ byAddr' \in [Addrs -> 0 .. MaxConns] /\ bySession' \in [Sessions -> Addrs \cup {0}]
  BY ZenonT(60), <1>1, <1>3 DEF TypeOK
<1>6. TypeOK'
  BY <1>2, <1>3, <1>4, <1>5 DEF TypeOK
<1>7. ConnInv' /\ QueueInv' /\ SessionInv'
  BY <1>2 DEF IndInv, ConnInv, QueueInv, SessionInv, Ev, HasSession, AddrOf
<1>8. BridgeInv'
  BY <1>1, <1>2, <1>3, <1>4 DEF IndInv, BridgeInv, Spawning
<1>9. HeardInv'
  BY <1>1, <1>2, <1>4 DEF IndInv, HeardInv, ReadyFirst, Spawning
<1>10. OwnPlaintexts'
  BY <1>1, <1>2, <1>4 DEF IndInv, OwnPlaintexts
<1>11. ASSUME NEW b \in Addrs, byAddr'[b] # 0
       PROVE  /\ byAddr'[b] \in 1 .. sessions /\ AddrOf(byAddr'[b]) = b
              /\ \/ bySession'[byAddr'[b]] = b
                 \/ bridge'.op = "register" /\ bridge'.s = byAddr'[b]
  <2>1. byAddr[b] # 0 => /\ byAddr[b] \in 1 .. sessions /\ AddrOf(byAddr[b]) = b
                         /\ \/ bySession[byAddr[b]] = b
                            \/ bridge.op = "register" /\ bridge.s = byAddr[b]
    BY DEF IndInv, RegistryInv, RegistryForward
  <2>2. CASE bridge.op = "spawned"
    <3>1. CASE b = a
      BY <1>1, <1>3, <1>4, <2>2, <3>1 DEF TypeOK
    <3>2. CASE b # a
      BY <1>1, <1>3, <1>4, <1>11, <2>1, <2>2, <3>2 DEF TypeOK
    <3> QED BY <3>1, <3>2
  <2>3. CASE bridge.op = "register"
    <3>1. byAddr' = byAddr /\ bySession' = [bySession EXCEPT ![s] = a]
      BY <1>1, <2>3
    <3>2. CASE byAddr[b] = s
      BY <1>3, <1>11, <2>1, <3>1, <3>2 DEF TypeOK
    <3>3. CASE byAddr[b] # s
      BY <1>3, <1>11, <2>1, <3>1, <3>3, CountFacts DEF TypeOK
    <3> QED BY <3>2, <3>3
  <2> QED BY <1>1, <2>2, <2>3
<1>12. RegistryInv'
  BY <1>2, <1>11 DEF RegistryInv, RegistryForward, AddrOf
<1>13. EmitInv'
  <2>1. ASSUME NEW t \in 1 .. sessions, NEW u \in 1 .. sessions, t < u, byAddr'[AddrOf(t)] = t
        PROVE  byAddr[AddrOf(t)] = t
    <3>1. t # s
      BY <1>3, <2>1, CountFacts
    <3>2. AddrOf(t) \in Addrs
      BY SessionFacts
    <3> QED BY <1>1, <1>3, <2>1, <3>1, <3>2 DEF TypeOK
  <2>2. ASSUME NEW t \in 1 .. sessions, NEW u \in 1 .. sessions, t < u, AddrOf(t) = AddrOf(u)
        PROVE  /\ carrier[t].at # "gone" => t \in contended /\ u \in contended
               /\ byAddr'[AddrOf(t)] = t => t \in contended
    BY <2>1, <2>2 DEF IndInv, EmitInv
  <2> QED BY <1>2, <2>2 DEF IndInv, EmitInv, AddrOf
<1> QED BY <1>6, <1>7, <1>8, <1>9, <1>10, <1>12, <1>13 DEF IndInv

LEMMA IdleFacts ==
    /\ Idle \in BridgeStates /\ Idle.op = "idle"
    /\ [Idle EXCEPT !.op = "gone"] \in BridgeStates
    /\ [Idle EXCEPT !.op = "gone"].op = "gone"
BY ConstantFacts DEF Idle, BridgeStates, BridgeOps

LEMMA BridgePutInv == ASSUME IndInv, BridgePut PROVE IndInv'
<1> DEFINE s == bridge.s
<1>1. /\ bridge.op = "data" /\ bridge' = Idle
      /\ UNCHANGED <<peerVars, listenerEvents, byAddr, bySession, sessions, connOf, contended,
                     carrier, closed, appVars, events, heard>>
      /\ \/ /\ peerInbound' = [peerInbound EXCEPT ![AddrOf(s)] = 0]
            /\ UNCHANGED inbound
         \/ /\ Len(inbound[s]) < QueueCapacity
            /\ inbound' = [inbound EXCEPT ![s] = Append(@, bridge.from)]
            /\ UNCHANGED peerInbound
  BY DEF BridgePut
<1>2. UNCHANGED <<conns, addr, table, task, data, listenerEvents, byAddr, bySession, sessions,
                  connOf, contended, carrier, closed, open, sends, outbound, events, heard>>
  BY <1>1 DEF peerVars, appVars
<1>3. /\ s \in 1 .. sessions /\ s \in Sessions /\ AddrOf(s) \in Addrs /\ TypeOK
      /\ bridge.from = connOf[s] /\ bridge.from \in Conns /\ 0 \in 0 .. MaxConns
      /\ sessions \in Nat
  <2>1. s \in 1 .. sessions
    BY <1>1 DEF IndInv, BridgeInv
  <2> QED BY <1>1, <2>1, SessionFacts, ConstantFacts, CountFacts DEF IndInv, OwnPlaintexts
<1>4. bridge' \in BridgeStates /\ bridge'.op = "idle"
  BY <1>1, IdleFacts
<1>5. /\ peerInbound' \in [Addrs -> 0 .. MaxConns]
      /\ \A a \in Addrs : peerInbound'[a] = peerInbound[a] \/ peerInbound'[a] = 0
  BY ZenonT(60), <1>1, <1>3 DEF TypeOK
<1>6. /\ inbound' \in [Sessions -> Seq(Conns)]
      /\ \A t \in Sessions : Len(inbound'[t]) <= QueueCapacity
      /\ \A t \in Sessions \ {s} : inbound'[t] = inbound[t]
      /\ \A i \in 1 .. Len(inbound'[s]) : inbound'[s][i] = connOf[s]
  <2>1. CASE UNCHANGED inbound
    BY <1>3, <2>1 DEF IndInv, TypeOK, OwnPlaintexts
  <2>2. CASE Len(inbound[s]) < QueueCapacity
             /\ inbound' = [inbound EXCEPT ![s] = Append(@, bridge.from)]
    <3>1. inbound[s] \in Seq(Conns)
      BY <1>3 DEF TypeOK
    <3>2. /\ Append(inbound[s], bridge.from) \in Seq(Conns) /\ Len(inbound[s]) \in Nat
          /\ Len(Append(inbound[s], bridge.from)) = Len(inbound[s]) + 1
          /\ \A i \in 1 .. Len(inbound[s]) : Append(inbound[s], bridge.from)[i] = inbound[s][i]
          /\ Append(inbound[s], bridge.from)[Len(inbound[s]) + 1] = bridge.from
      BY <1>3, <3>1, AppendProperties, LenProperties
    <3>3. /\ inbound'[s] = Append(inbound[s], bridge.from)
          /\ inbound' \in [Sessions -> Seq(Conns)]
          /\ \A t \in Sessions \ {s} : inbound'[t] = inbound[t]
      BY <1>3, <2>2, <3>2 DEF TypeOK
    <3>4. Len(inbound'[s]) <= QueueCapacity
          /\ 1 .. Len(inbound[s]) + 1 = 1 .. Len(inbound[s]) \cup {Len(inbound[s]) + 1}
      BY <2>2, <3>2, <3>3, ConstantFacts
    <3>5. \A i \in 1 .. Len(inbound[s]) : inbound[s][i] = connOf[s]
      BY <1>3 DEF IndInv, OwnPlaintexts
    <3>6. \A i \in 1 .. Len(inbound'[s]) : inbound'[s][i] = connOf[s]
      BY <1>3, <3>2, <3>3, <3>4, <3>5
    <3>7. \A t \in Sessions : Len(inbound'[t]) <= QueueCapacity
      BY <1>3, <3>3, <3>4 DEF TypeOK
    <3> QED BY <3>3, <3>6, <3>7
  <2> QED BY <1>1, <2>1, <2>2
<1>7. TypeOK'
  BY <1>2, <1>3, <1>4, <1>5, <1>6 DEF TypeOK
<1>8. ConnInv' /\ QueueInv'
  BY <1>2, ConnFrame DEF IndInv
<1>9. SessionInv'
  <2>1. SessionInv
    BY DEF IndInv
  <2>2. ASSUME NEW a \in Addrs, peerInbound'[a] # 0
        PROVE  /\ peerInbound'[a] \in 1 .. sessions /\ AddrOf(peerInbound'[a]) = a
               /\ \A t \in 1 .. sessions : AddrOf(t) = a => connOf[t] <= connOf[peerInbound'[a]]
    BY <1>5, <2>1, <2>2 DEF SessionInv
  <2>3. ASSUME NEW t \in Sessions, t > sessions PROVE inbound'[t] = << >>
    <3>1. t # s
      BY <1>3, <2>3
    <3> QED BY <1>6, <2>1, <2>3, <3>1 DEF SessionInv
  <2> QED BY <1>2, <2>1, <2>2, <2>3 DEF SessionInv, Ev, AddrOf
<1>10. BridgeInv'
  BY <1>4 DEF BridgeInv, Spawning
<1>11. RegistryInv'
  <2>1. \A a \in Addrs : byAddr[a] # 0 => bySession[byAddr[a]] = a
    BY <1>1 DEF IndInv, RegistryInv, RegistryForward
  <2> QED BY <1>2, <2>1 DEF IndInv, RegistryInv, RegistryForward, AddrOf
<1>12. EmitInv'
  BY <1>2 DEF IndInv, EmitInv, AddrOf
<1>13. HeardInv'
  BY <1>1, <1>2 DEF IndInv, HeardInv, ReadyFirst, Spawning
<1>14. OwnPlaintexts'
  <2>1. ASSUME NEW t \in Sessions, NEW i \in 1 .. Len(inbound'[t]) PROVE inbound'[t][i] = connOf[t]
    BY <1>6 DEF IndInv, OwnPlaintexts
  <2> QED BY <1>2, <1>4, <2>1 DEF OwnPlaintexts
<1> QED BY <1>7, <1>8, <1>9, <1>10, <1>11, <1>12, <1>13, <1>14 DEF IndInv

\* The bridge lets go of its session, or ends and forgets where to route.
LEMMA BridgeRestsInv ==
    ASSUME IndInv, bridge.op \in {"idle", "ready", "disconnected"},
           bridge' \in {Idle, [Idle EXCEPT !.op = "gone"]},
           peerInbound' \in {peerInbound, [a \in Addrs |-> 0]},
           UNCHANGED <<peerVars, listenerEvents, byAddr, bySession, sessions, connOf, contended,
                       carrierVars, appVars>>,
           events' \in 0 .. EventCapacity, heard' \in [Sessions -> SUBSET AppEvents],
           HeardInv'
    PROVE  IndInv'
<1>1. UNCHANGED <<conns, addr, table, task, data, listenerEvents, byAddr, bySession, sessions,
                  connOf, contended, carrier, closed, inbound, open, sends, outbound>>
  BY DEF peerVars, carrierVars, appVars
<1>2. bridge' \in BridgeStates /\ bridge'.op \in {"idle", "gone"}
  BY IdleFacts
<1>3. /\ peerInbound' \in [Addrs -> 0 .. MaxConns]
      /\ \A a \in Addrs : peerInbound'[a] = peerInbound[a] \/ peerInbound'[a] = 0
  <2>1. 0 \in 0 .. MaxConns
    BY ConstantFacts
  <2> QED BY <2>1 DEF IndInv, TypeOK
<1>4. TypeOK'
  BY <1>1, <1>2, <1>3 DEF IndInv, TypeOK
<1>5. ConnInv' /\ QueueInv'
  BY <1>1, ConnFrame DEF IndInv
<1>6. SessionInv'
  BY <1>1, <1>3, <1>4, <1>5, RouteInv
<1>7. BridgeInv'
  BY <1>2 DEF BridgeInv, Spawning
<1>8. RegistryInv'
  <2>1. \A a \in Addrs : byAddr[a] # 0 => bySession[byAddr[a]] = a
    BY DEF IndInv, RegistryInv, RegistryForward
  <2> QED BY <1>1, <2>1 DEF IndInv, RegistryInv, RegistryForward, AddrOf
<1>9. EmitInv'
  BY <1>1 DEF IndInv, EmitInv, AddrOf
<1>10. OwnPlaintexts'
  BY <1>1, <1>2 DEF IndInv, OwnPlaintexts
<1> QED BY <1>4, <1>5, <1>6, <1>7, <1>8, <1>9, <1>10 DEF IndInv

LEMMA BridgeSendInv == ASSUME IndInv, BridgeSend PROVE IndInv'
<1> DEFINE s == bridge.s
           ev == bridge.op
<1>1. /\ ev \in {"ready", "disconnected"} /\ Send(s, ev)
      /\ bridge' = IF open THEN Idle ELSE [Idle EXCEPT !.op = "gone"]
      /\ peerInbound' = IF open THEN peerInbound ELSE [a \in Addrs |-> 0]
      /\ UNCHANGED <<peerVars, listenerEvents, byAddr, bySession, sessions, connOf, contended,
                     carrierVars, appVars>>
  BY DEF BridgeSend
<1>2. UNCHANGED <<sessions, contended, open>>
  BY <1>1 DEF appVars
<1>3. s \in 1 .. sessions /\ s \in Sessions /\ ev \in AppEvents
  <2>1. s \in 1 .. sessions
    BY <1>1 DEF IndInv, BridgeInv, Spawning
  <2> QED BY <1>1, <2>1, SessionFacts DEF AppEvents
<1>4. /\ events' \in 0 .. EventCapacity
      /\ heard' \in [Sessions -> SUBSET AppEvents]
      /\ \A t \in Sessions : heard[t] \subseteq heard'[t]
      /\ \A t \in Sessions \ {s} : heard'[t] = heard[t]
      /\ heard'[s] \subseteq heard[s] \cup {ev}
      /\ open => ev \in heard'[s]
  BY <1>1, <1>3, SendFacts
<1>5. HeardInv'
  <2>1. HeardInv
    BY DEF IndInv
  <2>2. ASSUME NEW t \in 1 .. sessions PROVE "ready" \in heard'[t] \/ ~open
    <3>1. t \in Sessions
      BY SessionFacts
    <3>2. CASE bridge.op \in Spawning /\ bridge.s = t
      BY <1>1, <1>4, <3>2 DEF Spawning
    <3>3. CASE "ready" \in heard[t] \/ ~open
      BY <1>4, <3>1, <3>3
    <3> QED BY <2>1, <3>2, <3>3 DEF HeardInv
  <2>3. ASSUME NEW t \in Sessions \ contended, heard'[t] \cap {"received", "sent"} # {}
        PROVE  "ready" \in heard'[t]
    <3>1. heard[t] \cap {"received", "sent"} # {}
      BY <1>1, <1>3, <1>4, <2>3
    <3> QED BY <1>4, <2>1, <3>1 DEF HeardInv, ReadyFirst
  <2> QED BY <1>2, <2>2, <2>3 DEF HeardInv, ReadyFirst
<1> QED BY <1>1, <1>4, <1>5, BridgeRestsInv

LEMMA BridgeShutdownInv == ASSUME IndInv, BridgeShutdown PROVE IndInv'
<1>1. HeardInv'
  BY DEF IndInv, HeardInv, ReadyFirst, BridgeShutdown, appVars, Spawning
<1> QED BY <1>1, CarrierTypes, BridgeRestsInv DEF BridgeShutdown

-----------------------------------------------------------------------------
(* The application.                                                        *)

LEMMA AppInv ==
    ASSUME IndInv, (\E s \in 1 .. sessions : AppSend(s)) \/ NextEventTaken \/ DropHandle
    PROVE  IndInv'
<1>1. UNCHANGED <<peerVars, listenerEvents, bridge, registryVars, carrierVars, heard>>
  BY DEF AppSend, NextEventTaken, DropHandle
<1>2. UNCHANGED <<conns, addr, table, task, data, listenerEvents, bridge, peerInbound, byAddr,
                  bySession, sessions, connOf, contended, carrier, closed, inbound, heard>>
  BY <1>1 DEF peerVars, registryVars, carrierVars
<1>3. /\ open' \in BOOLEAN /\ (open' => open) /\ sends' \in 0 .. MaxSends
      /\ events' \in 0 .. EventCapacity /\ outbound' \in [Sessions -> 0 .. QueueCapacity]
  <2>1. /\ open \in BOOLEAN /\ sends \in 0 .. MaxSends /\ events \in 0 .. EventCapacity
        /\ outbound \in [Sessions -> 0 .. QueueCapacity] /\ MaxSends \in Nat
        /\ EventCapacity \in Nat /\ QueueCapacity \in Nat
    BY ConstantFacts DEF IndInv, TypeOK
  <2>2. ASSUME NEW s \in 1 .. sessions, AppSend(s)
        PROVE  /\ open' = open /\ sends' \in 0 .. MaxSends /\ events' = events
               /\ outbound' \in [Sessions -> 0 .. QueueCapacity]
    <3> DEFINE to == byAddr[bySession[s]]
    <3>1. /\ bySession[s] \in Addrs /\ to # 0
      BY <2>2, SessionFacts DEF AppSend, IndInv, TypeOK
    <3>2. to \in Sessions
      BY <3>1, CountFacts DEF IndInv, RegistryInv
    <3>3. /\ outbound[to] < QueueCapacity
          /\ outbound' = [outbound EXCEPT ![to] = @ + 1]
          /\ sends < MaxSends /\ sends' = sends + 1 /\ open' = open /\ events' = events
      BY <2>2 DEF AppSend
    <3> HIDE DEF to
    <3>4. outbound[to] + 1 \in 0 .. QueueCapacity /\ sends + 1 \in 0 .. MaxSends
      BY <2>1, <3>2, <3>3
    <3> QED BY <2>1, <3>2, <3>3, <3>4
  <2>3. CASE NextEventTaken
    BY <2>1, <2>3 DEF NextEventTaken, appVars
  <2>4. CASE DropHandle
    <3>1. open' = FALSE /\ events' = 0 /\ sends' = sends /\ outbound' = outbound
      BY <2>4 DEF DropHandle
    <3>2. 0 \in 0 .. EventCapacity
      BY <2>1
    <3> QED BY <2>1, <3>1, <3>2
  <2> QED BY <2>1, <2>2, <2>3, <2>4
<1>4. TypeOK'
  BY <1>2, <1>3 DEF IndInv, TypeOK
<1>5. ConnInv' /\ QueueInv' /\ SessionInv'
  BY <1>2 DEF IndInv, ConnInv, QueueInv, SessionInv, Ev, HasSession, AddrOf
<1>6. BridgeInv' /\ RegistryInv' /\ EmitInv' /\ OwnPlaintexts'
  BY <1>2 DEF IndInv, BridgeInv, RegistryInv, RegistryForward, EmitInv, OwnPlaintexts, AddrOf
<1>7. HeardInv'
  BY <1>2, <1>3 DEF IndInv, HeardInv, ReadyFirst
<1> QED BY <1>4, <1>5, <1>6, <1>7 DEF IndInv

-----------------------------------------------------------------------------
(* The theorems.                                                           *)

LEMMA NextInv == IndInv /\ [Next]_vars => IndInv'
<1> SUFFICES ASSUME IndInv, [Next]_vars PROVE IndInv'
  OBVIOUS
<1>1. CASE UNCHANGED vars
  <2>1. UNCHANGED <<conns, addr, table, task, data, listenerEvents, bridge, peerInbound, byAddr,
                    bySession, sessions, connOf, contended, carrier, closed, inbound, open, sends,
                    outbound, events, heard>>
    BY <1>1 DEF vars, peerVars, registryVars, carrierVars, appVars
  <2>2. TypeOK' /\ ConnInv' /\ QueueInv' /\ SessionInv'
    <3>1. TypeOK'
      BY <2>1 DEF IndInv, TypeOK
    <3>2. ConnInv' /\ QueueInv'
      BY <2>1, ConnFrame DEF IndInv
    <3>3. SessionInv'
      BY <2>1 DEF IndInv, SessionInv, Ev, AddrOf
    <3> QED BY <3>1, <3>2, <3>3
  <2>3. BridgeInv' /\ RegistryInv' /\ EmitInv' /\ HeardInv' /\ OwnPlaintexts'
    BY <2>1 DEF IndInv, BridgeInv, RegistryInv, RegistryForward, EmitInv, HeardInv, ReadyFirst,
                OwnPlaintexts, AddrOf
  <2> QED BY <2>2, <2>3 DEF IndInv
<1>2. CASE \E a \in Addrs : Connect(a)
  BY <1>2, ConnectInv
<1>3. CASE \E c \in Conns :
             \/ Accept(c) \/ Announce(c) \/ Forward(c) \/ SslFails(c) \/ Unlist(c) \/ Leave(c)
             \/ Decrypt(c)
  BY <1>3, PeerInv
<1>4. CASE BridgeTake \/ BridgeRegister \/ BridgePut \/ BridgeSend \/ BridgeShutdown
  BY <1>4, BridgeTakeInv, BridgeRegisterInv, BridgePutInv, BridgeSendInv, BridgeShutdownInv
<1>5. ASSUME NEW s \in 1 .. sessions,
             \/ WriteFails(s) \/ Outbound(s) \/ HandOver(s) \/ TaskSend(s)
             \/ \E e \in CarrierEvents : AwaitReady(s, e)
             \/ \E e \in CarrierEvents \cup {"closed"} : Inbound(s, e)
             \/ AppSend(s)
      PROVE  IndInv'
  <2>1. CASE WriteFails(s) \/ Outbound(s) \/ HandOver(s) \/ TaskSend(s)
    BY <2>1, WriteFailsInv, OutboundInv, HandOverInv, TaskSendInv
  <2>2. CASE \E e \in CarrierEvents : AwaitReady(s, e)
    BY <2>2, AwaitReadyInv
  <2>3. CASE \E e \in CarrierEvents \cup {"closed"} : Inbound(s, e)
    BY <2>3, InboundInv
  <2>4. CASE AppSend(s)
    BY <2>4, AppInv
  <2> QED BY <1>5, <2>1, <2>2, <2>3, <2>4
<1>6. CASE NextEventTaken \/ DropHandle
  BY <1>6, AppInv
<1> QED BY <1>1, <1>2, <1>3, <1>4, <1>5, <1>6 DEF Next

\* The inductive invariant holds in every reachable state.
THEOREM Invariance == Spec => []IndInv
<1> QED BY InitInv, NextInv, PTL DEF Spec

\* Every variable keeps its type, every queue of the server its capacity, and
\* there are never more sessions than connections.
THEOREM TypeCorrect == Spec => []TypeOK
<1>1. IndInv => TypeOK
  BY DEF IndInv
<1> QED BY <1>1, Invariance, PTL

\* event_bridge_loop routes by address, and yet a carrier gets only plaintexts
\* of the connection it was made for, however often an address comes back.
THEOREM PlaintextsStayWithTheirConnection == Spec => []OwnPlaintexts
<1>1. IndInv => OwnPlaintexts
  BY DEF IndInv
<1> QED BY <1>1, Invariance, PTL

\* PeerRegistry: what by_addr names, by_session names back, but inside register.
THEOREM RegistryHalvesAgree == Spec => []RegistryForward
<1>1. IndInv => RegistryForward
  BY DEF IndInv, RegistryInv
<1> QED BY <1>1, Invariance, PTL

\* A session that never shared its address hears Ready before any of its data.
THEOREM ReadyComesFirst == Spec => []ReadyFirst
<1>1. IndInv => ReadyFirst
  BY DEF IndInv, HeardInv
<1> QED BY <1>1, Invariance, PTL

=============================================================================
