----------------------------- MODULE ServerPeers -----------------------------
(***************************************************************************)
(* server.rs and driver/multi_peer.rs: the DTLS tasks of the peers, the    *)
(* bridge that turns their events into carriers, the carrier task and the  *)
(* driver of every session, and the PeerRegistry they share.               *)
(*                                                                         *)
(*   peer task c --listenerEvents--> bridge --inbound[s]--> carrier s      *)
(*   application <--events-- bridge, carriers                              *)
(*   application --outbound[s]--> carrier s                                *)
(*                                                                         *)
(* A connection c is one DTLS session of a remote address; an address may  *)
(* connect again when its earlier connection is off the peer table.  The   *)
(* code knows a peer by its address only: the connection in an event is a  *)
(* ghost.  A plaintext is the connection it came from; what it says is     *)
(* chosen when the carrier reads it.  A carrier task and its driver        *)
(* (CarrierHandshake models the two apart) are one process here; that the  *)
(* queues between them and to SSL_write may be full shows in the fairness  *)
(* only (WriteMayBlock).                                                   *)
(***************************************************************************)
EXTENDS Integers, Sequences, FiniteSets

CONSTANTS Addrs,                \* remote addresses
          MaxConns,             \* bound: connections
          MaxData,              \* bound: plaintexts the peers send
          MaxSends,             \* bound: messages the application sends
          ListenerCapacity,     \* LISTENER_EVENT_CAPACITY, 4096
          EventCapacity,        \* SERVER_EVENT_CAPACITY, 4096
          QueueCapacity         \* PER_PEER_QUEUE_CAPACITY, 256

ASSUME ServerPeersAssumption ==
    /\ {MaxConns, MaxData, MaxSends} \subseteq Nat
    /\ {ListenerCapacity, EventCapacity, QueueCapacity} \subseteq Nat \ {0}
    /\ 0 \notin Addrs

VARIABLES
    conns, addr,    \* connections so far and their addresses
    table,          \* PeerMap: the connection at an address, or 0
    task,           \* task[c]: where the peer task of connection c is
    listenerEvents, \* MultiPeerEvents on their way to the bridge
    bridge,         \* what the bridge waits for
    peerInbound,    \* the session whose inbound queue an address feeds, or 0
    byAddr,         \* PeerRegistry::by_addr: the session of an address, or 0
    bySession,      \* PeerRegistry::by_session: the address of a session, or 0
    sessions,       \* next_session
    connOf,         \* connOf[s]: the connection session s was made for (ghost)
    carrier,        \* carrier[s]: where the carrier task of session s is
    closed,         \* closed[s]: its carrier driver has ended
    inbound,        \* inbound[s]: plaintexts to the carrier
    outbound,       \* outbound[s]: how many OutboundTyped wait
    open,           \* some ServerListenerHandle exists
    events,         \* how many Events wait for the application
    data, sends,    \* plaintexts and sends so far (for the bounds)
    heard,          \* heard[s]: the kinds of Event sent for session s (ghost)
    contended       \* sessions that shared their address with another (ghost)

peerVars == <<conns, addr, table, task, data>>
registryVars == <<peerInbound, byAddr, bySession, sessions, connOf, contended>>
carrierVars == <<carrier, closed, inbound>>
appVars == <<open, sends, outbound>>
vars == <<peerVars, listenerEvents, bridge, registryVars, carrierVars, appVars,
          events, heard>>

Conns == 1 .. MaxConns
Sessions == 1 .. MaxConns
CarrierEvents == {"connected", "message", "disconnected", "error"}

AddrOf(s) == addr[connOf[s]]

\* MultiPeerListener::bind and ServerListenerHandle::bind.
Idle == [op |-> "idle", s |-> 0, from |-> 0]
At(where) == [at |-> where, ev |-> "none", s |-> 0, then |-> "none"]

Init ==
    /\ conns = 0 /\ addr = [c \in Conns |-> 0]
    /\ table = [a \in Addrs |-> 0] /\ task = [c \in Conns |-> "none"]
    /\ listenerEvents = << >> /\ bridge = Idle
    /\ peerInbound = [a \in Addrs |-> 0] /\ byAddr = [a \in Addrs |-> 0]
    /\ bySession = [s \in Sessions |-> 0] /\ sessions = 0
    /\ connOf = [s \in Sessions |-> 0]
    /\ carrier = [s \in Sessions |-> At("none")]
    /\ closed = [s \in Sessions |-> FALSE] /\ inbound = [s \in Sessions |-> << >>]
    /\ outbound = [s \in Sessions |-> 0]
    /\ open = TRUE /\ events = 0 /\ data = 0 /\ sends = 0
    /\ heard = [s \in Sessions |-> {}] /\ contended = {}

-----------------------------------------------------------------------------
(* The demultiplexer and the peer tasks.                                   *)

\* Mutant of Connect: a new connection takes over the entry of its address.
ConnectAnyTime(a) ==
    /\ conns < MaxConns
    /\ conns' = conns + 1
    /\ addr' = [addr EXCEPT ![conns + 1] = a]
    /\ table' = [table EXCEPT ![a] = conns + 1]
    /\ task' = [task EXCEPT ![conns + 1] = "accepting"]
    /\ UNCHANGED <<data, listenerEvents, bridge, registryVars, carrierVars, appVars,
                   events, heard>>

\* demux_loop: a datagram from an address that is not in the table.
Connect(a) ==
    /\ conns < MaxConns /\ table[a] = 0
    /\ conns' = conns + 1
    /\ addr' = [addr EXCEPT ![conns + 1] = a]
    /\ table' = [table EXCEPT ![a] = conns + 1]
    /\ task' = [task EXCEPT ![conns + 1] = "accepting"]
    /\ UNCHANGED <<data, listenerEvents, bridge, registryVars, carrierVars, appVars,
                   events, heard>>

\* A step of peer task c from one place to the next, the event it sends on the
\* way if there is one.  Once the listener is gone nothing reads the events.
Go(c, from, to) ==
    /\ task[c] = from
    /\ task' = [task EXCEPT ![c] = to]
    /\ UNCHANGED <<conns, addr, bridge, registryVars, carrierVars, appVars, events,
                   heard>>
Tell(c, kind) ==
    /\ Len(listenerEvents) < ListenerCapacity
    /\ listenerEvents' = Append(listenerEvents,
                                [kind |-> kind, addr |-> addr[c], conn |-> c])

\* accept_handshake succeeds or fails.
Accept(c) ==
    /\ \/ Go(c, "accepting", "announcing") \/ Go(c, "accepting", "ended")
    /\ UNCHANGED <<table, data, listenerEvents>>

\* run_peer: Established, then Data for every plaintext, until SSL fails.
Announce(c) ==
    Go(c, "announcing", "open") /\ Tell(c, "established") /\ UNCHANGED <<table, data>>
Decrypt(c) ==
    /\ data < MaxData /\ data' = data + 1
    /\ Go(c, "open", "reading")
    /\ UNCHANGED <<table, listenerEvents>>
Forward(c) == Go(c, "reading", "open") /\ Tell(c, "data") /\ UNCHANGED <<table, data>>
SslFails(c) == Go(c, "open", "ended") /\ UNCHANGED <<table, data, listenerEvents>>

\* peer_task: the entry goes first, the Disconnected follows.
Unlist(c) ==
    /\ Go(c, "ended", "leaving")
    /\ table' = [table EXCEPT ![addr[c]] = 0]
    /\ UNCHANGED <<data, listenerEvents>>
Leave(c) == Go(c, "leaving", "gone") /\ Tell(c, "disconnected") /\ UNCHANGED <<table, data>>

-----------------------------------------------------------------------------
(* PeerRegistry::remove, and the end of a session it leads to.             *)

\* Mutant of Remove: the entry of the address stays.
RemoveHalf(a) ==
    /\ UNCHANGED byAddr
    /\ bySession' = IF byAddr[a] = 0 THEN bySession ELSE [bySession EXCEPT ![byAddr[a]] = 0]

Remove(a) ==
    /\ byAddr' = [byAddr EXCEPT ![a] = 0]
    /\ bySession' = IF byAddr[a] = 0 THEN bySession ELSE [bySession EXCEPT ![byAddr[a]] = 0]

\* Mutant of Send: nobody waits for room.
SendUnbounded(s, ev) ==
    /\ events' = IF open THEN events + 1 ELSE events
    /\ heard' = IF open THEN [heard EXCEPT ![s] = @ \cup {ev}] ELSE heard

\* event_tx.send of an Event of session s: waits for room, fails without handle.
Send(s, ev) ==
    /\ open => events < EventCapacity
    /\ events' = IF open THEN events + 1 ELSE events
    /\ heard' = IF open THEN [heard EXCEPT ![s] = @ \cup {ev}] ELSE heard

-----------------------------------------------------------------------------
(* event_bridge_loop.                                                      *)

\* The older sessions of address a that something is still left of.
Leftovers(a) ==
    {s \in 1 .. sessions : AddrOf(s) = a /\ (carrier[s].at # "gone" \/ byAddr[a] = s
                                              \/ task[connOf[s]] # "gone"
                                              \/ \E i \in 1 .. Len(listenerEvents) :
                                                    listenerEvents[i].conn = connOf[s])}

\* Established: spawn_peer_carrier, register, Ready.
OnEstablished(e) ==
    LET s == sessions + 1
    IN  /\ sessions' = s
        /\ connOf' = [connOf EXCEPT ![s] = e.conn]
        /\ carrier' = [carrier EXCEPT ![s] = At("connecting")]
        /\ peerInbound' = [peerInbound EXCEPT ![e.addr] = s]
        /\ contended' = IF Leftovers(e.addr) = {} THEN contended
                        ELSE contended \cup Leftovers(e.addr) \cup {s}
        /\ bridge' = [op |-> "spawned", s |-> s, from |-> 0]
        /\ UNCHANGED <<byAddr, bySession>>

OnData(e) ==
    /\ bridge' = IF peerInbound[e.addr] = 0 THEN Idle
                 ELSE [op |-> "data", s |-> peerInbound[e.addr], from |-> e.conn]
    /\ UNCHANGED <<registryVars, carrier>>

OnDisconnected(e) ==
    /\ peerInbound' = [peerInbound EXCEPT ![e.addr] = 0]
    /\ Remove(e.addr)
    /\ bridge' = IF byAddr[e.addr] = 0 THEN Idle
                 ELSE [op |-> "disconnected", s |-> byAddr[e.addr], from |-> 0]
    /\ UNCHANGED <<sessions, connOf, contended, carrier>>

BridgeTake ==
    /\ bridge.op = "idle" /\ listenerEvents # << >>
    /\ LET e == Head(listenerEvents)
       IN  \/ e.kind = "established" /\ OnEstablished(e)
           \/ e.kind = "data" /\ OnData(e)
           \/ e.kind = "disconnected" /\ OnDisconnected(e)
    /\ listenerEvents' = Tail(listenerEvents)
    /\ UNCHANGED <<peerVars, closed, inbound, appVars, events, heard>>

\* Mutant of BridgeRegister: the Ready is left to others.
BridgeRegisterQuiet ==
    /\ \/ /\ bridge.op = "spawned"
          /\ byAddr' = [byAddr EXCEPT ![AddrOf(bridge.s)] = bridge.s]
          /\ bridge' = [bridge EXCEPT !.op = "register"]
          /\ UNCHANGED bySession
       \/ /\ bridge.op = "register"
          /\ bySession' = [bySession EXCEPT ![bridge.s] = AddrOf(bridge.s)]
          /\ bridge' = Idle
          /\ UNCHANGED byAddr
    /\ UNCHANGED <<peerVars, listenerEvents, peerInbound, sessions, connOf, contended,
                   carrierVars, appVars, events, heard>>

\* register: by_addr.insert, then by_session.insert.
BridgeRegister ==
    /\ \/ /\ bridge.op = "spawned"
          /\ byAddr' = [byAddr EXCEPT ![AddrOf(bridge.s)] = bridge.s]
          /\ bridge' = [bridge EXCEPT !.op = "register"]
          /\ UNCHANGED bySession
       \/ /\ bridge.op = "register"
          /\ bySession' = [bySession EXCEPT ![bridge.s] = AddrOf(bridge.s)]
          /\ bridge' = [bridge EXCEPT !.op = "ready"]
          /\ UNCHANGED byAddr
    /\ UNCHANGED <<peerVars, listenerEvents, peerInbound, sessions, connOf, contended,
                   carrierVars, appVars, events, heard>>

\* The receiver of the inbound queue of session s is gone.
Gone(s) == closed[s] \/ carrier[s].at = "gone"

\* The plaintext enters the queue of the carrier, or the queue is forgotten
\* when its driver is gone.
BridgePut ==
    /\ bridge.op = "data"
    /\ LET s == bridge.s
       IN  \/ /\ Gone(s)
              /\ peerInbound' = [peerInbound EXCEPT ![AddrOf(s)] = 0]
              /\ UNCHANGED inbound
           \/ /\ ~Gone(s) /\ Len(inbound[s]) < QueueCapacity
              /\ inbound' = [inbound EXCEPT ![s] = Append(@, bridge.from)]
              /\ UNCHANGED peerInbound
    /\ bridge' = Idle
    /\ UNCHANGED <<peerVars, listenerEvents, byAddr, bySession, sessions, connOf, contended,
                   carrier, closed, appVars, events, heard>>

\* Ready or Disconnected goes to the application; without one the bridge ends.
BridgeSend ==
    /\ bridge.op \in {"ready", "disconnected"}
    /\ Send(bridge.s, bridge.op)
    /\ bridge' = IF open THEN Idle ELSE [Idle EXCEPT !.op = "gone"]
    /\ peerInbound' = IF open THEN peerInbound ELSE [a \in Addrs |-> 0]
    /\ UNCHANGED <<peerVars, listenerEvents, byAddr, bySession, sessions, connOf, contended,
                   carrierVars, appVars>>

\* The shutdown signal.
BridgeShutdown ==
    /\ bridge.op = "idle" /\ ~open
    /\ bridge' = [Idle EXCEPT !.op = "gone"]
    /\ peerInbound' = [a \in Addrs |-> 0]
    /\ UNCHANGED <<peerVars, listenerEvents, byAddr, bySession, sessions, connOf, contended,
                   carrierVars, appVars, events, heard>>

-----------------------------------------------------------------------------
(* The carrier task of a session: spawn_peer_carrier, run_peer_session.    *)

\* The task ends its session: whatever session its address has leaves the
\* registry and is reported.
EndSession(s) ==
    LET a == AddrOf(s)
    IN  /\ Remove(a)
        /\ carrier' = [carrier EXCEPT ![s] =
              IF byAddr[a] = 0 THEN At("gone")
              ELSE [at |-> "emit", ev |-> "disconnected", s |-> byAddr[a], then |-> "gone"]]

\* What the driver makes of the next plaintext: e; "closed" when it has ended.
HasEvent(s) == closed[s] \/ inbound[s] # << >>
TakeEvent(s, e) ==
    /\ HasEvent(s) /\ (e = "closed" <=> closed[s])
    /\ inbound' = IF closed[s] THEN inbound ELSE [inbound EXCEPT ![s] = Tail(@)]
    /\ closed' = [closed EXCEPT ![s] = @ \/ e = "disconnected"]

\* A timer makes the driver write to an address without a connection: an
\* Error, which ends ready() and is only logged later.
WriteFails(s) ==
    /\ carrier[s].at = "connecting" /\ table[AddrOf(s)] = 0
    /\ EndSession(s)
    /\ closed' = [closed EXCEPT ![s] = TRUE]
    /\ UNCHANGED <<peerVars, listenerEvents, bridge, peerInbound, sessions, connOf, contended,
                   inbound, appVars, events, heard>>

\* CarrierImpl::ready; on an error the handle is dropped and with it the driver.
AwaitReady(s, e) ==
    /\ carrier[s].at = "connecting" /\ inbound[s] # << >>
    /\ inbound' = [inbound EXCEPT ![s] = Tail(@)]
    /\ \/ /\ e = "connected"
          /\ carrier' = [carrier EXCEPT ![s] = At("up")]
          /\ UNCHANGED <<closed, byAddr, bySession>>
       \/ /\ e = "message"
          /\ UNCHANGED <<carrier, closed, byAddr, bySession>>
       \/ /\ e \in {"disconnected", "error"}
          /\ closed' = [closed EXCEPT ![s] = TRUE]
          /\ EndSession(s)
    /\ UNCHANGED <<peerVars, listenerEvents, bridge, peerInbound, sessions, connOf, contended,
                   appVars, events, heard>>

\* Action::Inbound: handle_inbound for the session its address has now.
Inbound(s, e) ==
    /\ carrier[s].at = "up"
    /\ TakeEvent(s, e)
    /\ LET now == byAddr[AddrOf(s)]
       IN  \/ e = "closed" /\ EndSession(s)
           \/ /\ e \in {"message", "disconnected"} /\ now # 0
              /\ carrier' = [carrier EXCEPT ![s] =
                    [at |-> "emit", s |-> now,
                     ev |-> IF e = "message" THEN "received" ELSE e,
                     then |-> IF e = "message" THEN "up" ELSE "gone"]]
              /\ UNCHANGED <<byAddr, bySession>>
           \/ /\ e \in {"connected", "error"} \/ (e # "closed" /\ now = 0)
              /\ UNCHANGED <<carrier, byAddr, bySession>>
    /\ UNCHANGED <<peerVars, listenerEvents, bridge, peerInbound, sessions, connOf, contended,
                   appVars, events, heard>>

\* Mutant of Outbound: the end of the queue is not noticed.
OutboundNeverEnds(s) ==
    /\ carrier[s].at = "up" /\ ~HasEvent(s)
    /\ outbound[s] > 0
    /\ outbound' = [outbound EXCEPT ![s] = @ - 1]
    /\ carrier' = [carrier EXCEPT ![s] = At("sending")]
    /\ UNCHANGED <<peerVars, listenerEvents, bridge, registryVars, closed, inbound, open,
                   sends, events, heard>>

\* Action::Outbound, polled after Inbound: the next command, or the end of the
\* queue, whose sender is in the registry.
Outbound(s) ==
    /\ carrier[s].at = "up" /\ ~HasEvent(s)
    /\ \/ /\ outbound[s] > 0
          /\ outbound' = [outbound EXCEPT ![s] = @ - 1]
          /\ carrier' = [carrier EXCEPT ![s] = At("sending")]
       \/ /\ outbound[s] = 0 /\ byAddr[AddrOf(s)] # s
          /\ carrier' = [carrier EXCEPT ![s] = At("gone")]
          /\ UNCHANGED outbound
    /\ UNCHANGED <<peerVars, listenerEvents, bridge, registryVars, closed, inbound, open,
                   sends, events, heard>>

\* connected.send and the Sent that follows; it fails when the driver has ended.
HandOver(s) ==
    /\ carrier[s].at = "sending"
    /\ \/ closed[s] /\ EndSession(s)
       \/ /\ ~closed[s]
          /\ carrier' = [carrier EXCEPT ![s] =
                IF byAddr[AddrOf(s)] = 0 THEN At("up")
                ELSE [at |-> "emit", ev |-> "sent", s |-> byAddr[AddrOf(s)], then |-> "up"]]
          /\ UNCHANGED <<byAddr, bySession>>
    /\ UNCHANGED <<peerVars, listenerEvents, bridge, peerInbound, sessions, connOf, contended,
                   closed, inbound, appVars, events, heard>>

\* The event goes to the application; a Received that fails ends the task.
TaskSend(s) ==
    /\ carrier[s].at = "emit"
    /\ Send(carrier[s].s, carrier[s].ev)
    /\ carrier' = [carrier EXCEPT ![s] =
          At(IF ~open /\ carrier[s].ev = "received" THEN "gone" ELSE carrier[s].then)]
    /\ UNCHANGED <<peerVars, listenerEvents, bridge, registryVars, closed, inbound, appVars>>

-----------------------------------------------------------------------------
(* The application.                                                        *)

\* try_enqueue: outbound_for a session it was told of, and its queue if there
\* is room.  (send_typed and enqueue wait for the room.)
AppSend(s) ==
    /\ open /\ sends < MaxSends /\ "ready" \in heard[s]
    /\ bySession[s] # 0 /\ byAddr[bySession[s]] # 0
    /\ LET to == byAddr[bySession[s]]
       IN  /\ carrier[to].at # "gone" /\ outbound[to] < QueueCapacity
           /\ outbound' = [outbound EXCEPT ![to] = @ + 1]
    /\ sends' = sends + 1
    /\ UNCHANGED <<peerVars, listenerEvents, bridge, registryVars, carrierVars, open, events,
                   heard>>

\* next_event.
NextEventTaken ==
    /\ open /\ events > 0
    /\ events' = events - 1
    /\ UNCHANGED <<peerVars, listenerEvents, bridge, registryVars, carrierVars,
                   appVars, heard>>

\* The last ServerListenerHandle is dropped.
DropHandle ==
    /\ open
    /\ open' = FALSE /\ events' = 0
    /\ UNCHANGED <<peerVars, listenerEvents, bridge, registryVars, carrierVars, sends,
                   outbound, heard>>

-----------------------------------------------------------------------------
\* The steps of peer task c that wait for no peer: accept_handshake does, and has no
\* timeout.
PeerStep(c) == Announce(c) \/ Forward(c) \/ Unlist(c) \/ Leave(c)
BridgeStep == BridgeTake \/ BridgeRegister \/ BridgePut \/ BridgeSend \/ BridgeShutdown
TaskStep(s) ==
    \/ WriteFails(s) \/ Outbound(s) \/ HandOver(s) \/ TaskSend(s)
    \/ \E e \in CarrierEvents : AwaitReady(s, e)
    \/ \E e \in CarrierEvents \cup {"closed"} : Inbound(s, e)

Next ==
    \/ \E a \in Addrs : Connect(a)
    \/ \E c \in Conns :
          \/ Accept(c) \/ Announce(c) \/ Forward(c) \/ SslFails(c) \/ Unlist(c) \/ Leave(c)
          \/ Decrypt(c)
    \/ BridgeTake \/ BridgeRegister \/ BridgePut \/ BridgeSend \/ BridgeShutdown
    \/ \E s \in 1 .. sessions :
          \/ WriteFails(s) \/ Outbound(s) \/ HandOver(s) \/ TaskSend(s)
          \/ \E e \in CarrierEvents : AwaitReady(s, e)
          \/ \E e \in CarrierEvents \cup {"closed"} : Inbound(s, e)
          \/ AppSend(s)
    \/ NextEventTaken \/ DropHandle

Spec == Init /\ [][Next]_vars

\* A peer task at the address of session s does not read its queue to SSL_write: it
\* is in accept_handshake, which can last for ever, or waits for room for an event,
\* or ends.  A write of the session's driver (ChannelTransport::write, send_to) that
\* finds the queue full waits, and everything the driver would do with it.
WriteMayBlock(s) ==
    \E c \in Conns : /\ addr[c] = AddrOf(s)
                     /\ task[c] \in {"accepting", "announcing", "reading", "ended", "leaving"}

\* Tasks of an executor, an application that drains its events.  No peer has
\* to connect, go on with a handshake, send or fail, nobody has to drop the handle,
\* and nothing is asked of a carrier whose writes may be waiting.
FairSpec ==
    /\ Spec
    /\ WF_vars(BridgeStep) /\ WF_vars(NextEventTaken)
    /\ \A c \in Conns : WF_vars(PeerStep(c))
    /\ \A s \in Sessions : WF_vars(s <= sessions /\ ~WriteMayBlock(s) /\ TaskStep(s))

-----------------------------------------------------------------------------
CarrierAt == {"none", "connecting", "up", "emit", "sending", "gone"}
TaskAt == {"none", "accepting", "announcing", "open", "reading", "ended", "leaving", "gone"}
BridgeOps == {"idle", "spawned", "register", "ready", "data", "disconnected", "gone"}
ListenerEvents ==
    [kind : {"established", "data", "disconnected"}, addr : Addrs, conn : Conns]
AppEvents == {"ready", "received", "sent", "disconnected"}
CarrierStates == [at : CarrierAt, ev : AppEvents \cup {"none"}, s : 0 .. MaxConns,
                  then : {"none", "up", "gone"}]
BridgeStates == [op : BridgeOps, s : 0 .. MaxConns, from : 0 .. MaxConns]

\* Every variable stays in its type and every channel within its capacity; a
\* session number is never beyond the connections there were.
TypeOK ==
    /\ conns \in 0 .. MaxConns /\ addr \in [Conns -> Addrs \cup {0}]
    /\ table \in [Addrs -> 0 .. MaxConns] /\ task \in [Conns -> TaskAt]
    /\ data \in 0 .. MaxData /\ sends \in 0 .. MaxSends
    /\ listenerEvents \in Seq(ListenerEvents) /\ Len(listenerEvents) <= ListenerCapacity
    /\ bridge \in BridgeStates
    /\ sessions \in 0 .. MaxConns /\ sessions <= conns
    /\ byAddr \in [Addrs -> 0 .. MaxConns] /\ peerInbound \in [Addrs -> 0 .. MaxConns]
    /\ bySession \in [Sessions -> Addrs \cup {0}] /\ connOf \in [Sessions -> 0 .. MaxConns]
    /\ carrier \in [Sessions -> CarrierStates]
    /\ closed \in [Sessions -> BOOLEAN] /\ inbound \in [Sessions -> Seq(Conns)]
    /\ \A s \in Sessions : Len(inbound[s]) <= QueueCapacity
    /\ outbound \in [Sessions -> 0 .. QueueCapacity]
    /\ open \in BOOLEAN /\ events \in 0 .. EventCapacity
    /\ heard \in [Sessions -> SUBSET AppEvents] /\ contended \subseteq Sessions

\* A carrier only ever gets plaintexts of the connection it was made for,
\* though the bridge routes them by address: an address is not listed again
\* before everything its connection said was sent on.
OwnPlaintexts ==
    /\ \A s \in Sessions : \A i \in 1 .. Len(inbound[s]) : inbound[s][i] = connOf[s]
    /\ bridge.op = "data" => bridge.from = connOf[bridge.s]

\* Unless the address was still in use when its peer came back: the
\* application hears of data of a session only after its Ready.
ReadyFirst ==
    \A s \in Sessions \ contended :
        heard[s] \cap {"received", "sent"} # {} => "ready" \in heard[s]

\* A session that session_for finds is one that peer_addr_for finds at the
\* same address, except inside register, whoever else registers or removes.
RegistryForward ==
    \A a \in Addrs : byAddr[a] # 0 =>
        bySession[byAddr[a]] = a \/ (bridge.op = "register" /\ bridge.s = byAddr[a])

\* With the exception of ReadyFirst, and as long as the server is not dropped: when a
\* connection has ended its session leaves the registry for good, is reported
\* disconnected, and its carrier ends.  It takes that no driver's writes wait for
\* ever: in the code they can, behind an accept_handshake that the peer never
\* finishes, or when the peer task, the bridge and the driver wait for room in each
\* other's queues.
EndedPeerLeaves ==
    \/ <>[](\E s \in 1 .. sessions : WriteMayBlock(s))
    \/ \A s \in Sessions :
          (s <= sessions /\ task[connOf[s]] = "gone") ~>
              \/ s \in contended \/ ~open
              \/ /\ s <= sessions /\ byAddr[AddrOf(s)] # s
                 /\ "disconnected" \in heard[s] /\ carrier[s].at = "gone"
===============================================================================
