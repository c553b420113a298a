---------------------------- MODULE CarrierHandshake ----------------------------
(***************************************************************************)
(* Connecting and closing a carrier connection: the two CarrierDriver      *)
(* tasks (carrier_thread.rs), the application's handles (carrier_impl.rs)  *)
(* with their command and event channels, and the system messages          *)
(* SM_CONNECT_REQUEST, SM_CONNECT_ACK and SM_DISCONNECT between them.      *)
(*                                                                         *)
(* System messages are unreliable and their channel never delivered a      *)
(* reliable one, so the reassembler lets each through as it arrives: the   *)
(* network loses and reorders them.  Application messages are left out.    *)
(* A driver is "idle" in select! between events, "draining" the socket or  *)
(* "handling" what it drained inside a NetworkData event (Receive+,        *)
(* Handle+, Flush), "closing" or "failing" while it waits to tell its      *)
(* owner that it carried out Disconnect or lost its transport, and         *)
(* "exited" when run() has returned.                                       *)
(***************************************************************************)
EXTENDS Integers, Sequences, SequencesExt

CONSTANTS Versions,       \* protocol versions an embedder may select
          CmdCapacity,    \* CMD_CAPACITY: 256 in the code
          EventCapacity,  \* EVENT_CAPACITY: 512 in the code
          MaxWire,        \* bound: messages in flight to one peer; more are dropped
          MaxBatch        \* bound: messages one NetworkData event drains

ASSUME CarrierHandshakeAssumption ==
    {CmdCapacity, EventCapacity, MaxWire, MaxBatch} \subseteq Nat \ {0}

VARIABLES
    version,     \* protocol_version of each peer
    driver,      \* where the driver task is
    connecting,  \* is_connecting
    flag,        \* shutdown_flag
    inbox,       \* system messages drained and not handled yet
    toSend,      \* replies queued during the event
    wire,        \* wire[n]: messages on their way to n
    cmds,        \* CarrierCommands (only Disconnect)
    events,      \* CarrierEvents
    app,         \* the application's handle
    closings     \* Disconnected events emitted, counted up to 2 (ghost)

vars == <<version, driver, connecting, flag, inbox, toSend, wire, cmds, events,
          app, closings>>

Initiator == "initiator"
Responder == "responder"
Peers == {Initiator, Responder}
Other(n) == IF n = Initiator THEN Responder ELSE Initiator

Messages == [kind : {"request", "ack", "disconnect"}, version : Versions]
Events == {"connected", "disconnected", "error"}
\* CarrierImpl<Connecting>, <Connected>, <Disconnecting>, and dropped.
AppStates == {"connecting", "connected", "disconnecting", "dropped"}

\* CarrierImpl::new and accept: start_with.
Init ==
    /\ version \in [Peers -> Versions]
    /\ driver = [n \in Peers |-> "idle"]
    /\ connecting = [n \in Peers |-> TRUE]
    /\ flag = [n \in Peers |-> FALSE]
    /\ inbox = [n \in Peers |-> << >>]
    /\ toSend = [n \in Peers |-> << >>]
    /\ wire = [n \in Peers |-> << >>]
    /\ cmds = [n \in Peers |-> << >>]
    /\ events = [n \in Peers |-> << >>]
    /\ app = [n \in Peers |-> "connecting"]
    /\ closings = [n \in Peers |-> 0]

\* send_pending_data: the messages ms leave for the other peer.
Transmit(n, ms) ==
    LET w == wire[Other(n)] \o ms
    IN  wire' = [wire EXCEPT ![Other(n)] = SubSeq(w, 1, IF Len(w) < MaxWire THEN Len(w)
                                                                          ELSE MaxWire)]

\* Mutant of Emit: the event channel has no capacity.
EmitUnbounded(n, e) ==
    IF app[n] = "dropped" THEN UNCHANGED events
    ELSE events' = [events EXCEPT ![n] = Append(@, e)]

\* Mutant of Emit: the channel stays open when the handle is dropped.
EmitKeptOpen(n, e) ==
    /\ Len(events[n]) < EventCapacity
    /\ events' = [events EXCEPT ![n] = Append(@, e)]

\* to_main_tx.send: waits for room; goes nowhere once the handle is dropped.
Emit(n, e) ==
    IF app[n] = "dropped" THEN UNCHANGED events
    ELSE /\ Len(events[n]) < EventCapacity
         /\ events' = [events EXCEPT ![n] = Append(@, e)]

CountedUp(k) == IF k < 2 THEN k + 1 ELSE k

-----------------------------------------------------------------------------
(* The driver: CarrierDriver::run.                                         *)

\* The head of the loop, after an event: the shutdown flag ends the task.
NextTurn(n) == IF flag[n] THEN "exited" ELSE "idle"

\* A timer fires and the flag was set while the driver waited in select!:
\* it ends, commands unread.  Without the flag the turn changes nothing.
Exit(n) ==
    /\ driver[n] = "idle" /\ flag[n]
    /\ driver' = [driver EXCEPT ![n] = "exited"]
    /\ UNCHANGED <<version, connecting, flag, inbox, toSend, wire, cmds, events, app,
                   closings>>

\* Event::HandshakeRetry: handle_handshake_retry.
HandshakeRetry ==
    /\ driver[Initiator] = "idle"
    /\ connecting[Initiator]
    /\ driver' = [driver EXCEPT ![Initiator] = NextTurn(Initiator)]
    /\ Transmit(Initiator, <<[kind |-> "request", version |-> version[Initiator]]>>)
    /\ UNCHANGED <<version, connecting, flag, inbox, toSend, cmds, events, app,
                   closings>>

\* Event::NetworkData: one datagram of the batch, not necessarily the oldest.
Receive(n, i) ==
    /\ driver[n] \in {"idle", "draining"}
    /\ Len(inbox[n]) < MaxBatch
    /\ inbox' = [inbox EXCEPT ![n] = Append(@, wire[n][i])]
    /\ wire' = [wire EXCEPT ![n] = RemoveAt(@, i)]
    /\ driver' = [driver EXCEPT ![n] = "draining"]
    /\ UNCHANGED <<version, connecting, flag, toSend, cmds, events, app, closings>>

\* Mutant of OnRequest: the version is not compared.
OnRequestAnyVersion(n, m) ==
    /\ toSend' = [toSend EXCEPT ![n] = Append(@, [kind |-> "ack", version |-> version[n]])]
    /\ connecting' = [connecting EXCEPT ![n] = FALSE]
    /\ Emit(n, "connected")
    /\ UNCHANGED <<flag, closings>>

\* Mutant of OnRequest: a repeated request is ignored once connected.
OnRequestFirstOnly(n, m) ==
    IF connecting[n]
    THEN OnRequestAnyVersion(n, m)
    ELSE UNCHANGED <<toSend, connecting, events, flag, closings>>

\* The SM_CONNECT_REQUEST arm: the responder only.
OnRequest(n, m) ==
    IF m.version = version[n]
    THEN /\ toSend' = [toSend EXCEPT ![n] = Append(@, [kind |-> "ack", version |-> version[n]])]
         /\ connecting' = [connecting EXCEPT ![n] = FALSE]
         /\ Emit(n, "connected")
         /\ UNCHANGED <<flag, closings>>
    ELSE /\ Emit(n, "error")
         /\ UNCHANGED <<toSend, connecting, flag, closings>>

\* The SM_CONNECT_ACK arm.
OnAck(n, m) ==
    /\ IF m.version = version[n]
       THEN /\ connecting' = [connecting EXCEPT ![n] = FALSE]
            /\ Emit(n, "connected")
       ELSE /\ Emit(n, "error")
            /\ UNCHANGED connecting
    /\ UNCHANGED <<toSend, flag, closings>>

\* Mutant of OnDisconnect: the driver goes on after the peer's SM_DISCONNECT.
OnDisconnectGoesOn(n) ==
    /\ closings' = [closings EXCEPT ![n] = CountedUp(@)]
    /\ Emit(n, "disconnected")
    /\ UNCHANGED <<toSend, connecting, flag>>

\* The SM_DISCONNECT arm: the flag takes effect at the next loop head.
OnDisconnect(n) ==
    /\ flag' = [flag EXCEPT ![n] = TRUE]
    /\ closings' = [closings EXCEPT ![n] = CountedUp(@)]
    /\ Emit(n, "disconnected")
    /\ UNCHANGED <<toSend, connecting>>

\* forward_messages, one system message: handle_system_message.
Handle(n) ==
    /\ driver[n] \in {"draining", "handling"}
    /\ inbox[n] # << >>
    /\ driver' = [driver EXCEPT ![n] = "handling"]
    /\ LET m == Head(inbox[n])
       IN  \/ m.kind = "request" /\ n = Responder /\ OnRequest(n, m)
           \/ /\ m.kind = "request" /\ n # Responder
              /\ UNCHANGED <<toSend, connecting, events, flag, closings>>
           \/ m.kind = "ack" /\ OnAck(n, m)
           \/ m.kind = "disconnect" /\ OnDisconnect(n)
    /\ inbox' = [inbox EXCEPT ![n] = Tail(@)]
    /\ UNCHANGED <<version, wire, cmds, app>>

\* send_pending_data at the end of the event.
Flush(n) ==
    /\ driver[n] = "handling"
    /\ inbox[n] = << >>
    /\ Transmit(n, toSend[n])
    /\ toSend' = [toSend EXCEPT ![n] = << >>]
    /\ driver' = [driver EXCEPT ![n] = NextTurn(n)]
    /\ UNCHANGED <<version, connecting, flag, inbox, cmds, events, app, closings>>

\* Event::NetworkData with an error that is not retryable: a fatal SSL error
\* of the initiator's own DTLS connection.  The responder reads from a queue,
\* whose only error, ConnectionClosed, counts as retryable and changes nothing.
TransportFails ==
    /\ driver[Initiator] = "idle"
    /\ driver' = [driver EXCEPT ![Initiator] = "failing"]
    /\ UNCHANGED <<version, connecting, flag, inbox, toSend, wire, cmds, events, app,
                   closings>>

\* The rest of handle_network_data: an Error to the owner, then the loop is
\* left without a Disconnected and without the flag.
Fail(n) ==
    /\ driver[n] = "failing"
    /\ Emit(n, "error")
    /\ driver' = [driver EXCEPT ![n] = "exited"]
    /\ UNCHANGED <<version, connecting, flag, inbox, toSend, wire, cmds, app, closings>>

\* Event::Command with CarrierCommand::Disconnect: SM_DISCONNECT leaves, once.
Command(n) ==
    /\ driver[n] = "idle"
    /\ cmds[n] # << >>
    /\ cmds' = [cmds EXCEPT ![n] = Tail(@)]
    /\ Transmit(n, <<[kind |-> "disconnect", version |-> version[n]]>>)
    /\ driver' = [driver EXCEPT ![n] = "closing"]
    /\ UNCHANGED <<version, connecting, flag, inbox, toSend, events, app, closings>>

\* The rest of the command: Disconnected to the owner, then the loop is left.
Close(n) ==
    /\ driver[n] = "closing"
    /\ Emit(n, "disconnected")
    /\ closings' = [closings EXCEPT ![n] = CountedUp(@)]
    /\ flag' = [flag EXCEPT ![n] = TRUE]
    /\ driver' = [driver EXCEPT ![n] = "exited"]
    /\ UNCHANGED <<version, connecting, inbox, toSend, wire, cmds, app>>

-----------------------------------------------------------------------------
(* The application's handle: CarrierImpl.                                  *)

\* Drop: try_send a Disconnect, set the flag.
DropHandle(n) ==
    /\ cmds' = [cmds EXCEPT ![n] = IF Len(@) < CmdCapacity /\ driver[n] # "exited"
                                   THEN Append(@, "disconnect") ELSE @]
    /\ flag' = [flag EXCEPT ![n] = TRUE]
    /\ app' = [app EXCEPT ![n] = "dropped"]

\* The owner reads an event: ready() while connecting, recv_message after.
\* Anything but Connected makes ready() return an error and drop the handle;
\* a connected owner drops it on Disconnected.
TakeEvent(n) ==
    /\ app[n] \in {"connecting", "connected"}
    /\ events[n] # << >>
    /\ events' = [events EXCEPT ![n] = Tail(@)]
    /\ \/ /\ Head(events[n]) = "connected"
          /\ app' = [app EXCEPT ![n] = "connected"]
          /\ UNCHANGED <<cmds, flag>>
       \/ /\ Head(events[n]) = "error" /\ app[n] = "connected"
          /\ UNCHANGED <<app, cmds, flag>>
       \/ /\ \/ Head(events[n]) = "disconnected"
             \/ Head(events[n]) = "error" /\ app[n] = "connecting"
          /\ DropHandle(n)
    /\ UNCHANGED <<version, driver, connecting, inbox, toSend, wire, closings>>

\* The event channel is closed and empty: ConnectionClosed.
TakeClosed(n) ==
    /\ app[n] \in {"connecting", "connected"}
    /\ events[n] = << >> /\ driver[n] = "exited"
    /\ DropHandle(n)
    /\ UNCHANGED <<version, driver, connecting, inbox, toSend, wire, events,
                   closings>>

\* CarrierImpl<Connected>::disconnect.
Disconnect(n) ==
    /\ app[n] = "connected"
    /\ Len(cmds[n]) < CmdCapacity
    /\ app' = [app EXCEPT ![n] = "disconnecting"]
    /\ cmds' = [cmds EXCEPT ![n] = IF driver[n] # "exited" THEN Append(@, "disconnect") ELSE @]
    /\ UNCHANGED <<version, driver, connecting, flag, inbox, toSend, wire, events,
                   closings>>

\* The owner lets go of a handle it has disconnected, or of any other.
Release(n) ==
    /\ app[n] # "dropped"
    /\ DropHandle(n)
    /\ UNCHANGED <<version, driver, connecting, inbox, toSend, wire, events,
                   closings>>

-----------------------------------------------------------------------------
Lose(n, i) ==
    /\ wire' = [wire EXCEPT ![n] = RemoveAt(@, i)]
    /\ UNCHANGED <<version, driver, connecting, flag, inbox, toSend, cmds, events, app,
                   closings>>

Next ==
    \/ HandshakeRetry
    \/ TransportFails
    \/ \E n \in Peers :
          \/ Exit(n) \/ Handle(n) \/ Flush(n) \/ Command(n) \/ Close(n)
          \/ Fail(n)
          \/ TakeEvent(n) \/ TakeClosed(n) \/ Disconnect(n) \/ Release(n)
          \/ \E i \in 1 .. Len(wire[n]) : Receive(n, i) \/ Lose(n, i)

Spec == Init /\ [][Next]_vars

\* Whether a message of this kind reaches n.
ReceiveKind(n, kind) ==
    \E i \in 1 .. Len(wire[n]) : wire[n][i].kind = kind /\ Receive(n, i)

\* The drivers and the owners of the handles keep running; a message sent
\* again and again is not lost for ever.
FairSpec ==
    /\ Spec
    /\ WF_vars(HandshakeRetry)
    /\ \A n \in Peers :
          /\ WF_vars(Exit(n)) /\ WF_vars(Handle(n)) /\ WF_vars(Flush(n))
          /\ WF_vars(Close(n)) /\ WF_vars(Fail(n))
          /\ WF_vars(TakeEvent(n)) /\ WF_vars(TakeClosed(n))
    /\ SF_vars(ReceiveKind(Responder, "request"))
    /\ SF_vars(ReceiveKind(Initiator, "ack"))

-----------------------------------------------------------------------------
\* Every variable stays in its type.
TypeOK ==
    /\ version \in [Peers -> Versions]
    /\ driver \in [Peers -> {"idle", "draining", "handling", "closing", "failing", "exited"}]
    /\ connecting \in [Peers -> BOOLEAN] /\ flag \in [Peers -> BOOLEAN]
    /\ inbox \in [Peers -> Seq(Messages)] /\ toSend \in [Peers -> Seq(Messages)]
    /\ wire \in [Peers -> Seq(Messages)] /\ cmds \in [Peers -> Seq({"disconnect"})]
    /\ events \in [Peers -> Seq(Events)]
    /\ \A n \in Peers : /\ Len(wire[n]) <= MaxWire /\ Len(cmds[n]) <= CmdCapacity
                        /\ Len(events[n]) <= EventCapacity
    /\ app \in [Peers -> AppStates]
    /\ closings \in [Peers -> 0 .. 2]

\* Nobody is connected alone or to another version: a handle that is
\* connected has a peer that left the connecting phase or accepted the
\* request, and both run the same protocol version.
ConnectedAgree ==
    \A n \in Peers : ~connecting[n] =>
        /\ version[Initiator] = version[Responder]
        /\ ~connecting[Responder]

\* Each owner is told at most once that the connection is over, whoever
\* closes it first and however the two closings cross.
DisconnectedOnce == \A n \in Peers : closings[n] <= 1

\* Between two peers that run this code the initiator's retries get the connection
\* up: with equal versions both drivers leave the connecting phase unless someone
\* lets go of a handle or a transport fails.  It rests on the responder answering
\* every request anew (the comment in handle_system_message has it ignore duplicates),
\* for its SM_CONNECT_ACK is unreliable and may be lost.  queue_connect_ack's comment
\* asks for a reliable one, without which the launcher was seen not to go on: what
\* that peer does with the answer of this code is not in the model.
HandshakeCompletes ==
    <>(\/ \A n \in Peers : ~connecting[n]
       \/ version[Initiator] # version[Responder]
       \/ \E n \in Peers : \/ app[n] \in {"disconnecting", "dropped"}
                            \/ driver[n] = "failing")

\* A driver whose handle is dropped ends.
DroppedDriverExits ==
    \A n \in Peers : (app[n] = "dropped") ~> (driver[n] = "exited")
===============================================================================
