------------------------------ MODULE CarrierLink ------------------------------
(***************************************************************************)
(* One direction of a carrier connection, end to end: the retransmission   *)
(* logic of the sending ConnectionState, the network, the receive pipeline *)
(* of the peer (decode, per-channel staging, duplicate check, drain) and   *)
(* the ACK frames it sends back.                                           *)
(*                                                                         *)
(* Each peer is one CarrierDriver task (carrier_thread.rs) that handles    *)
(* one event at a time.  A NetworkData event is a batch: any number of     *)
(* datagrams (Receive, ReceiveAckFrame), then the end of the event         *)
(* (FinishPeer, FinishSender); the other peer and the network move in      *)
(* between.                                                                *)
(*                                                                         *)
(* Every datagram carries an ACK frame of the opposite direction.  Those   *)
(* in the peer's datagrams are `ackNet'; the numbers of the peer's own     *)
(* datagrams and the sender's ACKs of them are left out: they hold no      *)
(* reliable message, so nothing of them is ever sent again.  The messages  *)
(* are those of one channel and one priority.  Frames are of one size, and *)
(* a datagram has room for Capacity of them besides its ACK frame.         *)
(***************************************************************************)
EXTENDS AckHistory, Reassembly

CONSTANTS Capacity,       \* frames of a datagram
          MaxFrames,      \* bound: frames queued
          MaxChunks,      \* bound: chunks of one message
          MaxNet,         \* bound: datagrams in flight when a message is queued
          MaxLosses,      \* bound: datagrams, ACK frames and writes that fail
          MaxExtras,      \* bound: unreliable messages queued and datagrams given up
                          \* although still under way, together
          MaxFaults       \* bound: losses and extras together

\* The sender starts at number 1, which has to be within half of the sequence space.
ASSUME CarrierLinkAssumption ==
    /\ SeqSpan >= 4
    /\ {Capacity, MaxChunks, MaxNet} \subseteq Nat \ {0}
    /\ {MaxFrames, MaxLosses, MaxExtras, MaxFaults} \subseteq Nat

VARIABLES
    sendRel,     \* send_reliable_seq_num of the channel
    sent,        \* the reliable messages queued, each the tuple of its frames (ghost)
    unreliables, \* unreliable messages queued (ghost, for the bound)
    toSend,      \* to_send of the channel's priority
    dgramSeq,    \* datagram_seq_num
    sendDgrams,  \* send_datagrams: number and reliable frames of each
    senderBusy,  \* the sender is inside a NetworkData event
    net,         \* datagrams in flight, oldest first
    peerHistory, \* the peer's received_datagrams_history
    staging,     \* the peer's staging queue of the channel
    receivedRel, \* the peer's received_reliable_seq_num
    toReceive,   \* the peer's to_receive: messages of this event
    received,    \* reliable messages forwarded to the peer's application
    peerBusy,    \* the peer is inside a NetworkData event
    ackNet,      \* ACK frames in flight, oldest first
    losses,      \* losses so far (for the bound)
    delays       \* premature timeouts so far (for the bound)

senderVars == <<sendRel, sent, unreliables, toSend, dgramSeq, sendDgrams>>
peerVars == <<peerHistory, staging, receivedRel, toReceive, received>>
linkVars == <<senderVars, senderBusy, net, peerVars, peerBusy, ackNet, losses, delays>>

\* What the bounds allow: one more loss, n more extras.
MayLose == losses < MaxLosses /\ losses + unreliables + delays < MaxFaults
MayAdd(n) == /\ unreliables + delays + n <= MaxExtras
             /\ losses + unreliables + delays + n <= MaxFaults

Min2(a, b) == IF a < b THEN a ELSE b

\* The reliable frames queued so far: their ranks are 1, 2, ...
NumFrames == IF sent = << >> THEN 0
             ELSE LET m == sent[Len(sent)] IN m[Len(m)]

\* with_protocol_profile: the first datagram is number 2, the first reliable
\* frame number 0.
LinkInit ==
    /\ sendRel = SeqMax
    /\ sent = << >>
    /\ unreliables = 0
    /\ toSend = << >>
    /\ dgramSeq = 1
    /\ sendDgrams = << >>
    /\ senderBusy = FALSE
    /\ net = << >>
    /\ peerHistory = NewHistory
    /\ staging = << >>
    /\ receivedRel = SeqMax
    /\ toReceive = << >>
    /\ received = << >>
    /\ peerBusy = FALSE
    /\ ackNet = << >>
    /\ losses = 0
    /\ delays = 0

-----------------------------------------------------------------------------
(* The sending side.                                                       *)

\* queue_message of a reliable message of n chunks: num_chunks counts down.
\* A frame's payload is its rank.
ReliableFrames(n) ==
    [i \in 1 .. n |-> [reliable |-> TRUE, relSeq |-> (sendRel + i) % SeqSpan,
                       numChunks |-> n - i + 1, rank |-> NumFrames + i]]

\* queue_message of an unreliable one: stamped with the current reliable id.
UnreliableFrame == [reliable |-> FALSE, relSeq |-> sendRel, numChunks |-> 1,
                    rank |-> NumFrames]

\* Mutant of Datagrams: one goes out only when the queue holds more than it takes.
DatagramsButLast(q, ackDue) ==
    [i \in 1 .. (Len(q) - 1) \div Capacity |-> SubSeq(q, (i - 1) * Capacity + 1, i * Capacity)]

\* The datagrams prepare_outgoing_datagram makes of the queue q when called
\* until it returns None; ackDue: an ACK frame is to go out, in the first.
Datagrams(q, ackDue) ==
    IF q = << >> THEN IF ackDue THEN << << >> >> ELSE << >>
    ELSE [i \in 1 .. (Len(q) + Capacity - 1) \div Capacity |->
             SubSeq(q, (i - 1) * Capacity + 1, Min2(i * Capacity, Len(q)))]

\* The first n of the datagrams, numbered.
Numbered(ds, n) ==
    [i \in 1 .. n |-> [seq |-> (dgramSeq + i) % SeqSpan, frames |-> ds[i]]]

\* The elements of q at the positions in kept, in their order.
Filtered(q, kept) ==
    LET run[n \in 0 .. Len(q)] ==
            IF n = 0 THEN << >>
            ELSE IF n \in kept THEN Append(run[n - 1], q[n]) ELSE run[n - 1]
    IN  run[Len(q)]

\* The frames prepare_outgoing_datagram copies into to_resend.
Reliables(q) == Filtered(q, {i \in 1 .. Len(q) : q[i].reliable})

\* The same datagrams as they are kept for a resend.
Recorded(ds, n) ==
    [i \in 1 .. n |-> [Numbered(ds, n)[i] EXCEPT !.frames = Reliables(@)]]

\* The numbers that both ends still go by: of the datagrams ds0 kept by the sender,
\* of those in flight, of the slots of the ring and of the ACK frames in flight.
NumbersInUse(ds0) ==
    {ds0[i].seq : i \in 1 .. Len(ds0)}
      \cup {net[i].seq : i \in 1 .. Len(net)}
      \cup {peerHistory.el[i].seq : i \in Slots}
      \cup {ackNet[i].last : i \in {j \in 1 .. Len(ackNet) : ackNet[j].kind # "keepalive"}}

\* Time enters only here: half of the sequence space is not sent while one of
\* them is in use.  In the code the timeout of one second, not a window, sees to
\* it, for the ring the 64 rounds of it that are half of the sequence space.
InTime(used, n) ==
    \A s \in used : SeqDist(s, dgramSeq) + n < SeqSpan \div 2

\* send_pending_data from the queue q with the datagrams ds0 already
\* recorded.  Either everything is written, or the write of one datagram
\* fails and ends the loop: it is recorded as sent, the rest stays queued.
SendPendingData(q, ds0, ackDue) ==
    LET ds == Datagrams(q, ackDue)
        used == NumbersInUse(ds0)
    IN  \E written \in 0 .. Len(ds) :
          LET recorded == Min2(written + 1, Len(ds))
          IN  /\ written < Len(ds) => MayLose
              /\ InTime(used, recorded)
              /\ losses' = IF written < Len(ds) THEN losses + 1 ELSE losses
              /\ net' = net \o Numbered(ds, written)
              /\ sendDgrams' = ds0 \o Recorded(ds, recorded)
              /\ dgramSeq' = (dgramSeq + recorded) % SeqSpan
              /\ toSend' = SubSeq(q, recorded * Capacity + 1, Len(q))

\* Nothing under way can still acknowledge the datagram d: it was lost, or
\* it arrived and the peer's last ACK of it was lost.
Overdue(d) ==
    /\ \A i \in 1 .. Len(net) : net[i].seq # d.seq
    /\ \A i \in 1 .. Len(ackNet) : ~IsAcked(ackNet[i], d.seq)
    /\ \A i \in ValidSlots(peerHistory) : peerHistory.el[i].seq # d.seq

\* The positions of the datagrams whose timeout would be premature.
Early == {i \in 1 .. Len(sendDgrams) : ~Overdue(sendDgrams[i])}

\* process_resends: the n oldest datagrams have timed out.  Their reliable
\* frames go back to the front of the queue, one datagram after the other.
\* A datagram that is not overdue timed out because the network or the peer
\* took more than a second.
Resent(n) ==
    LET front[i \in 0 .. n] ==
            IF i = 0 THEN toSend ELSE sendDgrams[i].frames \o front[i - 1]
    IN  front[n]

\* Mutant of ProcessResends: nothing ever times out.
NoResends(n, early) == n = 0 /\ delays' = delays

\* That n datagrams may time out now, and what it costs: early is Early.
ProcessResends(n, early) ==
    LET premature == Cardinality(early \cap 1 .. n)
    IN  /\ premature > 0 => MayAdd(premature)
        /\ delays' = delays + premature

\* CarrierCommand::SendMessage: queue_message, then send_pending_data.
SendReliable(n) ==
    /\ ~senderBusy
    /\ Len(net) < MaxNet
    /\ NumFrames + unreliables + n <= MaxFrames
    /\ sendRel' = (sendRel + n) % SeqSpan
    /\ sent' = Append(sent, [i \in 1 .. n |-> NumFrames + i])
    /\ SendPendingData(toSend \o ReliableFrames(n), sendDgrams, FALSE)
    /\ UNCHANGED <<unreliables, senderBusy, peerVars, peerBusy, ackNet, delays>>

SendUnreliable ==
    /\ ~senderBusy
    /\ Len(net) < MaxNet
    /\ NumFrames + unreliables < MaxFrames
    /\ MayAdd(1)
    /\ unreliables' = unreliables + 1
    /\ SendPendingData(Append(toSend, UnreliableFrame), sendDgrams, FALSE)
    /\ UNCHANGED <<sendRel, sent, senderBusy, peerVars, peerBusy, ackNet, delays>>

\* A datagram of the peer arrives: its ACK frame is applied (read_ack_data).
\* A NACK only makes a datagram time out earlier.
ReceiveAckFrame ==
    /\ ackNet # << >>
    /\ sendDgrams' =
          Filtered(sendDgrams, {i \in 1 .. Len(sendDgrams) :
                                   ~IsAcked(Head(ackNet), sendDgrams[i].seq)})
    /\ ackNet' = Tail(ackNet)
    /\ senderBusy' = TRUE
    /\ UNCHANGED <<sendRel, sent, unreliables, toSend, dgramSeq, net, peerVars,
                   peerBusy, losses, delays>>

\* The end of the sender's NetworkData event: process_resends, then
\* send_pending_data, which has the peer's datagrams to acknowledge.
FinishSender ==
    /\ senderBusy
    /\ \E early \in {Early} : \E n \in 0 .. Len(sendDgrams) :
          /\ ProcessResends(n, early)
          /\ SendPendingData(Resent(n), SubSeq(sendDgrams, n + 1, Len(sendDgrams)), TRUE)
    /\ senderBusy' = FALSE
    /\ UNCHANGED <<sendRel, sent, unreliables, peerVars, peerBusy, ackNet>>

\* An AckCheck or Heartbeat of the sender when a datagram timed out or a
\* failed write left messages behind.
SenderTimer ==
    /\ ~senderBusy
    /\ \E early \in {Early} : \E n \in 0 .. Len(sendDgrams) :
          /\ n > 0 \/ toSend # << >>
          /\ ProcessResends(n, early)
          /\ SendPendingData(Resent(n), SubSeq(sendDgrams, n + 1, Len(sendDgrams)), FALSE)
    /\ UNCHANGED <<sendRel, sent, unreliables, senderBusy, peerVars, peerBusy, ackNet>>

\* The same events when the link has been quiet for 100 ms: an ACK frame is
\* due although nothing arrived.
SenderHeartbeat ==
    /\ ~senderBusy
    /\ net = << >> /\ ackNet = << >> /\ ~peerBusy
    /\ SendPendingData(toSend, sendDgrams, TRUE)
    /\ UNCHANGED <<sendRel, sent, unreliables, senderBusy, peerVars, peerBusy, ackNet,
                   delays>>

-----------------------------------------------------------------------------
(* The receiving side.                                                     *)

\* One call of next_ready and push_back of what it returns.
DrainNext(r) ==
    IF HeadReady(r.staging, r.last)
    THEN [staging |-> StagingAfter(r.staging),
          last |-> LastAfter(r.staging, r.last),
          out |-> Append(r.out, SubSeq(r.staging, 1, FramesTaken(r.staging)))]
    ELSE r

\* Drain: next_ready until it returns None.
Drained(q, last) ==
    LET run[n \in 0 .. Len(q)] ==
            IF n = 0 THEN [staging |-> q, last |-> last, out |-> << >>]
            ELSE DrainNext(run[n - 1])
    IN  run[Len(q)]

\* process_incoming_datagram.  feed stages the frames before insert finds
\* out that the datagram is a duplicate; then they stay staged, undrained.
Receive ==
    /\ net # << >>
    /\ LET d == Head(net)
           fed == staging \o d.frames
           r == Drained(fed, receivedRel)
           fresh == ~IsDuplicate(peerHistory, d.seq)
       IN  /\ peerHistory' = Insert(peerHistory, d.seq)
           /\ staging' = IF fresh THEN r.staging ELSE fed
           /\ receivedRel' = IF fresh THEN r.last ELSE receivedRel
           /\ toReceive' = IF fresh THEN toReceive \o r.out ELSE toReceive
    /\ net' = Tail(net)
    /\ peerBusy' = TRUE
    /\ UNCHANGED <<senderVars, senderBusy, received, ackNet, losses, delays>>

\* write_ack_data into the peer's next datagram.
WriteAck ==
    LET w == WriteAckHistory(peerHistory)
    IN  peerHistory' = w.h /\ ackNet' = Append(ackNet, w.ack)

\* The end of the peer's NetworkData event: forward_messages hands what was
\* drained to the application, send_pending_data answers with an ACK.
FinishPeer ==
    /\ peerBusy
    /\ LET reliable == Filtered(toReceive, {i \in 1 .. Len(toReceive) :
                                                toReceive[i][1].reliable})
       IN  received' = received \o
             [k \in 1 .. Len(reliable) |->
                [i \in 1 .. Len(reliable[k]) |-> reliable[k][i].rank]]
    /\ toReceive' = << >>
    /\ WriteAck
    /\ peerBusy' = FALSE
    /\ UNCHANGED <<senderVars, senderBusy, net, staging, receivedRel, losses, delays>>

\* The peer's Heartbeat on a link that has been quiet for 100 ms.
PeerHeartbeat ==
    /\ ~peerBusy
    /\ net = << >> /\ ackNet = << >> /\ ~senderBusy
    /\ WriteAck
    /\ UNCHANGED <<senderVars, senderBusy, net, staging, receivedRel, toReceive,
                   received, peerBusy, losses, delays>>

-----------------------------------------------------------------------------
(* The network loses datagrams of both directions.                         *)

LoseDatagram ==
    /\ net # << >> /\ MayLose
    /\ net' = Tail(net)
    /\ losses' = losses + 1
    /\ UNCHANGED <<senderVars, senderBusy, peerVars, peerBusy, ackNet, delays>>

LoseAckFrame ==
    /\ ackNet # << >> /\ MayLose
    /\ ackNet' = Tail(ackNet)
    /\ losses' = losses + 1
    /\ UNCHANGED <<senderVars, senderBusy, net, peerVars, peerBusy, delays>>

LinkNext ==
    \/ \E n \in 1 .. MaxChunks : SendReliable(n)
    \/ SendUnreliable
    \/ ReceiveAckFrame
    \/ FinishSender
    \/ SenderTimer
    \/ SenderHeartbeat
    \/ Receive
    \/ FinishPeer
    \/ PeerHeartbeat
    \/ LoseDatagram
    \/ LoseAckFrame

LinkSpec == LinkInit /\ [][LinkNext]_linkVars

SenderStep == ReceiveAckFrame \/ FinishSender

\* Receive, FinishPeer or PeerHeartbeat is enabled; the step is one of them.
PeerPending == net # << >> \/ peerBusy \/ (ackNet = << >> /\ ~senderBusy)
PeerStep == \/ Len(net') < Len(net) /\ losses' = losses
            \/ Len(ackNet') > Len(ackNet)

\* Both drivers keep taking turns while one of their events is pending: a
\* datagram that is not lost arrives, an event that began ends, the peer's
\* 100 ms timer fires.  Nobody has to send a message, and nothing has to be lost
\* or delayed; the sender's timers need not fire, for the peer's heartbeat
\* gives it events.  The second half is WF_linkVars(Receive \/ FinishPeer \/
\* PeerHeartbeat), spelled out.
FairSpec ==
    /\ LinkSpec
    /\ WF_linkVars(SenderStep)
    /\ []<>(~PeerPending) \/ []<><<PeerStep>>_linkVars

-----------------------------------------------------------------------------
\* The link implements the channel it promises: reliable messages reach the
\* application in order, once and whole, whatever is lost, retransmitted or
\* retransmitted without need.
Channel == INSTANCE ReliableChannel
              WITH Payloads <- {[i \in 1 .. n |-> k + i] : n \in 1 .. MaxChunks,
                                                           k \in 0 .. MaxFrames}
ImplementsChannel == Channel!Spec

FrameRanks(q) == {q[i].rank : i \in {j \in 1 .. Len(q) : q[j].reliable}}

\* The ranks the peer has received, delivered or not.
AtPeer ==
    FrameRanks(staging)
      \cup (UNION {FrameRanks(toReceive[i]) : i \in 1 .. Len(toReceive)})
      \cup (UNION {{received[i][j] : j \in 1 .. Len(received[i])} : i \in 1 .. Len(received)})

\* The ranks the sender still holds.
AtSender ==
    FrameRanks(toSend)
      \cup (UNION {FrameRanks(sendDgrams[i].frames) : i \in 1 .. Len(sendDgrams)})

\* The sender forgets a reliable frame only once the peer has it, whatever
\* datagrams, ACK frames and writes are lost: the ACK history claims no
\* datagram that did not arrive, and a failed write or a timeout never drops
\* a frame between to_send and send_datagrams.
RetainedUntilReceived == 1 .. NumFrames \subseteq AtSender \cup AtPeer

\* Every reliable message queued reaches the peer's application.
AllDelivered == <>[](received = sent)

\* The same as long as no datagram was lost or timed out too early.
DeliveredUnlessLost == <>[](losses = 0 /\ delays = 0 => received = sent)

\* Retransmission comes to an end: after the last message and the last loss
\* every reliable frame is acknowledged and the sender holds none.
SenderDrains == <>[](AtSender = {})
===============================================================================
