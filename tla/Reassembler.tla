----------------------------- MODULE Reassembler -----------------------------
(***************************************************************************)
(* carrier/reassembler.rs fed by the numbering half of the sender          *)
(* (queue_message, connection_state.rs) through a network that loses,      *)
(* duplicates, delays and reorders frames.                                 *)
(*                                                                         *)
(* Payload bytes are abstracted to the absolute index of a frame: `abs' of *)
(* a reliable frame is its rank among the reliable frames of its channel,  *)
(* `abs' of an unreliable one the rank of the reliable frame queued before *)
(* it.  No guard below reads it except InWindow, the assumption on the     *)
(* network; the code only ever sees relSeq, its residue.                   *)
(***************************************************************************)
EXTENDS Reassembly

CONSTANTS NumChannels,  \* MAX_CHANNELS in the code (4)
          MaxReliable,  \* bound: reliable frames queued on one channel
          MaxChunks,    \* bound: chunks of one message
          MaxHeld       \* bound: frames staged plus messages delivered, per channel

ASSUME ReassemblerAssumption ==
    /\ NumChannels \in Nat \ {0}
    /\ MaxReliable \in Nat
    /\ MaxChunks \in Nat \ {0}
    /\ MaxHeld \in Nat

VARIABLES
    sendRel,     \* sendRel[c]: send_reliable_seq_num of the sender
    sentAbs,     \* sentAbs[c]: reliable frames queued so far (ghost)
    messages,    \* messages[c]: the ranges of abs that are one message (ghost)
    wire,        \* wire[c]: frames the network may deliver, any number of times
    staging,     \* staging[c]: frames accepted and not delivered
    receivedRel, \* receivedRel[c]: received_reliable_seq_num
    cursor,      \* the channel of the live Drain; NumChannels: no live Drain
    delivered    \* delivered[c]: what drain() yielded, in order (ghost)

vars == <<sendRel, sentAbs, messages, wire, staging, receivedRel, cursor,
          delivered>>

Channels == 0 .. NumChannels - 1

\* A frame.  sentAt (ghost, set on arrival) is sentAbs at that moment.
Frame == [reliable : BOOLEAN, relSeq : SeqNums, numChunks : Nat \ {0},
          abs : Nat, sentAt : Nat]

\* A message handed out: the abs of each frame its payload was put together
\* from, and the reliable frame that was the last delivered before it.
Delivery == [reliable : BOOLEAN, frames : Seq(Nat), after : Nat]

Message == [from : Nat, to : Nat]

\* The reliable frame delivered last (0: none), from a delivery history.
LastOf(history) ==
    IF history = << >> THEN 0
    ELSE LET d == history[Len(history)]
         IN  IF d.reliable THEN d.frames[Len(d.frames)] ELSE d.after

LastAbs(c) == LastOf(delivered[c])

-----------------------------------------------------------------------------
\* ConnectionState::with_protocol_profile and Reassembler::new: every counter
\* starts at the sentinel, so the first reliable frame is number 0.
Init ==
    /\ sendRel = [c \in Channels |-> SeqMax]
    /\ sentAbs = [c \in Channels |-> 0]
    /\ messages = [c \in Channels |-> {}]
    /\ wire = [c \in Channels |-> {}]
    /\ staging = [c \in Channels |-> << >>]
    /\ receivedRel = [c \in Channels |-> SeqMax]
    /\ cursor = NumChannels
    /\ delivered = [c \in Channels |-> << >>]

\* The frames queue_message makes of a reliable message of n chunks:
\* queue_message_chunk counts num_chunks down and numbers each frame.
ChunkFrames(c, n) ==
    { [reliable |-> TRUE, relSeq |-> (sendRel[c] + i) % SeqSpan,
       numChunks |-> n - i + 1, abs |-> sentAbs[c] + i, sentAt |-> 0]
      : i \in 1 .. n }

\* Mutant of QueueReliable: the counter does not wrap.
QueueReliableNoWrap(c, n) ==
    /\ sentAbs[c] + n <= MaxReliable
    /\ wire' = [wire EXCEPT ![c] = @ \cup ChunkFrames(c, n)]
    /\ sendRel' = [sendRel EXCEPT ![c] = @ + n]
    /\ sentAbs' = [sentAbs EXCEPT ![c] = @ + n]
    /\ messages' = [messages EXCEPT
                      ![c] = @ \cup {[from |-> sentAbs[c] + 1,
                                      to |-> sentAbs[c] + n]}]
    /\ UNCHANGED <<staging, receivedRel, cursor, delivered>>

\* queue_message of a reliable message of n chunks.
QueueReliable(c, n) ==
    /\ sentAbs[c] + n <= MaxReliable
    /\ wire' = [wire EXCEPT ![c] = @ \cup ChunkFrames(c, n)]
    /\ sendRel' = [sendRel EXCEPT ![c] = (@ + n) % SeqSpan]
    /\ sentAbs' = [sentAbs EXCEPT ![c] = @ + n]
    /\ messages' = [messages EXCEPT
                      ![c] = @ \cup {[from |-> sentAbs[c] + 1,
                                      to |-> sentAbs[c] + n]}]
    /\ UNCHANGED <<staging, receivedRel, cursor, delivered>>

\* An unreliable message is one frame stamped with the current reliable id.
QueueUnreliable(c) ==
    /\ wire' = [wire EXCEPT
                  ![c] = @ \cup {[reliable |-> FALSE, relSeq |-> sendRel[c],
                                  numChunks |-> 1, abs |-> sentAbs[c],
                                  sentAt |-> 0]}]
    /\ UNCHANGED <<sendRel, sentAbs, messages, staging, receivedRel, cursor,
                   delivered>>

\* The network assumption: a frame is delivered before SeqSpan - 1 newer
\* reliable frames were queued behind it, and no frame arrives
\* SeqSpan or more reliable frames ahead of what was delivered.  With u16
\* ids: the two peers never drift 65535 reliable frames apart on a channel.
InWindow(c, f) ==
    /\ sentAbs[c] - f.abs < SeqSpan - 1
    /\ f.abs - LastAbs(c) < SeqSpan

\* Reassembler::accept.  A live Drain borrows the reassembler, so accept
\* runs only when there is none.
Accept(c, f) ==
    /\ cursor = NumChannels
    /\ InWindow(c, f)
    /\ Len(staging[c]) + Len(delivered[c]) < MaxHeld
    /\ staging' = [staging EXCEPT ![c] = Append(@, [f EXCEPT !.sentAt = sentAbs[c]])]
    /\ UNCHANGED <<sendRel, sentAbs, messages, wire, receivedRel, cursor,
                   delivered>>

\* Reassembler::drain.
StartDrain ==
    /\ cursor = NumChannels
    /\ cursor' = 0
    /\ UNCHANGED <<sendRel, sentAbs, messages, wire, staging, receivedRel,
                   delivered>>

\* Drain::next when next_ready yields a message on the current channel.
DrainNext(c) ==
    /\ cursor = c
    /\ HeadReady(staging[c], receivedRel[c])
    /\ staging' = [staging EXCEPT ![c] = StagingAfter(@)]
    /\ receivedRel' = [receivedRel EXCEPT ![c] = LastAfter(staging[c], @)]
    /\ delivered' = [delivered EXCEPT ![c] = Append(@,
          [reliable |-> Head(staging[c]).reliable,
           frames |-> [i \in 1 .. FramesTaken(staging[c]) |-> staging[c][i].abs],
           after |-> LastAbs(c)])]
    /\ UNCHANGED <<sendRel, sentAbs, messages, wire, cursor>>

\* Drain::next when the channel has nothing deliverable: on to the next.
DrainSkip(c) ==
    /\ cursor = c
    /\ ~HeadReady(staging[c], receivedRel[c])
    /\ cursor' = c + 1
    /\ UNCHANGED <<sendRel, sentAbs, messages, wire, staging, receivedRel,
                   delivered>>

Next ==
    \/ \E c \in Channels, n \in 1 .. MaxChunks : QueueReliable(c, n)
    \/ \E c \in Channels : QueueUnreliable(c)
    \/ \E c \in Channels : \E f \in wire[c] : Accept(c, f)
    \/ StartDrain
    \/ \E c \in Channels : DrainNext(c)
    \/ \E c \in Channels : DrainSkip(c)

Spec == Init /\ [][Next]_vars

-----------------------------------------------------------------------------
\* Every variable stays in its type.
TypeOK ==
    /\ sendRel \in [Channels -> SeqNums]
    /\ sentAbs \in [Channels -> Nat]
    /\ messages \in [Channels -> SUBSET Message]
    /\ wire \in [Channels -> SUBSET Frame]
    /\ staging \in [Channels -> Seq(Frame)]
    /\ receivedRel \in [Channels -> SeqNums]
    /\ cursor \in 0 .. NumChannels
    /\ delivered \in [Channels -> Seq(Delivery)]

\* A delivery is exactly the message m: its frames, all of them, in order.
IsMessage(d, m) ==
    /\ Len(d.frames) = m.to - m.from + 1
    /\ \A k \in 1 .. Len(d.frames) : d.frames[k] = m.from + k - 1

\* Whatever the network loses, duplicates, delays or reorders, what drain()
\* yields as reliable is the sequence of reliable messages the peer queued
\* with none skipped, repeated, torn apart or merged: each is one whole
\* message and starts at the frame after the last one delivered.
ReliableInOrder ==
    \A c \in Channels : \A i \in 1 .. Len(delivered[c]) :
        delivered[c][i].reliable =>
            \E m \in messages[c] : /\ m.from = delivered[c][i].after + 1
                                   /\ IsMessage(delivered[c][i], m)

\* The ordering gate for unreliable messages: one is delivered exactly when
\* the reliable message queued before it is the last delivered, neither
\* earlier nor later, except while the reliable counter is at the sentinel
\* value (nothing delivered yet, or a multiple of SeqSpan delivered).
UnreliableGated ==
    \A c \in Channels : \A i \in 1 .. Len(delivered[c]) :
        LET d == delivered[c][i]
        IN  ~d.reliable => d.after % SeqSpan = 0 \/ d.frames[1] = d.after
===============================================================================
