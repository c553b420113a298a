---------------------------- MODULE CarrierFrames ----------------------------
(***************************************************************************)
(* The bytes of a carrier datagram: message headers that leave out what    *)
(* the reader can infer from the frames before (carrier_thread.rs,         *)
(* message.rs), the packing of the send queues (connection_state.rs) and   *)
(* the walk over the frames (decoder.rs, datagram.rs).                     *)
(*                                                                         *)
(* LZ4 is external: a compressed payload stands here as what it is when it *)
(* has been decompressed, under the header that says so.                   *)
(***************************************************************************)
EXTENDS Wire, SeqNum

CONSTANTS Priorities,       \* PRIORITY_MAX
          MaxMessageData,   \* MAX_MESSAGE_DATA_SIZE
          MaxDatagram       \* MAX_DATAGRAM_SIZE

Channels == 0 .. 3          \* MAX_CHANNELS
SystemChannel == 3          \* SYSTEM_CHANNEL
HeaderSize == 4             \* DatagramHeader::SIZE

WriteU16(n) == WriteFixed(Bits(n), 2, "big")

-----------------------------------------------------------------------------
(* Queueing.  An endpoint is its counters by channel and its queues.       *)

\* ConnectionState::new.
NewEndpoint == [seq |-> [c \in Channels |-> 0], rel |-> [c \in Channels |-> 0],
                toSend |-> [p \in 0 .. Priorities - 1 |-> <<>>], datagram |-> 0]

\* queue_message_chunk: both numbers are given here; an unreliable message bears
\* the number of the last reliable one.
QueueChunk(e, m, priority, chunks) ==
    LET c == m.channel
        seq == NextSeq(e.seq[c])
        rel == IF m.reliable THEN NextSeq(e.rel[c]) ELSE e.rel[c]
        queued == [channel |-> c, reliable |-> m.reliable, connecting |-> m.connecting,
                   data |-> m.data, chunks |-> chunks, seq |-> seq, rel |-> rel]
    IN  [e EXCEPT !.seq[c] = seq, !.rel[c] = rel,
                  !.toSend[IF priority < Priorities THEN priority ELSE 0] = Append(@, queued)]

\* chunks_needed.
ChunksNeeded(size) == IF size <= MaxMessageData THEN 1 ELSE 1 + (size - 1) \div MaxMessageData

\* queue_message: chunk i of n says that n - i + 1 chunks are left and is reliable.
QueueMessage(e, m, priority) ==
    LET n == ChunksNeeded(Len(m.data))
        chunk(i) == [m EXCEPT !.reliable = TRUE,
                              !.data = SubSeq(m.data, (i - 1) * MaxMessageData + 1,
                                              IF i < n THEN i * MaxMessageData ELSE Len(m.data))]
    IN  IF n = 1 THEN QueueChunk(e, m, priority, 1)
        ELSE FoldLeft(LAMBDA f, i : QueueChunk(f, chunk(i), priority, n - i + 1), e,
                      [i \in 1 .. n |-> i])

-----------------------------------------------------------------------------
(* Writing.                                                                *)

\* write_message_header: w says which of seq, rel and channel are written.
WriteHeader(m, w) ==
    LET flags == (IF m.reliable THEN {0} ELSE {}) \cup (IF m.chunks > 1 THEN {2} ELSE {})
                 \cup (IF w.seq THEN {} ELSE {3}) \cup (IF w.rel THEN {} ELSE {4})
                 \cup (IF w.channel THEN {5} ELSE {}) \cup (IF m.connecting THEN {7} ELSE {})
    IN  <<flags>> \o WriteU16(Len(m.data))
        \o (IF w.channel THEN <<Bits(m.channel)>> ELSE <<>>)
        \o (IF m.chunks > 1 THEN WriteU16(m.chunks) ELSE <<>>)
        \o (IF w.seq THEN WriteU16(m.seq) ELSE <<>>)
        \o (IF w.rel THEN WriteU16(m.rel) ELSE <<>>)

\* message_header_size.
MessageHeaderSize(m, w) ==
    3 + (IF w.channel THEN 1 ELSE 0) + (IF m.chunks > 1 THEN 2 ELSE 0)
      + (IF w.seq THEN 2 ELSE 0) + (IF w.rel THEN 2 ELSE 0)

\* OutgoingDataGramContext, and what has been written under it.  slipped records
\* that the channel was changed for a message that was left behind.
NewContext(toSend) ==
    [channel |-> 0, firstSeq |-> {}, firstRel |-> {}, lastSeq |-> [c \in Channels |-> 0],
     lastRel |-> [c \in Channels |-> 0], payload |-> <<>>, frames |-> <<>>, toSend |-> toSend,
     slipped |-> FALSE]

\* What of m's header is written.
Written(ctx, m) ==
    [channel |-> m.channel # ctx.channel,
     seq |-> m.channel \notin ctx.firstSeq \/ SeqDist(ctx.lastSeq[m.channel], m.seq) # 1,
     rel |-> \/ m.channel \notin ctx.firstRel \/ ~m.reliable
             \/ SeqDist(ctx.lastRel[m.channel], m.rel) # 1]

\* Mutant of Considered: of the numbers, that of the last frame is not kept.
ConsideredStale(ctx, p) ==
    LET m == Head(ctx.toSend[p])
        w == Written(ctx, m)
        seen == [ctx EXCEPT !.channel = m.channel, !.firstSeq = @ \cup {m.channel},
                            !.firstRel = @ \cup {m.channel}]
    IN  IF Len(m.data) + MessageHeaderSize(m, w) > MaxDatagram - HeaderSize - Len(ctx.payload)
        THEN [fits |-> FALSE, ctx |-> [seen EXCEPT !.slipped = @ \/ w.channel]]
        ELSE [fits |-> TRUE,
              ctx |-> [seen EXCEPT !.toSend[p] = Tail(@), !.payload = @ \o WriteHeader(m, w) \o m.data,
                                   !.frames = Append(@, m)]]

\* One turn of the loop of prepare_outgoing_datagram: the context follows the
\* message before it is known to fit.
Considered(ctx, p) ==
    LET m == Head(ctx.toSend[p])
        w == Written(ctx, m)
        seen == [ctx EXCEPT !.channel = m.channel, !.firstSeq = @ \cup {m.channel},
                            !.firstRel = @ \cup {m.channel}]
    IN  IF Len(m.data) + MessageHeaderSize(m, w) > MaxDatagram - HeaderSize - Len(ctx.payload)
        THEN [fits |-> FALSE, ctx |-> [seen EXCEPT !.slipped = @ \/ w.channel]]
        ELSE [fits |-> TRUE,
              ctx |-> [seen EXCEPT !.toSend[p] = Tail(@), !.payload = @ \o WriteHeader(m, w) \o m.data,
                                   !.frames = Append(@, m), !.lastSeq[m.channel] = m.seq,
                                   !.lastRel[m.channel] = m.rel]]

\* The loops: from priority p on, until a queue is empty or its head does not fit.
RECURSIVE PackFrom(_, _)
PackFrom(ctx, p) ==
    IF p = Priorities THEN ctx
    ELSE IF ctx.toSend[p] = <<>> THEN PackFrom(ctx, p + 1)
    ELSE LET turn == Considered(ctx, p)
         IN  PackFrom(turn.ctx, IF turn.fits THEN p ELSE p + 1)

\* Whether a user message waits, the condition of compression.
HasUserMessages(e) ==
    \E p \in DOMAIN e.toSend : \E i \in 1 .. Len(e.toSend[p]) : e.toSend[p][i].channel # SystemChannel

\* Whether LZ4 makes a payload smaller: long ones.
Shrinks(payload) == Len(payload) > 16

\* The header of a datagram: compressed if it may be and became smaller.
WriteDatagramHeader(compressed, seq) ==
    <<IF compressed THEN {0, 7} ELSE {7}, {0}>> \o WriteU16(seq)

-----------------------------------------------------------------------------
(* Reading.                                                                *)

\* DatagramHeader::unmarshal.
ReadDatagramHeader(buffer) ==
    LET marker == ReadFixed(buffer, 1, "big")
        compressor == ReadFixed(marker.rest, 1, "big")
        seq == ReadFixed(compressor.rest, 2, "big")
    IN  IF ~marker.ok \/ ~compressor.ok \/ ~seq.ok THEN Fail
        ELSE IF marker.val \notin {{7}, {0, 7}} THEN Fail
        ELSE Ok([compressed |-> 0 \in marker.val, seq |-> Number(seq.val)], seq.rest)

\* The context that the reader threads through a datagram.
NewReader == [channel |-> 0, seq |-> [c \in Channels |-> 0], rel |-> [c \in Channels |-> 0]]

\* The value if a read is made, and the one inferred otherwise.
ReadIf(written, buffer, width, inferred) ==
    IF ~written THEN Ok(inferred, buffer)
    ELSE LET r == ReadFixed(buffer, width, "big")
         IN  IF ~r.ok THEN Fail ELSE Ok(Number(r.val), r.rest)

\* MessageData::read_header.
ReadFrame(buffer, reader) ==
    LET flags == ReadFixed(buffer, 1, "big")
        size == ReadIf(TRUE, flags.rest, 2, 0)
        channel == ReadIf(5 \in flags.val, size.rest, 1, reader.channel)
        chunks == ReadIf(2 \in flags.val, channel.rest, 2, 1)
        seq == ReadIf(3 \notin flags.val, chunks.rest, 2, NextSeq(reader.seq[channel.val]))
        rel == ReadIf(4 \notin flags.val, seq.rest, 2,
                      IF 0 \in flags.val THEN NextSeq(reader.rel[channel.val])
                      ELSE reader.rel[channel.val])
        data == ReadBytes(rel.rest, size.val)
    IN  IF ~flags.ok THEN Fail
        ELSE IF flags.val \cap {1, 6} # {} \/ ~size.ok THEN Fail
        ELSE IF ~channel.ok THEN Fail
        ELSE IF channel.val \notin Channels \/ ~chunks.ok \/ ~seq.ok \/ ~rel.ok THEN Fail
        ELSE IF ~data.ok THEN Fail
        ELSE Ok([frame |-> [channel |-> channel.val, reliable |-> 0 \in flags.val,
                            connecting |-> 7 \in flags.val, data |-> data.val,
                            chunks |-> chunks.val, seq |-> seq.val, rel |-> rel.val],
                 reader |-> [channel |-> channel.val,
                             seq |-> [reader.seq EXCEPT ![channel.val] = seq.val],
                             rel |-> [reader.rel EXCEPT ![channel.val] = rel.val]]],
                data.rest)

\* walk_frames: up to the end or the first frame that cannot be read.
RECURSIVE WalkFrames(_, _)
WalkFrames(buffer, reader) ==
    LET r == ReadFrame(buffer, reader)
    IN  IF buffer = <<>> \/ ~r.ok THEN <<>>
        ELSE <<r.val.frame>> \o WalkFrames(r.rest, r.val.reader)

\* decode_datagram: None for a header that is not one.
DecodeDatagram(buffer) ==
    LET header == ReadDatagramHeader(buffer)
    IN  IF ~header.ok THEN None
        ELSE [seq |-> header.val.seq, frames |-> WalkFrames(header.rest, NewReader)]
=============================================================================
