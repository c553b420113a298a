----------------------------- MODULE WireStream -----------------------------
(***************************************************************************)
(* From a fragment to a datagram: a sender fills a state bundle, wraps it  *)
(* in an envelope, queues it with other messages and packs datagrams.      *)
(* Nothing on the way marks where an inner part ends, so each layer reads  *)
(* back what the one above wrote only if every codec stops exactly where   *)
(* its writer did.  The properties read what was written, whole and cut at *)
(* every byte.                                                             *)
(***************************************************************************)
EXTENDS Bundle, Envelope, CarrierFrames

CONSTANTS Samples,      \* values to send: [type, val]
          Usual,        \* the samples that are sent at any time
          Headers,      \* bundle headers: seq, context, bandwidth, unreliable
          Interests, Keys, ControlIds,
          BundleType,   \* the type of a bundle: an index and a uuid
          MaxOps        \* bounds what a sender does besides sending its bundle; a sample
                        \* that is not usual counts for all of it

VARIABLES bundle,   \* the ReplicatedStateBundle being filled, None once it is sent
          record,   \* its open record (StateRecordWriter) or None
          kept,     \* what the writer was told is in the bundle, in order
          told,     \* the ids it has asked to stop and to pause
          sealed,   \* the hub bytes just queued, with the messages they hold, or None
          endpoint, \* the carrier's send side
          datagram, \* the datagram just sent and the messages it was made of, or None
          ops

vars == <<bundle, record, kept, told, sealed, endpoint, datagram, ops>>

Init ==
    /\ \E h \in Headers : bundle = NewBundle(h.seq, h.context, h.bandwidth, h.unreliable)
    /\ record = None
    /\ kept = <<>>
    /\ told = [stop |-> <<>>, pause |-> <<>>]
    /\ sealed = None
    /\ endpoint = NewEndpoint
    /\ datagram = None
    /\ ops = 0

\* marshal_contents of the samples.
Body == LET types == Types samples == Samples
        IN  [s \in 1 .. Len(samples) |-> Enc(types[samples[s].type], samples[s].val)]

Takes(n) == ops + n <= MaxOps /\ ops' = ops + n
Step == Takes(1)

\* Nothing is handed on in this step.
Quiet == sealed' = None /\ datagram' = None

-----------------------------------------------------------------------------
(* The bundle.                                                             *)

\* write_record opens a record.
BeginRecord(interest) ==
    LET buffer == bundle.buffer \o RecordHeader(interest, 0)
    IN  /\ bundle # None /\ record = None
        /\ ops < MaxOps
        /\ record' = [mark |-> Len(bundle.buffer), body |-> Len(buffer), interest |-> interest,
                      count |-> 0, frags |-> <<>>]
        /\ bundle' = [bundle EXCEPT !.buffer = buffer]
        /\ Quiet /\ UNCHANGED <<kept, told, endpoint, ops>>

\* write_fragment (payload or none), write_raw_fragment (any info).
AddFragment(sample, key, info, wrotePayload) ==
    LET f == [key |-> key, type |-> Samples[sample].type, info |-> info, body |-> Body[sample]]
        frag(end) == [interest |-> record.interest, key |-> key, sample |-> sample, end |-> end]
    IN  /\ record # None
        /\ Takes(IF sample \in Usual THEN 1 ELSE MaxOps)
        /\ \E w \in {WriteFragment(bundle.buffer, record, f, wrotePayload)} :
             /\ bundle' = [bundle EXCEPT !.buffer = w.buffer]
             /\ record' = [w.record EXCEPT !.frags = IF w.outcome = "written"
                                                    THEN Append(@, frag(Len(w.buffer))) ELSE @]
        /\ Quiet /\ UNCHANGED <<kept, told, endpoint>>

\* The writer's closure returns: Err takes back what was reported as written.
EndRecord(ok) ==
    /\ record # None
    /\ bundle' = [bundle EXCEPT !.buffer = FinishRecord(@, record, ok)]
    /\ kept' = IF ok THEN kept \o record.frags ELSE kept
    /\ record' = None
    /\ Quiet /\ UNCHANGED <<told, endpoint, ops>>

\* add_stop_id, add_pause_id.
AddControlId(partition, id) ==
    LET control == Control(bundle)
        push == IF partition = "stop" THEN PushStop(control, id) ELSE PushPause(control, id)
    IN  /\ bundle # None /\ record = None
        /\ Step
        /\ bundle' = [bundle EXCEPT !.control = push]
        /\ told' = IF Len(control.ids) = MaxControlIds THEN told
                   ELSE [told EXCEPT ![partition] = Append(@, id)]
        /\ Quiet /\ UNCHANGED <<record, kept, endpoint>>

HasControl == bundle # None /\ bundle.control # None

\* remove_pending_stop_id: FALSE, and no change, if there is no such id.
RemoveStopId(id) ==
    LET at == {i \in DOMAIN told.stop : told.stop[i] = id}
    IN  /\ HasControl /\ record = None
        /\ Step
        /\ bundle' = [bundle EXCEPT !.control = RemovePendingStop(@, id)]
        /\ told' = IF at = {} THEN told ELSE [told EXCEPT !.stop = RemoveAt(@, Min(at))]
        /\ Quiet /\ UNCHANGED <<record, kept, endpoint>>

\* reset_replication_control: the ids go, the block stays.
ResetControl ==
    /\ HasControl /\ record = None
    /\ Step
    /\ bundle' = [bundle EXCEPT !.control = NoControl]
    /\ told' = [stop |-> <<>>, pause |-> <<>>]
    /\ Quiet /\ UNCHANGED <<record, kept, endpoint>>

-----------------------------------------------------------------------------
(* Sending.                                                                *)

\* A bundle in its envelope: as a client and a server of this code write it
\* (marshal_framed), or as a peer may: after an empty envelope, or with optional
\* fields and a uuid and followed by another message.
SealedAs(form) ==
    LET body == BundleMarshal(bundle)
        own == EnvelopeMarshal({}, [index |-> BundleType.index, uuid |-> None], body)
        rich == EnvelopeMarshal({0, 1}, BundleType, body)
        ping == EnvelopeMarshal({}, [index |-> {0}, uuid |-> None], <<>>)
        parts == CASE form = "client"   -> <<CorrelatedMarshal(UuidOf(0), own)>>
                   [] form = "server"   -> <<SizedMarshal(own)>>
                   [] form = "empty"    -> <<SizedMarshal(EmptyEnvelope), SizedMarshal(own)>>
                   [] form = "followed" -> <<SizedMarshal(rich), SizedMarshal(ping)>>
    IN  [path |-> IF form = "client" THEN "correlated" ELSE "sized",
         parts |-> parts,
         messages |-> <<[type |-> BundleType.index, body |-> body]>>
                      \o (IF form = "followed" THEN <<[type |-> {0}, body |-> <<>>]>> ELSE <<>>)]

\* The bundle is sent; what a peer has written does not pass this carrier.
SendBundle(form) ==
    LET message == [channel |-> 1, reliable |-> ~bundle.unreliable, connecting |-> FALSE,
                    data |-> FlattenSeq(sealed'.parts)]
    IN  /\ bundle # None /\ record = None
        /\ sealed' = SealedAs(form)
        /\ endpoint' = IF form \in {"client", "server"} THEN QueueMessage(endpoint, message, 1)
                       ELSE endpoint
        /\ bundle' = None
        /\ kept' = <<>>
        /\ told' = [stop |-> <<>>, pause |-> <<>>]
        /\ datagram' = None
        /\ UNCHANGED <<record, ops>>

\* Another message: of the user, or of the system while connecting.  A bundle
\* that is being filled shares nothing with the carrier, so that others are queued
\* before it is begun or after it is sent is no restriction.
SendOther(m, priority) ==
    /\ bundle # None => record = None /\ bundle.buffer = <<>> /\ bundle.control = None
    /\ Step
    /\ endpoint' = QueueMessage(endpoint, m, priority)
    /\ Quiet /\ UNCHANGED <<bundle, record, kept, told>>

\* prepare_outgoing_datagram: nothing goes out if nothing fits.
Pack ==
    \E ctx \in {PackFrom(NewContext(endpoint.toSend), 0)} :
        LET seq == NextSeq(endpoint.datagram)
            compressed == HasUserMessages(endpoint) /\ Shrinks(ctx.payload)
        IN  /\ ctx.payload # <<>>
            /\ datagram' = [bytes |-> WriteDatagramHeader(compressed, seq) \o ctx.payload,
                            frames |-> ctx.frames, slipped |-> ctx.slipped, seq |-> seq]
            /\ endpoint' = [endpoint EXCEPT !.toSend = ctx.toSend, !.datagram = seq]
            /\ sealed' = None
            /\ UNCHANGED <<bundle, record, kept, told, ops>>

Others ==
    {[channel |-> 1, reliable |-> TRUE, connecting |-> FALSE, data |-> <<{1}>>],
     [channel |-> 0, reliable |-> FALSE, connecting |-> FALSE, data |-> Repeat({2}, MaxMessageData)]}
Systems == {[channel |-> SystemChannel, reliable |-> FALSE, connecting |-> TRUE, data |-> <<{3}>>]}

Next ==
    \/ \E interest \in Interests : BeginRecord(interest)
    \/ \E key \in Keys, info \in {"index", "uuid"} :
         \E sample \in IF ops = 0 THEN 1 .. Len(Samples) ELSE Usual :
           /\ info = "index" => Samples[sample].type \in Indexed
           /\ AddFragment(sample, key, info, TRUE)
    \/ \E sample \in Usual, key \in Keys :
         AddFragment(sample, key, Registered(Samples[sample].type), FALSE)
    \/ \E ok \in BOOLEAN : EndRecord(ok)
    \/ \E partition \in {"stop", "pause"}, id \in ControlIds : AddControlId(partition, id)
    \/ \E id \in ControlIds : RemoveStopId(id)
    \/ ResetControl
    \/ \E form \in {"client", "server", "empty", "followed"} : SendBundle(form)
    \/ \E m \in Others, priority \in {1, 2} : SendOther(m, priority)
    \/ \E m \in Systems : SendOther(m, 0)
    \/ Pack

Spec == Init /\ [][Next]_vars

-----------------------------------------------------------------------------
(* Properties.                                                             *)

\* What the variables hold: an open record lies within the buffer, the buffer
\* within its cap and the ids within theirs, and every number that is queued is a
\* sequence number.
TypeOK ==
    /\ bundle # None => /\ Len(Control(bundle).ids) <= MaxControlIds
                        /\ Control(bundle).pauseStart \in 0 .. Len(Control(bundle).ids)
                        /\ record = None => Len(bundle.buffer) <= MaxBuffer
    /\ record # None => /\ record.mark < record.body /\ record.body <= Len(bundle.buffer)
                        /\ record.count = Len(record.frags) /\ record.count <= MaxFragments
    /\ \A p \in DOMAIN endpoint.toSend : \A i \in DOMAIN endpoint.toSend[p] :
         LET m == endpoint.toSend[p][i]
         IN  m.channel \in Channels /\ m.seq \in SeqNums /\ m.rel \in SeqNums /\ m.chunks >= 1
    /\ ops \in 0 .. MaxOps

\* The codec of a sample reads what it wrote for it.
SampleReads(sample) ==
    LET s == Samples[sample]
        c == Types[s.type]
        bytes == Body[sample]
    IN  /\ \A after \in {<<>>, <<{}>>, <<{0}, 0 .. 7>>} :
             LET r == Dec(c, bytes \o after)
             IN  r.ok /\ Agrees(c, s.val, r.val) /\ r.rest = after
        /\ \A cut \in 0 .. Len(bytes) - 1 : ~Dec(c, Truncate(bytes, cut)).ok

\* Every value comes back from its codec: no step writes a fragment whose body is
\* not read as a value that agrees with the one written, whatever follows it, to
\* the last byte and no further, or is not refused when it is cut short.  (marshal
\* and unmarshal of every type in serialize/.)
ValuesReadBack ==
    [][ record # None /\ record' # None /\ record'.count # record.count
          => SampleReads(Last(record'.frags).sample) ]_vars

\* The fragments that a reader finds in buffer, cut anywhere in what the last of
\* them added, are those reported as written that end before the cut, in order.
FragmentsReadBack(buffer, frags) ==
    \A cut \in (IF Len(frags) < 2 THEN 0 ELSE frags[Len(frags) - 1].end) .. Len(buffer) :
        LET read == Fragments(Truncate(buffer, cut), {}, 0)
        IN  /\ Len(read.items) = Cardinality({i \in DOMAIN frags : frags[i].end <= cut})
            /\ \A i \in DOMAIN read.items :
                 LET s == Samples[frags[i].sample]
                 IN  /\ read.items[i].interest = frags[i].interest
                     /\ read.items[i].key = frags[i].key
                     /\ read.items[i].type = s.type
                     /\ Agrees(Types[s.type], s.val, read.items[i].val)
            /\ cut = Len(buffer) => read.ok

\* Bundle b is read as holding frags and ids.
BundleReads(b, frags, ids) ==
    LET bytes == BundleMarshal(b)
        read == BundleUnmarshal(bytes)
    IN  /\ TotalBundleSize(b) = Len(bytes)
        /\ read.ok /\ read.val = b /\ read.rest = <<>>
        /\ StopIds(Control(read.val)) = ids.stop
        /\ PauseIds(Control(read.val)) = ids.pause
        /\ FragmentsReadBack(read.val.buffer, frags)

\* No step leaves a bundle that does not hold exactly what its writer was told it
\* holds: after skipped fragments, records taken back and ids removed, the reader
\* of the marshalled bundle finds the fragments reported as written in records
\* that were not given up, and the ids of either partition, and its size is the
\* one announced.  (write_state_record, StateFragmentIter, total_bundle_size.)
BundleReadsBack ==
    [][ bundle' # None /\ record' = None /\ <<bundle, record>>' # <<bundle, record>>
          => BundleReads(bundle', kept', told') ]_vars

\* A receiver of the parts, cut anywhere, takes from them the messages that are whole.
SealedReads(parts, messages, path) ==
    LET bytes == FlattenSeq(parts)
        \* The empty envelope is the first of two parts, a second message the last.
        ends == IF Len(parts) = Len(messages)
                THEN [i \in DOMAIN parts |-> Len(FlattenSeq(SubSeq(parts, 1, i)))]
                ELSE <<Len(bytes)>>
    IN  \A cut \in 0 .. Len(bytes) :
          HubMessages(path, Truncate(bytes, cut))
            = SubSeq(messages, 1, Cardinality({i \in DOMAIN ends : ends[i] <= cut}))

\* No step sends hub bytes from which the receiver would not take the messages
\* that were sent, the empty envelope passed over and the uuid resolved, and, when
\* they are cut, those that are whole.  (read_sized_message,
\* read_correlated_message.)
MessagesReadBack ==
    [][ sealed' # None => SealedReads(sealed'.parts, sealed'.messages, sealed'.path) ]_vars

\* A datagram's frames, also when it is cut, are read as what it was made of.
DatagramReads(d) ==
    LET whole == DecodeDatagram(d.bytes)
        payloads(frames) == [i \in DOMAIN frames |-> frames[i].data]
    IN  /\ Len(d.bytes) <= MaxDatagram
        /\ whole # None /\ whole.seq = d.seq
        /\ payloads(whole.frames) = payloads(d.frames)
        /\ d.slipped \/ whole.frames = d.frames
        /\ \A cut \in HeaderSize .. Len(d.bytes) :
             IsPrefix(DecodeDatagram(Truncate(d.bytes, cut)).frames, whole.frames)

\* No step sends a datagram that is too long or whose frames are not read as the
\* messages it was made of, on their channels and with their numbers although most
\* are left out, and, when it is cut, those that are whole.  If a message of
\* another channel was left behind for want of room (current_channel follows it
\* all the same, connection_state.rs:550-556), the payloads still are, and in
\* their order.
FramesReadBack == [][datagram' # None => DatagramReads(datagram')]_vars
=============================================================================
