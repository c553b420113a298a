------------------------------ MODULE Envelope ------------------------------
(***************************************************************************)
(* The hub message envelope and what a path wraps around it:               *)
(* nw-gridmate/src/message.rs, and the loops over a stream of envelopes in *)
(* session_service.rs, server.rs and replay.rs.                            *)
(***************************************************************************)
EXTENDS Wire

CONSTANT SchemaUuids  \* type_by_type_id: the known uuids, as a function to type indices

-----------------------------------------------------------------------------
(* crc32_chunks.                                                           *)

Xor(a, b) == (a \cup b) \ (a \cap b)
Polynomial == {5, 8, 9, 15, 19, 20, 21, 23, 24, 26, 27, 29, 30, 31}

ShiftRight(crc) ==
    LET half == {b - 1 : b \in crc \ {0}}
    IN  IF 0 \in crc THEN Xor(Polynomial, half) ELSE half

\* The eight shifts of the inner loop, for what is left in the low byte.
EightShifts ==
    [byte \in SUBSET (0 .. 7) |->
        ShiftRight(ShiftRight(ShiftRight(ShiftRight(
        ShiftRight(ShiftRight(ShiftRight(ShiftRight(byte))))))))]

CrcByte(crc, byte) ==
    Xor(EightShifts[Xor(crc \cap (0 .. 7), byte)], {b - 8 : b \in crc \ (0 .. 7)})

Crc32(bytes) ==
    LET crc[i \in 0 .. Len(bytes)] == IF i = 0 THEN 0 .. 31 ELSE CrcByte(crc[i - 1], bytes[i])
    IN  Xor(0 .. 31, crc[Len(bytes)])

-----------------------------------------------------------------------------
(* Envelopes.  A peer may put two fields of eight bytes in front, write    *)
(* the uuid of the type instead of its index, or an envelope that is       *)
(* empty; this code writes none of these.                                  *)

\* MessageEnvelope::marshal for outer = {} and type.uuid = None.
EnvelopeMarshal(outer, type, body) ==
    <<outer>> \o FlattenSeq([i \in 1 .. 2 |-> IF i - 1 \in outer THEN [k \in 1 .. 8 |-> {i}] ELSE <<>>])
    \o <<{0}>>
    \o (IF type.uuid = None THEN VlqMarshal(type.index, 4) ELSE VlqMarshal({}, 4) \o type.uuid)
    \o body

EmptyEnvelope == <<{}, {}>>

Bad == [kind |-> "error", type |-> {}, body |-> <<>>]
Empty == [kind |-> "empty", type |-> {}, body |-> <<>>]

\* resolved_type_index: None if the schema has no such uuid.
Resolve(uuid) == IF uuid \in DOMAIN SchemaUuids THEN SchemaUuids[uuid] ELSE None

\* Mutant of ReadEnvelope: the second optional field is not skipped.
ReadEnvelopeOneField(bytes) ==
    LET outer == ReadFixed(bytes, 1, "big")
        fields == ReadBytes(outer.rest, 8 * Cardinality(outer.val \cap {0}))
        flags == ReadFixed(fields.rest, 1, "big")
        index == VlqUnmarshal(flags.rest, 4)
        uuid == ReadBytes(index.rest, 16)
    IN  IF ~outer.ok \/ ~fields.ok \/ ~flags.ok THEN Bad
        ELSE IF flags.val = {} THEN Empty
        ELSE IF flags.val # {0} \/ ~index.ok THEN Bad
        ELSE IF index.val # {} THEN [kind |-> "message", type |-> index.val, body |-> index.rest]
        ELSE IF ~uuid.ok THEN Bad
        ELSE [kind |-> "message", type |-> Resolve(uuid.val), body |-> uuid.rest]

\* read_message_envelope, over the bytes of the one envelope.
ReadEnvelope(bytes) ==
    LET outer == ReadFixed(bytes, 1, "big")
        fields == ReadBytes(outer.rest, 8 * Cardinality(outer.val \cap {0, 1}))
        flags == ReadFixed(fields.rest, 1, "big")
        index == VlqUnmarshal(flags.rest, 4)
        uuid == ReadBytes(index.rest, 16)
    IN  IF ~outer.ok \/ ~fields.ok \/ ~flags.ok THEN Bad
        ELSE IF flags.val = {} THEN Empty
        ELSE IF flags.val # {0} \/ ~index.ok THEN Bad
        ELSE IF index.val # {} THEN [kind |-> "message", type |-> index.val, body |-> index.rest]
        ELSE IF ~uuid.ok THEN Bad
        ELSE [kind |-> "message", type |-> Resolve(uuid.val), body |-> uuid.rest]

-----------------------------------------------------------------------------
(* Paths.                                                                  *)

\* marshal_sized_into: server to client.
SizedMarshal(envelope) == VlqMarshal(Bits(Len(envelope)), 4) \o envelope

\* marshal_correlated_into: client to server; checksum and size are patched into
\* the prefix.
CorrelatedMarshal(correlation, envelope) ==
    WithFixedPrefix(<<>>,
        WriteFixed(Crc32(correlation \o envelope), 4, "big")
        \o WriteFixed(Bits(16 + Len(envelope)), 4, "big") \o correlation,
        envelope)

\* read_sized_message: an envelope, and what follows it.
ReadSized(buffer) ==
    LET size == VlqUnmarshal(buffer, 4)
        bytes == ReadBytes(size.rest, Number(size.val))
    IN  IF ~size.ok THEN [item |-> Bad, rest |-> <<>>]
        ELSE IF size.val = {} \/ ~bytes.ok THEN [item |-> Bad, rest |-> <<>>]
        ELSE [item |-> ReadEnvelope(bytes.val), rest |-> bytes.rest]

\* read_correlated_message: the checksum is verified before anything is parsed.
ReadCorrelated(buffer) ==
    LET checksum == ReadFixed(buffer, 4, "big")
        size == ReadFixed(checksum.rest, 4, "big")
        correlation == ReadBytes(size.rest, 16)
        envelope == ReadBytes(correlation.rest, Number(size.val) - 16)
    IN  IF ~checksum.ok \/ ~size.ok \/ ~correlation.ok THEN [item |-> Bad, rest |-> <<>>]
        ELSE IF Number(size.val) < 16 THEN [item |-> Bad, rest |-> <<>>]
        ELSE IF ~envelope.ok THEN [item |-> Bad, rest |-> <<>>]
        ELSE IF Crc32(correlation.val \o envelope.val) # checksum.val THEN [item |-> Bad, rest |-> <<>>]
        ELSE [item |-> ReadEnvelope(envelope.val), rest |-> envelope.rest]

\* The messages of a buffer: dispatch_messages of the session service and
\* parse_hub_stream of the replay go on after an envelope that is empty and stop
\* at the first error; the server reads the one correlated message of a buffer.
\* A message whose uuid is unknown is passed over.
RECURSIVE HubMessages(_, _)
HubMessages(path, buffer) ==
    LET read == IF path = "sized" THEN ReadSized(buffer) ELSE ReadCorrelated(buffer)
        here == IF read.item.kind = "message" /\ read.item.type # None
                THEN <<[type |-> read.item.type, body |-> read.item.body]>> ELSE <<>>
    IN  IF buffer = <<>> \/ read.item.kind = "error" THEN <<>>
        ELSE IF path = "correlated" THEN here
        ELSE here \o HubMessages(path, read.rest)
=============================================================================
