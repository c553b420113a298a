------------------------------- MODULE Bundle -------------------------------
(***************************************************************************)
(* The state bundle: hub/replicated_state_bundle.rs,                       *)
(* hub/state_bundle_builder.rs and hub/state_bundle_view.rs.               *)
(*                                                                         *)
(* A bundle's buffer is a sequence of state records, each a header with a  *)
(* patched count and that many fragments; nothing in the buffer says how   *)
(* long a fragment is, its codec has to stop where it ends.  Types[t] is   *)
(* the codec of the registered fragment type t; the types in Indexed have  *)
(* a compact index, which is t.                                            *)
(***************************************************************************)
EXTENDS Codecs

CONSTANTS Types,          \* the fragment registrations
          Indexed,        \* those with a compact type index
          MaxBuffer,      \* MAX_REPLICATED_STATE_BUNDLE_BUFFER_SIZE, 250 KiB
          MaxFragments,   \* u8::MAX
          MaxControlIds   \* MAX_REPLICATION_CONTROL_IDS, 100

-----------------------------------------------------------------------------
(* Replication control: stop ids, then pause ids.                          *)

\* ReplicationControlData::default.
NoControl == [ids |-> <<>>, pauseStart |-> 0]

StopIds(control) == SubSeq(control.ids, 1, control.pauseStart)
PauseIds(control) == SubSeq(control.ids, control.pauseStart + 1, Len(control.ids))

\* push_stop_replication_id: at the end of the first partition; the one error
\* changes nothing.
PushStop(control, id) ==
    IF Len(control.ids) = MaxControlIds THEN control
    ELSE [ids |-> InsertAt(control.ids, control.pauseStart + 1, id),
          pauseStart |-> control.pauseStart + 1]

\* push_pause_replication_id.
PushPause(control, id) ==
    IF Len(control.ids) = MaxControlIds THEN control
    ELSE [control EXCEPT !.ids = Append(@, id)]

\* remove_pending_stop_id: the first stop id that is id.
RemovePendingStop(control, id) ==
    LET at == {i \in 1 .. control.pauseStart : control.ids[i] = id}
    IN  IF at = {} THEN control
        ELSE [ids |-> RemoveAt(control.ids, Min(at)), pauseStart |-> control.pauseStart - 1]

\* ReplicationControlData::marshal.
ControlMarshal(control) ==
    WriteFixed(Bits(Len(control.ids)), 1, "big")
    \o WriteFixed(Bits(control.pauseStart), 1, "big")
    \o EncEach(Repeat(<<"uint", 2>>, Len(control.ids)), control.ids)

\* ReplicationControlData::unmarshal.
ControlUnmarshal(buffer) ==
    LET r == DecEach(<< <<"uint", 1>>, <<"uint", 1>> >>, buffer)
        len == Number(r.val[1])
        start == Number(r.val[2])
        ids == DecEach(Repeat(<<"uint", 2>>, len), r.rest)
    IN  IF ~r.ok THEN Fail
        ELSE IF len > MaxControlIds \/ start > len THEN Fail
        ELSE IF ~ids.ok THEN Fail
        ELSE Ok([ids |-> ids.val, pauseStart |-> start], ids.rest)

\* The ReplicationControl message: an index that is not checked, and up to 512
\* ids; pause_start caps the index when it is used.
ReplicationControl ==
    <<"tuple", << <<"sequence">>, <<"uint", 1>>, <<"vlq", 4>>, <<"list", <<"uint", 2>>, "vlq", 512>> >> >>

\* ReplicationPerformanceData: the period and eleven counters.
ReplicationPerformanceData == <<"tuple", << <<"uint", 2>> >> \o Repeat(<<"uint", 4>>, 11)>>

-----------------------------------------------------------------------------
(* Records.                                                                *)

\* The uuid of a type; only that it is one of sixteen bytes matters.
UuidOf(t) == <<Bits(t)>> \o Repeat({7}, 15)

\* FragmentTypeInfo::registered.
Registered(t) == IF t \in Indexed THEN "index" ELSE "uuid"

\* write_fragment_type_info: the index 0 announces a uuid.
WriteTypeInfo(t, info) ==
    IF info = "index" THEN VlqMarshal(Bits(t), 4) ELSE VlqMarshal({}, 4) \o UuidOf(t)

\* read_fragment_type_info and registration: an unknown type is an error.
ReadTypeInfo(buffer) ==
    LET index == VlqUnmarshal(buffer, 4)
        uuid == ReadBytes(index.rest, 16)
        byIndex == {t \in Indexed : Bits(t) = index.val}
        byUuid == {t \in 1 .. Len(Types) : UuidOf(t) = uuid.val}
    IN  IF ~index.ok THEN Fail
        ELSE IF index.val # {} THEN
               IF byIndex = {} THEN Fail ELSE Ok(CHOOSE t \in byIndex : TRUE, index.rest)
        ELSE IF ~uuid.ok THEN Fail
        ELSE IF byUuid = {} THEN Fail ELSE Ok(CHOOSE t \in byUuid : TRUE, uuid.rest)

\* A fragment: its key, its type, how the type is given, and its body, which is
\* Enc of its value.
FragmentMarshal(f) == VlqMarshal(f.key, 4) \o WriteTypeInfo(f.type, f.info) \o f.body

\* read_next_fragment: read_state_fragment_header and decode_contents.
FragmentUnmarshal(buffer) ==
    LET key == VlqUnmarshal(buffer, 4)
        type == ReadTypeInfo(key.rest)
        body == Dec(Types[type.val], type.rest)
    IN  IF ~key.ok THEN Fail
        ELSE IF ~type.ok THEN Fail
        ELSE IF ~body.ok THEN Fail
        ELSE Ok([key |-> key.val, type |-> type.val, val |-> body.val], body.rest)

\* write_state_record, up to the body: the interest id and a count of zero.
RecordHeader(interest, count) == VlqMarshal(interest, 4) \o <<Bits(count)>>

\* read_state_record_header: an interest id has sixteen bits.
ReadRecordHeader(buffer) ==
    LET interest == VlqUnmarshal(buffer, 4)
        count == ReadFixed(interest.rest, 1, "big")
    IN  IF ~interest.ok \/ ~count.ok THEN Fail
        ELSE IF ~(interest.val \subseteq 0 .. 15) THEN Fail
        ELSE Ok([interest |-> interest.val, count |-> Number(count.val)], count.rest)

\* Mutant of WriteFragment: the size is compared before the body is written.
WriteFragmentEarly(buffer, record, f, wrotePayload) ==
    LET outcome == IF record.count = MaxFragments THEN "err"
                   ELSE IF ~wrotePayload THEN "no_payload"
                   ELSE IF Len(buffer) > MaxBuffer THEN "over_limit"
                   ELSE "written"
    IN  [outcome |-> outcome,
         buffer |-> IF outcome = "written" THEN buffer \o FragmentMarshal(f) ELSE buffer,
         record |-> IF outcome = "written" THEN [record EXCEPT !.count = @ + 1] ELSE record]

\* A writer: the buffer, and the open record (StateRecordWriter) or None.
\* write_fragment and write_raw_fragment: a fragment without a payload or beyond
\* the cap is rolled back alone; at the limit of the count nothing is written.
WriteFragment(buffer, record, f, wrotePayload) ==
    LET longer == buffer \o FragmentMarshal(f)
        outcome == IF record.count = MaxFragments THEN "err"
                   ELSE IF ~wrotePayload THEN "no_payload"
                   ELSE IF Len(longer) > MaxBuffer THEN "over_limit"
                   ELSE "written"
    IN  [outcome |-> outcome,
         buffer |-> IF outcome = "written" THEN longer ELSE Truncate(longer, Len(buffer)),
         record |-> IF outcome = "written" THEN [record EXCEPT !.count = @ + 1] ELSE record]

\* Mutant of FinishRecord: a record whose writer failed stays.
FinishRecordKept(buffer, record, ok) ==
    IF record.count = 0 THEN Truncate(buffer, record.mark)
    ELSE WithFixedPrefix(Truncate(buffer, record.mark), RecordHeader(record.interest, record.count),
                         SubSeq(buffer, record.body + 1, Len(buffer)))

\* write_state_record, after the body: the count is patched; a record that failed
\* or has no fragment is taken back.
FinishRecord(buffer, record, ok) ==
    IF ~ok \/ record.count = 0 THEN Truncate(buffer, record.mark)
    ELSE WithFixedPrefix(Truncate(buffer, record.mark), RecordHeader(record.interest, record.count),
                         SubSeq(buffer, record.body + 1, Len(buffer)))

\* StateFragmentIter: the fragments up to the end or the first error, with left
\* fragments to come in the current record.
RECURSIVE Fragments(_, _, _)
Fragments(buffer, interest, left) ==
    IF left = 0 THEN
        LET header == ReadRecordHeader(buffer)
        IN  IF buffer = <<>> THEN [items |-> <<>>, ok |-> TRUE]
            ELSE IF ~header.ok THEN [items |-> <<>>, ok |-> FALSE]
            ELSE Fragments(header.rest, header.val.interest, header.val.count)
    ELSE LET f == FragmentUnmarshal(buffer)
             others == Fragments(f.rest, interest, left - 1)
         IN  IF ~f.ok THEN [items |-> <<>>, ok |-> FALSE]
             ELSE [others EXCEPT !.items = <<[interest |-> interest, key |-> f.val.key,
                                              type |-> f.val.type, val |-> f.val.val]>> \o @]

-----------------------------------------------------------------------------
(* Bundles.                                                                *)

\* ReplicatedStateBundle::with_seq, StateBundleBuilder::new.
NewBundle(seq, context, bandwidth, unreliable) ==
    [seq |-> seq, context |-> context, bandwidth |-> bandwidth, unreliable |-> unreliable,
     control |-> None, buffer |-> <<>>]

\* ensure_replication_control.
Control(b) == IF b.control = None THEN NoControl ELSE b.control

\* ReplicatedStateBundle::marshal.
BundleMarshal(b) ==
    SequenceMarshal(b.seq) \o WriteFixed(b.context, 1, "big") \o WriteFixed(b.bandwidth, 1, "big")
    \o Enc(<<"bool">>, b.unreliable) \o Enc(<<"bool">>, b.control # None)
    \o (IF b.control = None THEN <<>> ELSE ControlMarshal(b.control))
    \o VlqMarshal(Bits(Len(b.buffer)), 4) \o b.buffer

\* ReplicatedStateBundleView::read_from, read_bundle_buffer.
BundleUnmarshal(buffer) ==
    LET head == DecEach(<< <<"sequence">>, <<"uint", 1>>, <<"uint", 1>>, <<"bool">>, <<"bool">> >>, buffer)
        control == IF head.val[5] THEN ControlUnmarshal(head.rest) ELSE Ok(None, head.rest)
        len == VlqUnmarshal(control.rest, 4)
        bytes == ReadBytes(len.rest, Number(len.val))
    IN  IF ~head.ok THEN Fail
        ELSE IF ~control.ok \/ ~len.ok THEN Fail
        ELSE IF Number(len.val) > MaxBuffer \/ ~bytes.ok THEN Fail
        ELSE Ok([seq |-> head.val[1], context |-> head.val[2], bandwidth |-> head.val[3],
                 unreliable |-> head.val[4], control |-> control.val, buffer |-> bytes.val],
                bytes.rest)

\* vlq_u32_len and vlq_u64_len, which repeat the thresholds of the encoders: the
\* bits below which a length is enough.
VlqLen(v, width) ==
    LET bits == IF width = 4 THEN <<7, 14, 21, 28>> ELSE <<7, 14, 21, 28, 27, 42, 49, 56>>
        enough == {n \in 1 .. Len(bits) : v \subseteq 0 .. bits[n] - 1}
    IN  IF enough = {} THEN width + 1 ELSE Min(enough)

\* total_bundle_size.
TotalBundleSize(b) ==
    (IF b.seq = None THEN 1 ELSE 1 + VlqLen(b.seq, 8)) + 4
    + (IF b.control = None THEN 0 ELSE 2 + 2 * Len(b.control.ids))
    + VlqLen(Bits(Len(b.buffer)), 4) + Len(b.buffer)
=============================================================================
