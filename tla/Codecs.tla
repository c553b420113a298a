------------------------------- MODULE Codecs -------------------------------
(***************************************************************************)
(* The codecs of single values: serialize/data_marshal.rs,                 *)
(* utility_marshal.rs, container_marshal.rs, composite_marshal.rs,         *)
(* live_mask.rs and compression_marshal.rs.                                *)
(*                                                                         *)
(* A codec is a tuple: its name and its parameters, codecs of its parts    *)
(* among them.  Enc is its marshal and Dec its unmarshal.  A float is the  *)
(* bits of its encoding: what rounding to half precision or to a bucket    *)
(* loses is lost before a value gets here, and what the decoder derives    *)
(* (the omitted component of a normalized vector) is its sign.             *)
(***************************************************************************)
EXTENDS Wire

RECURSIVE Enc(_, _), Dec(_, _)

\* All of cs, one after the other.
RECURSIVE DecEach(_, _)
DecEach(cs, buffer) ==
    IF cs = <<>> THEN Ok(<<>>, buffer)
    ELSE LET first == Dec(Head(cs), buffer)
             others == DecEach(Tail(cs), first.rest)
         IN  IF ~first.ok \/ ~others.ok THEN Fail
             ELSE Ok(<<first.val>> \o others.val, others.rest)

EncEach(cs, vs) == FlattenSeq([i \in 1 .. Len(cs) |-> Enc(cs[i], vs[i])])
Repeat(c, n) == [i \in 1 .. n |-> c]

-----------------------------------------------------------------------------
(* Containers.  Policy is "vlq" for the blanket impls and "u16" for        *)
(* ContainerMarshaler and MapContainerMarshaler.                           *)

\* marshal_wire_count, marshal_len.
EncCount(n, policy) ==
    IF policy = "vlq" THEN VlqMarshal(Bits(n), 4) ELSE WriteFixed(Bits(n), 2, "big")

\* unmarshal_wire_count, unmarshal_len: a count beyond the capacity is refused.
\* One beyond the bytes left is refused here and by the first element missing
\* there, as no element is empty.
DecCount(buffer, policy, cap) ==
    LET r == IF policy = "vlq" THEN VlqUnmarshal(buffer, 4) ELSE ReadFixed(buffer, 2, "big")
    IN  IF ~r.ok \/ ~(r.val \subseteq 0 .. 29) THEN Fail
        ELSE IF Number(r.val) > Min({cap, Len(r.rest)}) THEN Fail
        ELSE Ok(Number(r.val), r.rest)

\* Vec and ArrayVec under either policy.
EncList(c, policy, v) == EncCount(Len(v), policy) \o EncEach(Repeat(c, Len(v)), v)

DecList(c, policy, cap, buffer) ==
    LET count == DecCount(buffer, policy, cap)
    IN  IF ~count.ok THEN Fail ELSE DecEach(Repeat(c, count.val), count.rest)

\* String and ArrayString.  The characters modelled are those of one byte.
EncString(policy, v) == EncCount(Len(v), policy) \o v

DecString(policy, cap, buffer) ==
    LET count == DecCount(buffer, policy, cap)
        r == ReadBytes(count.rest, count.val)
    IN  IF ~count.ok THEN Fail
        ELSE IF ~r.ok \/ \E i \in 1 .. Len(r.val) : 7 \in r.val[i] THEN Fail
        ELSE r

\* HashSet, IndexSet, BTreeSet: the elements in the order of the set's iterator.
EncSet(c, policy, v) == EncList(c, policy, SetToSeq(v))

DecSet(c, policy, cap, buffer) ==
    LET r == DecList(c, policy, cap, buffer)
    IN  IF ~r.ok THEN Fail ELSE Ok(ToSet(r.val), r.rest)

\* HashMap, IndexMap, BTreeMap; of two entries with a key the later one stays.
EncMap(kc, vc, policy, v) ==
    LET keys == SetToSeq(DOMAIN v)
    IN  EncCount(Len(keys), policy)
        \o FlattenSeq([i \in 1 .. Len(keys) |-> Enc(kc, keys[i]) \o Enc(vc, v[keys[i]])])

DecMap(kc, vc, policy, cap, buffer) ==
    LET r == DecList(<<"tuple", <<kc, vc>>>>, policy, cap, buffer)
        last(k) == Max({i \in 1 .. Len(r.val) : r.val[i][1] = k})
    IN  IF ~r.ok THEN Fail
        ELSE Ok([k \in {r.val[i][1] : i \in 1 .. Len(r.val)} |-> r.val[last(k)][2]], r.rest)

\* [T; N] and ArrayCodec: no count.  ContainerMarshaler writes one, which has to
\* be N.
EncArray(c, n, counted, v) ==
    (IF counted THEN EncCount(n, "u16") ELSE <<>>) \o EncEach(Repeat(c, n), v)

DecArray(c, n, counted, buffer) ==
    LET count == IF counted THEN DecCount(buffer, "u16", Len(buffer)) ELSE Ok(n, buffer)
    IN  IF ~count.ok \/ count.val # n THEN Fail ELSE DecEach(Repeat(c, n), count.rest)

\* write_live_mask_batches: after each mask byte up to eight entries, a key each
\* and a value if its bit is set.  The number of entries is known beforehand.
EncLive(c, entries) ==
    LET batches == (Len(entries) + 7) \div 8
        batch(i) == SubSeq(entries, 8 * i - 7, Min({8 * i, Len(entries)}))
        mask(i) == {b \in 0 .. Len(batch(i)) - 1 : batch(i)[b + 1].val # None}
        body(e) == <<e.key>> \o (IF e.val = None THEN <<>> ELSE Enc(c, e.val))
    IN  FlattenSeq([i \in 1 .. batches |->
            <<mask(i)>> \o FlattenSeq([b \in 1 .. Len(batch(i)) |-> body(batch(i)[b])])])

\* read_live_mask_batches, from entry i on.
RECURSIVE DecLive(_, _, _, _, _)
DecLive(c, total, i, mask, buffer) ==
    IF i = total THEN Ok(<<>>, buffer)
    ELSE LET head == IF i % 8 = 0 THEN ReadFixed(buffer, 1, "big") ELSE Ok(mask, buffer)
             key == ReadFixed(head.rest, 1, "big")
             live == i % 8 \in head.val
             val == IF live THEN Dec(c, key.rest) ELSE Ok(None, key.rest)
             others == DecLive(c, total, i + 1, head.val, val.rest)
         IN  IF ~head.ok \/ ~key.ok \/ ~val.ok \/ ~others.ok THEN Fail
             ELSE Ok(<<[key |-> key.val, val |-> val.val]>> \o others.val, others.rest)

-----------------------------------------------------------------------------
(* Composed values.                                                        *)

\* DefaultOmittedTupleCodec: the presence of each member, then those that are
\* not T::default().
EncOmitted(cs, v) ==
    [i \in 1 .. Len(cs) |-> IF v[i] # {} THEN {0} ELSE {}]
    \o FlattenSeq([i \in 1 .. Len(cs) |-> IF v[i] # {} THEN Enc(cs[i], v[i]) ELSE <<>>])

DecOmitted(cs, buffer) ==
    LET flags == DecEach(Repeat(<<"bool">>, Len(cs)), buffer)
        present == SelectSeq([i \in 1 .. Len(cs) |-> i], LAMBDA i : flags.val[i])
        r == DecEach([j \in 1 .. Len(present) |-> cs[present[j]]], flags.rest)
        nth(i) == CHOOSE j \in 1 .. Len(present) : present[j] = i
    IN  IF ~flags.ok THEN Fail
        ELSE IF ~r.ok THEN Fail
        ELSE Ok([i \in 1 .. Len(cs) |-> IF flags.val[i] THEN r.val[nth(i)] ELSE {}], r.rest)

\* BitMaskTupleCodec: a byte whose bit b[i] tells whether member i is there
\* (reconcile_mask sets it from the value); a required member has b[i] = None.
EncMasked(cs, b, v) ==
    LET optional == {i \in 1 .. Len(cs) : b[i] # None}
        mask == (v.mask \ {b[i] : i \in optional})
                \cup {b[i] : i \in {j \in optional : v.vals[j] # None}}
        there(i) == b[i] = None \/ b[i] \in mask
    IN  <<mask>> \o FlattenSeq([i \in 1 .. Len(cs) |->
                                  IF there(i) THEN Enc(cs[i], v.vals[i]) ELSE <<>>])

DecMasked(cs, b, buffer) ==
    LET mask == ReadFixed(buffer, 1, "big")
        member(i) == IF b[i] = None \/ b[i] \in mask.val THEN cs[i] ELSE <<"absent">>
        r == DecEach([i \in 1 .. Len(cs) |-> member(i)], mask.rest)
    IN  IF ~mask.ok \/ ~r.ok THEN Fail
        ELSE Ok([mask |-> mask.val, vals |-> r.val], r.rest)

\* EntityRef: a flag byte with the string or the uuid's format and bytes.
EncEntityRef(v) ==
    IF v.format = None THEN <<{}>> \o EncString("vlq", v.name)
    ELSE <<{0} \cup At(v.format, 1)>> \o v.name

DecEntityRef(buffer) ==
    LET flags == ReadFixed(buffer, 1, "big")
        isUuid == 0 \in flags.val
        name == IF isUuid THEN ReadBytes(flags.rest, 16)
                ELSE DecString("vlq", 2^25, flags.rest)
    IN  IF ~flags.ok \/ ~name.ok THEN Fail
        ELSE Ok([format |-> IF isUuid THEN ByteOf(flags.val, 1) \cap (0 .. 2) ELSE None,
                 name |-> name.val], name.rest)

\* RemoteServerGdeRefMarshaler: the target is the first half of the actor's uuid,
\* in little endian, whatever it was.
EncGdeRef(v) == v.actor
DecGdeRef(buffer) ==
    LET actor == ReadBytes(buffer, 16)
    IN  IF ~actor.ok THEN Fail
        ELSE Ok([actor |-> actor.val, target |-> ReadFixed(actor.val, 8, "little").val],
                actor.rest)

-----------------------------------------------------------------------------
(* Compression.                                                            *)

\* The codecs with a bit for an exact zero and one for an exact one of each
\* component, and a sign bit (None: there is none): shape is
\* [zero, one : component -> bit, sign, width of a bucket].
Euler == [zero |-> <<0, 1, 2>>, one |-> <<3, 4, 5>>, sign |-> None, width |-> 1]
QuatNorm == [zero |-> <<0, 1, 2>>, one |-> <<3, 4, 5>>, sign |-> 6, width |-> 2]
Vec3Norm == [zero |-> <<1, 2>>, one |-> <<3, 4>>, sign |-> 0, width |-> 2]

\* QuatCompNormQuantized, QuatCompNormMarshaler, Vec3CompNormMarshaler::marshal.
\* A component is [exact : {"zero", "one", "no"}, bucket].
EncComponents(shape, v) ==
    LET axes == DOMAIN shape.zero
        flags == {shape.zero[i] : i \in {j \in axes : v.parts[j].exact = "zero"}}
                 \cup {shape.one[i] : i \in {j \in axes : v.parts[j].exact = "one"}}
                 \cup (IF shape.sign # None /\ v.negative THEN {shape.sign} ELSE {})
    IN  <<flags>> \o FlattenSeq([i \in axes |->
            IF flags \cap {shape.zero[i], shape.one[i]} = {}
            THEN WriteFixed(v.parts[i].bucket, shape.width, "big") ELSE <<>>])

\* Mutant of DecComponents: the bucket of a component that is exactly one is read.
DecComponentsEager(shape, buffer) ==
    LET flags == ReadFixed(buffer, 1, "big")
        axes == DOMAIN shape.zero
        codec(i) == IF shape.zero[i] \in flags.val THEN <<"absent">> ELSE <<"uint", shape.width>>
        r == DecEach([i \in axes |-> codec(i)], flags.rest)
    IN  IF ~flags.ok \/ ~r.ok THEN Fail
        ELSE Ok([parts |-> [i \in axes |-> [exact |-> "no", bucket |-> r.val[i]]],
                 negative |-> FALSE], r.rest)

\* Their unmarshal.  An Euler angle of exactly one degree is read as the bucket 1.
DecComponents(shape, buffer) ==
    LET flags == ReadFixed(buffer, 1, "big")
        axes == DOMAIN shape.zero
        flagged(i) == flags.val \cap {shape.zero[i], shape.one[i]} # {}
        r == DecEach([i \in axes |-> IF flagged(i) THEN <<"absent">> ELSE <<"uint", shape.width>>],
                     flags.rest)
        part(i) == IF ~flagged(i) THEN [exact |-> "no", bucket |-> r.val[i]]
                   ELSE IF shape.zero[i] \in flags.val THEN [exact |-> "zero", bucket |-> {}]
                   ELSE IF shape = Euler THEN [exact |-> "no", bucket |-> {0}]
                   ELSE [exact |-> "one", bucket |-> {}]
    IN  IF ~flags.ok THEN Fail
        ELSE IF ~r.ok THEN Fail
        ELSE Ok([parts |-> [i \in axes |-> part(i)],
                 negative |-> shape.sign # None /\ shape.sign \in flags.val], r.rest)

\* The first of the components with the largest size.
Largest(v) ==
    CHOOSE i \in 1 .. 4 : \A j \in 1 .. 4 : v[j].size < v[i].size \/ (v[j].size = v[i].size /\ i <= j)

\* QuatSmallestThreeQuantized::marshal; a component is [size, negative, bucket].
EncSmallestThree(v) ==
    LET largest == Largest(v)
        zero == {i \in 1 .. 4 : i # largest /\ v[i].size = 0}
        flags == At(Bits(largest - 1), 5) \cup zero
                 \cup (IF v[largest].negative THEN {0} ELSE {})
    IN  <<flags>> \o FlattenSeq([i \in 1 .. 4 |->
                                   IF i = largest \/ i \in zero THEN <<>> ELSE <<v[i].bucket>>])

\* Its unmarshal: the component left out has the index and the sign of the flags,
\* None is an exact zero.
DecSmallestThree(buffer) ==
    LET flags == ReadFixed(buffer, 1, "big")
        largest == Number(ByteOf(flags.val, 5) \cap {0, 1}) + 1
        codec(i) == IF i = largest \/ i \in flags.val THEN <<"absent">> ELSE <<"uint", 1>>
        r == DecEach([i \in 1 .. 4 |-> codec(i)], flags.rest)
    IN  IF ~flags.ok \/ ~r.ok THEN Fail
        ELSE Ok([largest |-> largest, negative |-> 0 \in flags.val, parts |-> r.val], r.rest)

HalfOne == {10, 11, 12, 13}  \* 1.0 in half precision

\* NonUniformScaleCompMarshaler: a tag, and no, one or three components.
EncScale(v) ==
    LET halves(n) == EncEach(Repeat(<<"uint", 2>>, n), v)
    IN  IF v = Repeat(HalfOne, 3) THEN <<{}>>
        ELSE IF v[1] = v[2] /\ v[2] = v[3] THEN <<{0}>> \o halves(1)
        ELSE <<{1}>> \o halves(3)

DecScale(buffer) ==
    LET tag == ReadFixed(buffer, 1, "big")
        n == CASE tag.val = {} -> 0 [] tag.val = {0} -> 1 [] OTHER -> 3
        r == DecEach(Repeat(<<"uint", 2>>, n), tag.rest)
    IN  IF ~tag.ok \/ ~r.ok THEN Fail
        ELSE Ok(CASE n = 0 -> Repeat(HalfOne, 3) [] n = 1 -> Repeat(r.val[1], 3) [] n = 3 -> r.val,
                r.rest)

\* The parts of TransformCompressor: scale, rotation and position.
TransformParts == << <<"array", <<"uint", 2>>, 3>>, <<"array", <<"uint", 2>>, 4>>,
                     <<"array", <<"uint", 4>>, 3>> >>

\* PackedSize: the number of bits.
EncPackedSize(v) == VlqMarshal(Bits(8 * v.bytes + v.bits), 4)
DecPackedSize(buffer) ==
    LET r == VlqUnmarshal(buffer, 4)
    IN  IF ~r.ok THEN Fail
        ELSE Ok([bytes |-> Number(r.val) \div 8, bits |-> Number(r.val) % 8], r.rest)

\* IntegerQuantizationMarshalerU8 and U16 over lo .. hi: truncated both ways.
EncQuantized(lo, hi, width, v) ==
    LET clamped == Max({0, Min({v - lo, hi - lo})})
    IN  WriteFixed(Bits((clamped * (256^width - 1)) \div (hi - lo)), width, "big")
DecQuantized(lo, hi, width, buffer) ==
    LET r == ReadFixed(buffer, width, "big")
    IN  IF ~r.ok THEN Fail
        ELSE Ok(lo + (Number(r.val) * (hi - lo)) \div (256^width - 1), r.rest)

-----------------------------------------------------------------------------
(* The contents of a replicated state.  A value holds, for each filter     *)
(* group, what each of its fields sends, or None for a field that is not   *)
(* dirty; at least one is.                                                 *)

IsDirtyGroup(vs) == \E i \in DOMAIN vs : vs[i] # None

\* The codecs of the fields of mask byte k (of seven), those of the byte's bits.
Masked(cs, mask, k) ==
    [b \in 1 .. Min({7, Len(cs) - 7 * k}) |->
       IF b - 1 \in mask THEN cs[7 * k + b] ELSE <<"absent">>]

\* A group of a derived state: a mask for seven fields at a time, each before its
\* fields; bit 7 says that a later field is dirty, and without one the rest is left out.
EncDerivedGroup(cs, vs) ==
    LET dirty == {i \in DOMAIN vs : vs[i] # None}
        chunks == (Len(cs) + 6) \div 7
        fields(k) == {i \in dirty : (i - 1) \div 7 = k}
        mask(k) == {(i - 1) % 7 : i \in fields(k)}
                   \cup (IF \E i \in dirty : i > 7 * (k + 1) THEN {7} ELSE {})
        body(i) == IF i \in dirty THEN Enc(cs[i], vs[i]) ELSE <<>>
        chunk(k) == <<mask(k)>> \o FlattenSeq([b \in 1 .. Min({7, Len(cs) - 7 * k}) |-> body(7 * k + b)])
    IN  FlattenSeq([k \in 1 .. chunks |-> IF k = 1 \/ mask(k - 1) # {} THEN chunk(k - 1) ELSE <<>>])

\* Its reader, from mask byte k on.  Masks beyond the fields it knows are skipped
\* only if the last one it knows was full.
RECURSIVE DecDerivedGroup(_, _, _)
DecDerivedGroup(cs, k, buffer) ==
    IF 7 * k >= Len(cs)
    THEN IF Len(cs) % 7 = 0 THEN LET r == ChainUnmarshal(buffer) IN [r EXCEPT !.val = <<>>]
         ELSE Ok(<<>>, buffer)
    ELSE LET mask == ReadFixed(buffer, 1, "big")
             r == DecEach(Masked(cs, mask.val, k), mask.rest)
             others == IF 7 \in mask.val THEN DecDerivedGroup(cs, k + 1, r.rest)
                       ELSE Ok(Repeat(None, Max({0, Len(cs) - 7 * (k + 1)})), r.rest)
         IN  IF ~mask.ok \/ ~r.ok \/ ~others.ok THEN Fail
             ELSE Ok(r.val \o others.val, others.rest)

\* __replicated_state_marshal_fields: a byte for eight groups before those groups.
EncDerived(groups, v) ==
    FlattenSeq([g \in 1 .. Len(groups) |->
        (IF g % 8 # 1 THEN <<>>
         ELSE <<{b \in 0 .. Min({7, Len(groups) - g}) : IsDirtyGroup(v[g + b])}>>)
        \o (IF IsDirtyGroup(v[g]) THEN EncDerivedGroup(groups[g], v[g]) ELSE <<>>)])

\* __replicated_state_unmarshal_fields, from group g on.  A group without fields is
\* a mask chain to skip.
RECURSIVE DecDerived(_, _, _, _)
DecDerived(groups, g, present, buffer) ==
    IF g > Len(groups) THEN Ok(<<>>, buffer)
    ELSE LET head == IF g % 8 = 1 THEN ReadFixed(buffer, 1, "big") ELSE Ok(present, buffer)
             group == IF (g - 1) % 8 \in head.val THEN DecDerivedGroup(groups[g], 0, head.rest)
                      ELSE Ok(Repeat(None, Len(groups[g])), head.rest)
             others == DecDerived(groups, g + 1, head.val, group.rest)
         IN  IF ~head.ok \/ ~group.ok \/ ~others.ok THEN Fail
             ELSE Ok(<<group.val>> \o others.val, others.rest)

\* marshal_visited_fields: the mask of the dirty fields as one VLQ, then the fields.
EncFixedGroup(cs, vs) ==
    VlqMarshal({i - 1 : i \in {j \in DOMAIN vs : vs[j] # None}}, 8)
    \o FlattenSeq([i \in DOMAIN vs |-> IF vs[i] = None THEN <<>> ELSE Enc(cs[i], vs[i])])

\* unmarshal_visited_fields.
DecFixedGroup(cs, buffer) ==
    LET presence == VlqUnmarshal(buffer, 8)
        codec(i) == IF i - 1 \in presence.val THEN cs[i] ELSE <<"absent">>
    IN  IF ~presence.ok THEN Fail
        ELSE DecEach([i \in 1 .. Len(cs) |-> codec(i)], presence.rest)

\* marshal_fixed_contents: the flags of all groups, then the groups.
EncFixed(groups, v) ==
    FlatMarshal([g \in 1 .. Len(groups) |-> IsDirtyGroup(v[g])])
    \o FlattenSeq([g \in 1 .. Len(groups) |->
                     IF IsDirtyGroup(v[g]) THEN EncFixedGroup(groups[g], v[g]) ELSE <<>>])

\* unmarshal_fixed_contents, from group g on.
RECURSIVE DecFixedFrom(_, _, _, _)
DecFixedFrom(groups, g, present, buffer) ==
    IF g > Len(groups) THEN Ok(<<>>, buffer)
    ELSE LET group == IF IsFieldSet(present, 8, g - 1) THEN DecFixedGroup(groups[g], buffer)
                      ELSE Ok(Repeat(None, Len(groups[g])), buffer)
             others == DecFixedFrom(groups, g + 1, present, group.rest)
         IN  IF ~group.ok \/ ~others.ok THEN Fail
             ELSE Ok(<<group.val>> \o others.val, others.rest)

DecFixed(groups, buffer) ==
    LET present == ReadBytes(buffer, MaskBytes(groups, 8))
    IN  IF ~present.ok THEN Fail ELSE DecFixedFrom(groups, 1, present.val, present.rest)

-----------------------------------------------------------------------------
(* Values whose type is told on the wire.                                  *)

\* derive(Marshaler) of an enum with fields: a discriminant byte and the fields of
\* the variant, which arms gives for each discriminant.
EncVariant(arms, v) == <<Bits(v.is)>> \o EncEach(arms[v.is], v.fields)

DecVariant(arms, buffer) ==
    LET is == ReadFixed(buffer, 1, "big")
        r == DecEach(arms[Number(is.val)], is.rest)
    IN  IF ~is.ok THEN Fail
        ELSE IF Number(is.val) \notin DOMAIN arms THEN Fail
        ELSE IF ~r.ok THEN Fail
        ELSE Ok([is |-> Number(is.val), fields |-> r.val], r.rest)

\* ClassValue: a type index, or index 0 and a uuid, and the bytes that the codec of
\* the registered class takes.  classes: uuid -> [index, codec].
EncClass(v) == VlqMarshal(v.index, 4) \o (IF v.index = {} THEN v.uuid ELSE <<>>) \o v.body

DecClass(classes, buffer) ==
    LET index == VlqUnmarshal(buffer, 4)
        uuid == IF index.val = {} THEN ReadBytes(index.rest, 16) ELSE index
        known == {u \in DOMAIN classes :
                    IF index.val = {} THEN u = uuid.val ELSE classes[u].index = index.val}
        class == CHOOSE u \in known : TRUE
        body == Dec(classes[class].codec, uuid.rest)
    IN  IF ~index.ok \/ ~uuid.ok THEN Fail
        ELSE IF known = {} THEN Fail
        ELSE IF ~body.ok THEN Fail
        ELSE Ok([index |-> index.val, uuid |-> class,
                 body |-> SubSeq(uuid.rest, 1, Len(uuid.rest) - Len(body.rest))], body.rest)

\* ActorInstantiationParameters: class values, none of them null; of two of a class
\* the first stays.
EncParameters(classes, v) == EncList(<<"nonnull", <<"class", classes>> >>, "u16", v)

DecParameters(classes, buffer) ==
    LET r == DecList(<<"nonnull", <<"class", classes>> >>, "u16", 2^16, buffer)
        first(i) == \A j \in 1 .. i - 1 : r.val[j].uuid # r.val[i].uuid
        kept == SelectSeq([i \in 1 .. Len(r.val) |-> i], first)
    IN  IF ~r.ok THEN Fail ELSE Ok([i \in 1 .. Len(kept) |-> r.val[kept[i]]], r.rest)

\* ChatMutes: entries with an optional reason, eight to a mask.  A sequence that is
\* the one before it is sent as ValidNonSequence.  Without entries, a sequence and
\* strings.
EncMutes(v) ==
    LET before(i) == IF i = 1 THEN None ELSE v.entries[i - 1].seq
        entry(i) == VlqMarshal(v.entries[i].player, 8)
                    \o SequenceMarshal(IF v.entries[i].seq = before(i) THEN {} ELSE v.entries[i].seq)
                    \o (IF v.entries[i].reason = None THEN <<>> ELSE EncString("vlq", v.entries[i].reason))
        mask(i) == {b \in 0 .. Min({7, Len(v.entries) - i}) : v.entries[i + b].reason # None}
    IN  EncCount(Len(v.entries), "vlq")
        \o (IF v.entries = <<>> THEN SequenceMarshal(v.base) \o EncList(<<"string", "vlq", 2^25>>, "vlq", v.strings)
            ELSE FlattenSeq([i \in 1 .. Len(v.entries) |->
                               (IF i % 8 = 1 THEN <<mask(i)>> ELSE <<>>) \o entry(i)]))

\* The entries from i on.
RECURSIVE DecMuteEntries(_, _, _, _, _)
DecMuteEntries(total, i, mask, before, buffer) ==
    IF i = total THEN Ok(<<>>, buffer)
    ELSE LET head == IF i % 8 = 0 THEN ReadFixed(buffer, 1, "big") ELSE Ok(mask, buffer)
             player == VlqUnmarshal(head.rest, 8)
             seq == SequenceUnmarshal(player.rest)
             own == IF seq.val = {} THEN before ELSE seq.val
             reason == IF i % 8 \in head.val THEN DecString("vlq", 2^25, seq.rest) ELSE Ok(None, seq.rest)
             others == DecMuteEntries(total, i + 1, head.val, own, reason.rest)
         IN  IF ~head.ok \/ ~player.ok \/ ~seq.ok THEN Fail
             ELSE IF ~reason.ok \/ ~others.ok THEN Fail
             ELSE Ok(<<[player |-> player.val, seq |-> own, reason |-> reason.val]>> \o others.val,
                     others.rest)

DecMutes(buffer) ==
    LET count == DecCount(buffer, "vlq", 2^25)
        bare == DecEach(<< <<"sequence">>, <<"list", <<"string", "vlq", 2^25>>, "vlq", 2^25>> >>, count.rest)
        r == IF count.val = 0 THEN bare ELSE DecMuteEntries(count.val, 0, {}, None, count.rest)
    IN  IF ~count.ok THEN Fail
        ELSE IF ~r.ok THEN Fail
        ELSE Ok(IF count.val = 0 THEN [entries |-> <<>>, base |-> r.val[1], strings |-> r.val[2]]
                ELSE [entries |-> r.val, base |-> None, strings |-> <<>>], r.rest)

-----------------------------------------------------------------------------
(* The table.                                                              *)

\* marshal.
Enc(c, v) ==
    CASE c[1] = "uint"     -> WriteFixed(v, c[2], "big")
      [] c[1] = "bool"     -> <<IF v THEN {0} ELSE {}>>
      [] c[1] = "vlq"      -> VlqMarshal(v, c[2])
      [] c[1] = "sequence" -> SequenceMarshal(v)
      [] c[1] = "enum"     -> WriteFixed(Bits(v), c[2], "big")
      [] c[1] = "sentinel" -> WriteFixed(IF v = None THEN 0 .. 31 ELSE v, 4, "big")
      [] c[1] = "duration" -> WriteFixed(IF v \subseteq 0 .. 31 THEN v ELSE 0 .. 31, 4, "big")
      [] c[1] = "string"   -> EncString(c[2], v)
      [] c[1] = "list"     -> EncList(c[2], c[3], v)
      [] c[1] = "set"      -> EncSet(c[2], c[3], v)
      [] c[1] = "map"      -> EncMap(c[2], c[3], c[4], v)
      [] c[1] = "array"    -> EncArray(c[2], c[3], FALSE, v)
      [] c[1] = "array16"  -> EncArray(c[2], c[3], TRUE, v)
      [] c[1] = "live"     -> EncLive(c[2], v)
      [] c[1] = "chain"    -> ChainMarshal(v)
      [] c[1] = "flat"     -> FlatMarshal(v)
      [] c[1] = "option"   -> IF v = None THEN <<{}>> ELSE <<{0}>> \o Enc(c[2], v)
      [] c[1] = "choice"   -> Enc(<<"bool">>, v.is) \o Enc(IF v.is THEN c[3] ELSE c[2], v.val)
      [] c[1] = "tuple"    -> EncEach(c[2], v)
      [] c[1] = "omitted"  -> EncOmitted(c[2], v)
      [] c[1] = "masked"   -> EncMasked(c[2], c[3], v)
      [] c[1] = "entity"   -> EncEntityRef(v)
      [] c[1] = "gde"      -> EncGdeRef(v)
      [] c[1] = "euler"    -> EncComponents(Euler, v)
      [] c[1] = "quat"     -> EncComponents(QuatNorm, v)
      [] c[1] = "vec3"     -> EncComponents(Vec3Norm, v)
      [] c[1] = "smallest" -> EncSmallestThree(v)
      [] c[1] = "scale"    -> EncScale(v)
      [] c[1] = "transform" -> EncMasked(TransformParts, <<0, 1, 2>>, v)
      [] c[1] = "packed"   -> EncPackedSize(v)
      [] c[1] = "quantized" -> EncQuantized(c[2], c[3], c[4], v)
      [] c[1] = "native"   -> WriteFixed(v, c[2], "little")
      [] c[1] = "skip"     -> <<>>
      [] c[1] = "repr"     -> WriteFixed(v, c[2], "big")
      [] c[1] = "variant"  -> EncVariant(c[2], v)
      [] c[1] = "nonnull"  -> <<{0}>> \o Enc(c[2], v)
      [] c[1] = "class"    -> EncClass(v)
      [] c[1] = "parameters" -> EncParameters(c[2], v)
      [] c[1] = "mutes"    -> EncMutes(v)
      [] c[1] = "derived"  -> EncDerived(c[2], v)
      [] c[1] = "fixed"    -> EncFixed(c[2], v)

\* unmarshal.
Dec(c, buffer) ==
    CASE c[1] = "uint"     -> ReadFixed(buffer, c[2], "big")
      [] c[1] = "bool"     -> ReadRaw(buffer)
      [] c[1] = "vlq"      -> VlqUnmarshal(buffer, c[2])
      [] c[1] = "sequence" -> SequenceUnmarshal(buffer)
      [] c[1] = "enum"     -> LET r == ReadFixed(buffer, c[2], "big")
                              IN  IF ~r.ok \/ ~(r.val \subseteq 0 .. 7) THEN Fail
                                  ELSE IF Number(r.val) > c[3] THEN Fail
                                  ELSE Ok(Number(r.val), r.rest)
      [] c[1] = "sentinel" -> LET r == ReadFixed(buffer, 4, "big")
                              IN  IF ~r.ok THEN Fail
                                  ELSE Ok(IF r.val = 0 .. 31 THEN None ELSE r.val, r.rest)
      [] c[1] = "duration" -> ReadFixed(buffer, 4, "big")
      [] c[1] = "string"   -> DecString(c[2], c[3], buffer)
      [] c[1] = "list"     -> DecList(c[2], c[3], c[4], buffer)
      [] c[1] = "set"      -> DecSet(c[2], c[3], c[4], buffer)
      [] c[1] = "map"      -> DecMap(c[2], c[3], c[4], c[5], buffer)
      [] c[1] = "array"    -> DecArray(c[2], c[3], FALSE, buffer)
      [] c[1] = "array16"  -> DecArray(c[2], c[3], TRUE, buffer)
      [] c[1] = "live"     -> DecLive(c[2], c[3], 0, {}, buffer)
      [] c[1] = "chain"    -> LET r == ChainUnmarshal(buffer)
                              IN  IF ~r.ok THEN Fail
                                  ELSE Ok([i \in 1 .. c[2] |-> IsFieldSet(r.val, 7, i - 1)], r.rest)
      [] c[1] = "flat"     -> LET r == ReadBytes(buffer, Max({1, (c[2] + 7) \div 8}))
                              IN  IF ~r.ok THEN Fail
                                  ELSE Ok([i \in 1 .. c[2] |-> IsFieldSet(r.val, 8, i - 1)], r.rest)
      [] c[1] = "option"   -> LET some == ReadRaw(buffer)
                              IN  IF ~some.ok THEN Fail
                                  ELSE IF some.val THEN Dec(c[2], some.rest)
                                  ELSE Ok(None, some.rest)
      [] c[1] = "choice"   -> LET is == ReadRaw(buffer)
                                  r == Dec(IF is.val THEN c[3] ELSE c[2], is.rest)
                              IN  IF ~is.ok THEN Fail ELSE IF ~r.ok THEN Fail
                                  ELSE Ok([is |-> is.val, val |-> r.val], r.rest)
      [] c[1] = "tuple"    -> DecEach(c[2], buffer)
      [] c[1] = "omitted"  -> DecOmitted(c[2], buffer)
      [] c[1] = "masked"   -> DecMasked(c[2], c[3], buffer)
      [] c[1] = "absent"   -> Ok(None, buffer)
      [] c[1] = "entity"   -> DecEntityRef(buffer)
      [] c[1] = "gde"      -> DecGdeRef(buffer)
      [] c[1] = "euler"    -> DecComponents(Euler, buffer)
      [] c[1] = "quat"     -> DecComponents(QuatNorm, buffer)
      [] c[1] = "vec3"     -> DecComponents(Vec3Norm, buffer)
      [] c[1] = "smallest" -> DecSmallestThree(buffer)
      [] c[1] = "scale"    -> DecScale(buffer)
      [] c[1] = "transform" -> DecMasked(TransformParts, <<0, 1, 2>>, buffer)
      [] c[1] = "packed"   -> DecPackedSize(buffer)
      [] c[1] = "quantized" -> DecQuantized(c[2], c[3], c[4], buffer)
      [] c[1] = "native"   -> ReadFixed(buffer, c[2], "little")
      [] c[1] = "skip"     -> Ok({}, buffer)
      [] c[1] = "repr"     -> LET r == ReadFixed(buffer, c[2], "big")
                              IN  IF r.ok /\ r.val \in c[3] THEN r ELSE Fail
      [] c[1] = "variant"  -> DecVariant(c[2], buffer)
      [] c[1] = "nonnull"  -> LET some == ReadRaw(buffer)
                              IN  IF some.ok /\ some.val THEN Dec(c[2], some.rest) ELSE Fail
      [] c[1] = "class"    -> DecClass(c[2], buffer)
      [] c[1] = "parameters" -> DecParameters(c[2], buffer)
      [] c[1] = "mutes"    -> DecMutes(buffer)
      [] c[1] = "derived"  -> DecDerived(c[2], 1, {}, buffer)
      [] c[1] = "fixed"    -> DecFixed(c[2], buffer)

\* Whether got may be read where v was written: it is v, up to what a codec is
\* documented to lose.
Agrees(c, v, got) ==
    CASE c[1] = "gde"       -> got.actor = v.actor /\ got.target = ReadFixed(v.actor, 8, "little").val
      [] c[1] = "duration"  -> got = v \/ (got = 0 .. 31 /\ ~(v \subseteq got))
      [] c[1] = "smallest"  -> /\ got.largest = Largest(v)
                               /\ got.negative = v[Largest(v)].negative
                               /\ \A i \in (1 .. 4) \ {Largest(v)} :
                                    got.parts[i] = IF v[i].size = 0 THEN None ELSE v[i].bucket
      [] c[1] = "euler"     -> \A i \in 1 .. 3 :
                                 got.parts[i] = IF v.parts[i].exact = "one"
                                                THEN [exact |-> "no", bucket |-> {0}] ELSE v.parts[i]
      [] c[1] = "quantized" -> v - got \in 0 .. (c[3] - c[2]) \div (256^c[4] - 1) + 1
      [] c[1] \in {"masked", "transform"} -> got.vals = v.vals
      [] c[1] = "tuple" -> \A i \in 1 .. Len(c[2]) : c[2][i][1] = "skip" \/ got[i] = v[i]
      [] c[1] = "mutes" -> \* An entry whose own sequence is ValidNonSequence gets the one before it.
           /\ Len(got.entries) = Len(v.entries)
           /\ v.entries = <<>> => got = v
           /\ \A i \in 1 .. Len(v.entries) :
                LET before == IF i = 1 THEN None ELSE got.entries[i - 1].seq
                IN  got.entries[i] = IF v.entries[i].seq = {} THEN [v.entries[i] EXCEPT !.seq = before]
                                     ELSE v.entries[i]
      [] OTHER -> got = v
=============================================================================
