--------------------------- MODULE ReplicatedField ---------------------------
(***************************************************************************)
(* The field handlers of serialize/replicated_field.rs: the single slot    *)
(* ReplicatedFieldHandler and the fields that are spread over several      *)
(* slots (delta, counter, dynamic delta, float timer).                     *)
(*                                                                         *)
(* A slot is [value, last_modified, default, news]; None is Option::None.  *)
(* Sequence numbers are integers ordered as in hub/sequence_number.rs:     *)
(* Invalid, ValidNonSequence, then 1, 2, ...  A compressed field is a      *)
(* function from slot numbers, in registration order, to slots.            *)
(*                                                                         *)
(* Floats are integers in units of half a quantum: a range of DeltaRange   *)
(* units on either side is quantized to 0 .. DeltaRange (0 .. 255 in the   *)
(* code), and one axis stands for the three of a vector.                   *)
(***************************************************************************)
EXTENDS Integers, FiniteSets

CONSTANTS None,      \* no value
          ByteSize,  \* 256: the values of a byte
          DeltaRange,     \* DELTA_RANGE, the quantization of the dynamic delta
          Rollover   \* ROLLOVER_THRESHOLD of the timers, in ticks

ASSUME FieldAssumption ==
    /\ ByteSize \in Nat \ {0, 1} /\ DeltaRange \in Nat \ {0}
    /\ Rollover \in 1 .. ByteSize * ByteSize * ByteSize * ByteSize  \* the ticks are a u32
    /\ None \notin Int

Invalid == -1
ValidNonSequence == 0
IsValid(s) == s # Invalid
Later(s, t) == IF s < t THEN t ELSE s

-----------------------------------------------------------------------------
(* One slot.                                                               *)

\* ReplicatedFieldHandler::default.
Unset == [value |-> None, last_modified |-> Invalid, default |-> None, news |-> FALSE]

\* some: a present value that no sequence number is known of.
Some(v) == [Unset EXCEPT !.value = v, !.last_modified = ValidNonSequence]

\* set_default_value, of a slot that is not valid yet.
SetDefaultValue(f, d) ==
    IF IsValid(f.last_modified) THEN f ELSE [f EXCEPT !.value = d, !.default = d]

\* effective_value: T::default() where there is none.
Effective(f, zero) == IF f.value = None THEN zero ELSE f.value

IsDefaultValue(f) == f.default # None /\ f.value = f.default
HasValue(f) == IsValid(f.last_modified) \/ IsDefaultValue(f)

\* Mutant of IsDirtySince: a change at the baseline's successor is overlooked.
IsDirtySinceLate(f, baseline) == IsValid(f.last_modified) /\ baseline + 1 < f.last_modified

\* is_dirty_since.
IsDirtySince(f, baseline) == IsValid(f.last_modified) /\ baseline < f.last_modified

\* set_value: a default is stored but not replicated.
SetValue(f, v) ==
    [f EXCEPT !.value = v,
              !.last_modified = IF f.default = v THEN Invalid ELSE ValidNonSequence]

\* clear_value, set_optional_value(None).
ClearValue(f) == [f EXCEPT !.value = None, !.last_modified = Invalid, !.news = FALSE]

\* access: the callback changed the value to v.
Access(f, v) == [f EXCEPT !.value = v, !.last_modified = ValidNonSequence]

\* set_current_value_as_default.
SetCurrentValueAsDefault(f, zero) ==
    [f EXCEPT !.value = Effective(f, zero), !.default = Effective(f, zero),
              !.last_modified = Invalid]

\* Mutant of Decoded: the decoded value is not marked as valid.
DecodedInvalid(v) == [Unset EXCEPT !.value = v, !.news = TRUE]

\* Unmarshal::unmarshal of a slot whose value was decoded to v.
Decoded(v) == [Some(v) EXCEPT !.news = TRUE]

ResetNews(f) == [f EXCEPT !.news = FALSE]

\* Mutant of MergeField: news that were not consumed are forgotten.
MergeFieldForgets(old, new, seq, inherit, zero) ==
    LET default == IF old.default # None THEN old.default ELSE new.default
    IN  IF IsValid(new.last_modified) /\ Effective(old, zero) # Effective(new, zero)
        THEN [value |-> new.value, last_modified |-> seq, default |-> default, news |-> TRUE]
        ELSE [old EXCEPT !.default = default, !.news = FALSE]

\* merge_and_update_sequence into a fresh slot.  What is new is stamped with the
\* merge's sequence number and is news; what is not keeps the old stamp.  (The
\* branch of one slot merged into itself needs two references that Rust does
\* not give out.)
MergeField(old, new, seq, inherit, zero) ==
    LET equal == Effective(old, zero) = Effective(new, zero)
        default == IF old.default # None THEN old.default ELSE new.default
        kept == [old EXCEPT !.default = default, !.news = inherit /\ old.news]
        taken == [value |-> new.value, last_modified |-> seq, default |-> default,
                  news |-> TRUE]
    IN  CASE IsDefaultValue(new) ->
               IF equal
               THEN [kept EXCEPT !.value = new.value,
                                 !.news = old.news /\ (inherit \/ IsValid(old.last_modified))]
               ELSE taken
          [] ~IsDefaultValue(new) /\ IsValid(new.last_modified) ->
               IF IsValid(old.last_modified) /\ equal THEN kept ELSE taken
          [] OTHER -> kept

\* The result of that merge: whether it saw something new.
Detected(old, new, zero) ==
    LET equal == Effective(old, zero) = Effective(new, zero)
    IN  \/ IsDefaultValue(new) /\ ~equal
        \/ /\ ~IsDefaultValue(new) /\ IsValid(new.last_modified)
           /\ ~(IsValid(old.last_modified) /\ equal)

-----------------------------------------------------------------------------
(* Quantization.                                                           *)

Clamp(v, lo, hi) == IF v < lo THEN lo ELSE IF v > hi THEN hi ELSE v

\* quantize_delta, quantize_with_range: truncated, then clamped.
Quantize(d) == Clamp((d + DeltaRange) \div 2, 0, DeltaRange)

\* unquantize_delta, unquantize_with_range.
Unquantize(q) == 2 * q - DeltaRange

\* QuantizedRelativePosition::ZERO_SENTINEL: the last bucket stands for zero.
ZeroSentinel == DeltaRange

\* Mutant of WithinDelta: the ends of the range are within it.
WithinDeltaClosed(absolute, v) == absolute - v \in -DeltaRange .. DeltaRange

\* is_within_delta, strict.
WithinDelta(absolute, v) == absolute - v \in -DeltaRange + 1 .. DeltaRange - 1

-----------------------------------------------------------------------------
(* Fields of several slots.  The kinds are the impls of FixedStateRegister *)
(* in hub/fixed_replicated_state.rs.                                       *)

Kinds == {"delta", "counter", "dynamic", "timer"}

\* FIELD_COUNT of each, and the order in which its slots are visited.
Slots(kind) == CASE kind \in {"delta", "counter"} -> 0 .. 1  \* absolute, relative
                 [] kind = "dynamic" -> 0 .. 2               \* absolute, relative, quantization
                 [] kind = "timer" -> 0 .. 3                 \* bytes, lowest first

\* T::default() of a slot.
SlotZero(kind, s) == IF kind = "dynamic" /\ s = 1 THEN ZeroSentinel ELSE 0

SlotValue(field, kind, s) == Effective(field[s], SlotZero(kind, s))

\* DeltaCompressedReplicatedFieldHandler::set_value.
SetDelta(f, v) ==
    IF IsValid(f[0].last_modified) /\ WithinDelta(Effective(f[0], 0), v)
    THEN [f EXCEPT ![1] = SetValue(@, v - Effective(f[0], 0))]
    ELSE [f EXCEPT ![0] = SetValue(@, v), ![1] = SetValue(@, 0)]

\* DeltaCompressedCounterHandler::set_value: the absolute portion is a multiple
\* of ByteSize, the window is the ByteSize values from it on.
SetCounter(f, v) ==
    LET absolute == Effective(f[0], 0)
        rest == v % ByteSize
    IN  IF IsValid(f[0].last_modified) /\ v - absolute \in 0 .. ByteSize - 1
        THEN [f EXCEPT ![1] = SetValue(@, v - absolute)]
        ELSE [f EXCEPT ![0] = SetValue(@, v - rest), ![1] = SetValue(@, rest)]

\* DynamicDeltaReplicatedFieldHandler::set_value.  A change of the quantization
\* starts from a new anchor.
SetDynamic(f, v, quantization) ==
    IF /\ IsValid(f[0].last_modified) /\ f[2].value = quantization
       /\ WithinDelta(Effective(f[0], 0), v)
    THEN [f EXCEPT ![1] = SetValue(@, Quantize(v - Effective(f[0], 0)))]
    ELSE [f EXCEPT ![0] = SetValue(@, v), ![1] = SetValue(@, ZeroSentinel),
                   ![2] = SetValue(@, quantization)]

\* The weight of byte i, and byte i of v.
Weight(i) == IF i = 0 THEN 1 ELSE IF i = 1 THEN ByteSize
             ELSE IF i = 2 THEN ByteSize * ByteSize ELSE ByteSize * ByteSize * ByteSize
Byte(v, i) == (v \div Weight(i)) % ByteSize

\* raw_quantized_value.
RawTimer(f) == LET b(i) == Effective(f[i], 0) * Weight(i) IN b(0) + b(1) + b(2) + b(3)

\* bytes_required: the bytes up to the highest one that differs.
BytesRequired(new, old) ==
    CHOOSE n \in 1 .. 4 :
        /\ \A i \in n .. 3 : Byte(new, i) = Byte(old, i)
        /\ n > 1 => Byte(new, n - 1) # Byte(old, n - 1)

\* FloatTimerDeltaReplicatedField::set_value, one tick per unit.  quantize_value
\* takes off whole rollovers.
SetTimer(f, v) ==
    LET q == v % Rollover
        bytes == IF \A i \in 0 .. 3 : IsValid(f[i].last_modified)
                 THEN BytesRequired(q, RawTimer(f)) ELSE 4
    IN  [i \in 0 .. 3 |-> IF i < bytes THEN SetValue(f[i], Byte(q, i)) ELSE f[i]]

\* set_value of each kind; a caller passes the quantization with a dynamic value.
SetField(f, kind, v) ==
    CASE kind = "delta"   -> SetDelta(f, v)
      [] kind = "counter" -> SetCounter(f, v)
      [] kind = "dynamic" -> SetDynamic(f, v, DeltaRange)
      [] kind = "timer"   -> SetTimer(f, v)

\* value() of each kind.
ReadField(f, kind) ==
    CASE kind \in {"delta", "counter"} -> Effective(f[0], 0) + Effective(f[1], 0)
      [] kind = "timer"   -> RawTimer(f)
      [] kind = "dynamic" ->
           IF f[0].value = None THEN 0
           ELSE IF SlotValue(f, kind, 1) = ZeroSentinel \/ ~HasValue(f[2]) THEN f[0].value
           ELSE f[0].value + Unquantize(f[1].value)

\* What a slot's codec writes and the receiver's decodes: DeltaMarshaler
\* quantizes, IntegerOmitLowerByteMarshaler drops the low byte,
\* DeltaIntegerMarshaler and the timers' bytes keep nothing but it.
OnTheWire(kind, s, v) ==
    CASE kind = "delta" /\ s = 1   -> Unquantize(Quantize(v))
      [] kind = "counter" /\ s = 0 -> (v \div ByteSize) * ByteSize
      [] (kind = "counter" /\ s = 1) \/ kind = "timer" -> v % ByteSize
      [] OTHER -> v
=============================================================================
