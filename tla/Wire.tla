-------------------------------- MODULE Wire --------------------------------
(***************************************************************************)
(* Bytes, buffers and the self-delimiting codecs: serialize/buffer.rs,     *)
(* vlq.rs, mask_chain.rs and flat_bitmask.rs.                              *)
(*                                                                         *)
(* An unsigned value is the set of its one bits, so that all 64 of them    *)
(* can be told apart; a byte is such a set within 0 .. 7.  A WriteBuffer   *)
(* is the sequence of its bytes, a ReadBuffer what is left of it.  A read  *)
(* gives [ok, val, rest], and Fail for every error.                        *)
(***************************************************************************)
EXTENDS Integers, SequencesExt

CONSTANT None  \* Option::None

Bits(n) == {b \in 0 .. 30 : (n \div 2^b) % 2 = 1}

\* byte: the byte that starts at bit k.
ByteOf(v, k) == {b \in 0 .. 7 : b + k \in v}

Number(v) == MapThenSumSet(LAMBDA b : 2^b, v)

\* Its inverse.
At(byte, k) == {b + k : b \in byte}

Fail == [ok |-> FALSE, val |-> {}, rest |-> <<>>]
Ok(val, rest) == [ok |-> TRUE, val |-> val, rest |-> rest]

-----------------------------------------------------------------------------
(* Buffers.                                                                *)

\* read_bytes, read_array: n bytes or none.
ReadBytes(buffer, n) ==
    IF n > Len(buffer) THEN Fail
    ELSE Ok(SubSeq(buffer, 1, n), SubSeq(buffer, n + 1, Len(buffer)))

\* truncate, truncate_to.
Truncate(buffer, mark) == SubSeq(buffer, 1, mark)

\* with_fixed_prefix: a prefix that is patched once the body is known.
WithFixedPrefix(buffer, prefix, body) == buffer \o prefix \o body

\* write_u16, write_u32 and u64::marshal; the carrier's endian is big.
WriteFixed(v, width, endian) ==
    [i \in 1 .. width |-> ByteOf(v, IF endian = "big" THEN 8 * (width - i) ELSE 8 * (i - 1))]

\* read_u8, read_u16, read_u32 and u64::unmarshal.
ReadFixed(buffer, width, endian) ==
    LET r == ReadBytes(buffer, width)
        place(i) == IF endian = "big" THEN 8 * (width - i) ELSE 8 * (i - 1)
    IN  IF ~r.ok THEN Fail
        ELSE Ok(UNION {At(r.val[i], place(i)) : i \in 1 .. width}, r.rest)

\* read_raw: no byte but 0 and 1 is a bool.
ReadRaw(buffer) ==
    LET r == ReadFixed(buffer, 1, "big")
    IN  IF ~r.ok \/ r.val \notin {{}, {0}} THEN Fail ELSE Ok(r.val = {0}, r.rest)

-----------------------------------------------------------------------------
(* Variable length quantities of 2, 4 or 8 bytes.                          *)

\* The marker of an encoding of n bytes, n - 1 ones from the top of the first
\* byte, and the number of low bits of the value that stand below it.
VlqPrefix(n) == (9 - n) .. 7
VlqLow(n) == IF n = 9 THEN 0 ELSE 8 - n

\* The length that marshal chooses.  In the u64 encoder the test for five bytes,
\* v < 0x0800_0000, comes after v < 0x1000_0000: five bytes are never written.
VlqLength(v, width) ==
    LET short == CASE width = 2 -> 1 .. 2 [] width = 4 -> 1 .. 4 [] width = 8 -> (1 .. 8) \ {5}
        fits == {n \in short : v \subseteq 0 .. 7 * n - 1}
    IN  IF fits = {} THEN width + 1 ELSE Min(fits)

\* VlqU16Marshaler::marshal, VlqU32Marshaler::marshal, VlqU64Marshaler::marshal.
VlqMarshal(v, width) ==
    LET n == VlqLength(v, width)
        low == VlqLow(n)
    IN  <<VlqPrefix(n) \cup {b \in v : b < low}>>
        \o [i \in 1 .. n - 1 |-> ByteOf(v, low + 8 * (i - 1))]

\* The length that the first byte announces.
VlqAnnounced(first, width) ==
    LET n == CHOOSE n \in 1 .. 9 : VlqPrefix(n) \subseteq first /\ (n = 9 \/ 8 - n \notin first)
    IN  IF width < 8 /\ n > 5 THEN 5 ELSE n

\* Their unmarshal.  A u32 loses what is shifted out of it, a u16 that does not
\* fit is refused.
VlqUnmarshal(buffer, width) ==
    IF buffer = <<>> THEN Fail
    ELSE LET n == VlqAnnounced(buffer[1], width)
             low == VlqLow(n)
             bits == {b \in buffer[1] : b < low}
                     \cup UNION {At(buffer[i], low + 8 * (i - 2)) : i \in 2 .. n}
             v == bits \cap (0 .. 8 * Max({width, 4}) - 1)
         IN  IF Len(buffer) < n \/ (width = 2 /\ ~(v \subseteq 0 .. 15)) THEN Fail
             ELSE Ok(v, SubSeq(buffer, n + 1, Len(buffer)))

\* SequenceNumber::marshal: an optional VLQ; Invalid, here None, is Option::None.
SequenceMarshal(s) == IF s = None THEN <<{}>> ELSE <<{0}>> \o VlqMarshal(s, 8)

\* SequenceNumber::unmarshal; u64::MAX is Invalid as well.
SequenceUnmarshal(buffer) ==
    LET some == ReadRaw(buffer)
        r == VlqUnmarshal(some.rest, 8)
    IN  IF ~some.ok \/ (some.val /\ ~r.ok) THEN Fail
        ELSE IF ~some.val THEN Ok(None, some.rest)
        ELSE Ok(IF r.val = 0 .. 63 THEN None ELSE r.val, r.rest)

-----------------------------------------------------------------------------
(* Presence masks.  Field i of a mask is TRUE or FALSE.                    *)

\* div_ceil, and one byte for an empty mask.
MaskBytes(flags, perByte) == Max({1, (Len(flags) + perByte - 1) \div perByte})

MaskByte(flags, perByte, i) ==
    {b \in 0 .. perByte - 1 : /\ perByte * (i - 1) + b < Len(flags)
                              /\ flags[perByte * (i - 1) + b + 1]}

\* MaskChain::from_dirty_fields: seven fields to a byte, bit 7 says that another
\* byte follows.
ChainMarshal(flags) ==
    LET n == MaskBytes(flags, 7)
    IN  [i \in 1 .. n |-> MaskByte(flags, 7, i) \cup (IF i < n THEN {7} ELSE {})]

\* MaskChain::unmarshal, MaskChain::skip: up to the first byte without bit 7.
ChainUnmarshal(buffer) ==
    LET ends == {i \in 1 .. Len(buffer) : 7 \notin buffer[i]}
    IN  IF ends = {} THEN Fail ELSE ReadBytes(buffer, Min(ends))

\* FlatBitmask::from_dirty: eight to a byte, and no end marker.
FlatMarshal(flags) == [i \in 1 .. MaskBytes(flags, 8) |-> MaskByte(flags, 8, i)]

\* is_field_set of both; a field beyond the mask is absent.
IsFieldSet(mask, perByte, field) ==
    /\ field \div perByte < Len(mask)
    /\ field % perByte \in mask[field \div perByte + 1]
=============================================================================
