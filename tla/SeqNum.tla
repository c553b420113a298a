-------------------------------- MODULE SeqNum --------------------------------
(***************************************************************************)
(* The wrapping sequence numbers of the GridMate carrier (SequenceNumber,  *)
(* carrier/types.rs).  The code uses u16; the width is a parameter here so *)
(* that TLC can reach the wrap and the proofs hold for every width.        *)
(***************************************************************************)
EXTENDS Integers

CONSTANT SeqSpan     \* how many sequence numbers there are: 2^16 in the code

ASSUME SeqSpanAssumption == SeqSpan \in Nat /\ SeqSpan >= 2

SeqNums == 0 .. SeqSpan - 1

\* SEQUENCE_NUMBER_MAX, also the "nothing delivered yet" sentinel.
SeqMax == SeqSpan - 1

\* SequenceNumber::next (u16 wrapping_add 1).
NextSeq(s) == (s + 1) % SeqSpan

\* sequence_number_sequential_distance: u16 wrapping_sub, to - from.
SeqDist(from, to) == (to - from) % SeqSpan

\* seq_less_than: the forward distance from a to b is inside the half span.
SeqLess(a, b) == a # b /\ SeqDist(a, b) < SeqSpan \div 2
===============================================================================
