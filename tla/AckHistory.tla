------------------------------ MODULE AckHistory ------------------------------
(***************************************************************************)
(* The operators of carrier/datagram_history.rs: the ring of received      *)
(* datagrams (DatagramHistoryList), the ACK frame written from it and what *)
(* an ACK frame does to the peer's queue of sent datagrams.                *)
(*                                                                         *)
(* A history is a record [el, first, last, active]: el[i] is the slot i    *)
(* with its sequence number and the times it was acknowledged (-1: not     *)
(* used), first and last the bounds of the active range (last one past the *)
(* end) and active the count of used slots.  Loops of the code that walk   *)
(* the ring are recursive functions of the number of iterations: none of   *)
(* them goes round the ring more than once.                                *)
(***************************************************************************)
EXTENDS SeqNum, FiniteSets

CONSTANTS HistorySize,  \* MAX_ELEMENTS: 512 slots in the code
          MaxNumAcks,   \* MAX_NUM_ACKS: 3 in the code
          ByteBits      \* bits of one bitmap byte: 8 in the code

\* The slot of a sequence number does not move when the number wraps, and a
\* history is no longer than half of the sequence space.
ASSUME HistoryAssumption ==
    /\ HistorySize \in Nat \ {0}
    /\ SeqSpan % HistorySize = 0
    /\ 2 * HistorySize <= SeqSpan
    /\ MaxNumAcks \in Nat \ {0}
    /\ ByteBits \in Nat \ {0}

Slots == 0 .. HistorySize - 1

History == [el : [Slots -> [seq : SeqNums, acks : -1 .. MaxNumAcks - 1]],
            first : Slots, last : Slots, active : 0 .. HistorySize]

\* DatagramHistoryList::new.
NewHistory == [el |-> [i \in Slots |-> [seq |-> 0, acks |-> -1]],
               first |-> 0, last |-> 0, active |-> 0]

\* add and sub: one slot on, one slot back.
AddSlot(i) == (i + 1) % HistorySize
SubSlot(i) == (i - 1) % HistorySize

LastIndex(h) == SubSlot(h.last)
IsValid(h, i) == h.el[i].acks # -1
ValidSlots(h) == {i \in Slots : IsValid(h, i)}

\* One turn of the loops of remove, at slot j.
PassUnused(h, j, step) == IF IsValid(h, j) THEN j ELSE (j + step) % HistorySize

\* The used slot nearest to i in the direction of step (1 or -1); i itself if
\* used.
NearestValid(h, i, step) ==
    LET walk[n \in 0 .. HistorySize] ==
            IF n = 0 THEN i ELSE PassUnused(h, walk[n - 1], step)
    IN  walk[HistorySize]

\* Mutant of Remove: the end of the range steps back over one slot only.
RemoveOneStep(h, i) ==
    LET g == [h EXCEPT !.active = IF IsValid(h, i) THEN @ - 1 ELSE @, !.el[i].acks = -1]
    IN  IF g.active = 0
        THEN [h |-> [g EXCEPT !.first = g.last], next |-> g.last]
        ELSE IF g.first = i
        THEN LET f == NearestValid(g, i, 1)
             IN  [h |-> [g EXCEPT !.first = f], next |-> f]
        ELSE IF LastIndex(g) = i
        THEN [h |-> [g EXCEPT !.last = i], next |-> i]
        ELSE [h |-> g, next |-> AddSlot(i)]

\* remove: free slot i and pull the nearer bound of the range over the free
\* slots next to it.  Returns the history and where an iteration goes on.
Remove(h, i) ==
    LET g == [h EXCEPT !.active = IF IsValid(h, i) THEN @ - 1 ELSE @, !.el[i].acks = -1]
    IN  IF g.active = 0
        THEN [h |-> [g EXCEPT !.first = g.last], next |-> g.last]
        ELSE IF g.first = i
        THEN LET f == NearestValid(g, i, 1)
             IN  [h |-> [g EXCEPT !.first = f], next |-> f]
        ELSE IF LastIndex(g) = i
        THEN LET l == AddSlot(NearestValid(g, i, -1))
             IN  [h |-> [g EXCEPT !.last = l], next |-> l]
        ELSE [h |-> g, next |-> AddSlot(i)]

\* get_for_ack: count one more ACK of slot i; the MaxNumAcks-th frees it.
GetForAck(h, i) ==
    IF h.el[i].acks + 1 >= MaxNumAcks
    THEN Remove([h EXCEPT !.el[i].acks = MaxNumAcks - 1], i)
    ELSE [h |-> [h EXCEPT !.el[i].acks = @ + 1], next |-> AddSlot(i)]

\* One turn of the eviction loop of insert: the first slot goes if its number is
\* older than newFirst.
EvictFirst(g, newFirst) ==
    IF g.active # 0 /\ SeqLess(g.el[g.first].seq, newFirst)
    THEN [g EXCEPT !.active = IF IsValid(g, g.first) THEN @ - 1 ELSE @,
                   !.el[g.first].acks = -1,
                   !.first = AddSlot(@)]
    ELSE g

\* The loop: drop from the front what would share its slots with the HistorySize
\* numbers up to id.
Evict(h, id) ==
    LET newFirst == (id - (HistorySize - 1)) % SeqSpan
        walk[n \in 0 .. HistorySize] ==
            IF n = 0 THEN h ELSE EvictFirst(walk[n - 1], newFirst)
    IN  walk[HistorySize]

\* Mutant of InsertNewer: nothing is evicted.
InsertNoEvict(h, id) ==
    LET i == id % HistorySize
    IN  [h EXCEPT !.last = AddSlot(i),
                  !.active = @ + 1,
                  !.el[i] = [seq |-> id, acks |-> 0]]

\* insert on an id newer than the last one of the range.
InsertNewer(h, id) ==
    LET g == Evict(h, id)
        i == id % HistorySize
    IN  [g EXCEPT !.first = IF g.active = 0 THEN i ELSE @,
                  !.last = AddSlot(i),
                  !.active = @ + 1,
                  !.el[i] = [seq |-> id, acks |-> 0]]

\* insert on an id that is not newer: its slot is taken, first and last stay.
InsertOlder(h, id) ==
    LET i == id % HistorySize
    IN  [h EXCEPT !.active = IF IsValid(h, i) THEN @ ELSE @ + 1,
                  !.el[i] = [seq |-> id, acks |-> 0]]

\* The case in which insert returns false.
IsDuplicate(h, id) ==
    LET i == id % HistorySize
    IN  /\ h.active # 0
        /\ ~SeqLess(h.el[LastIndex(h)].seq, id)
        /\ IsValid(h, i)
        /\ h.el[i].seq = id

\* insert.
Insert(h, id) ==
    LET i == id % HistorySize
    IN  IF h.active = 0
        THEN [h EXCEPT !.first = i, !.last = AddSlot(i), !.active = 1,
                       !.el[i] = [seq |-> id, acks |-> 0]]
        ELSE IF SeqLess(h.el[LastIndex(h)].seq, id) THEN InsertNewer(h, id)
        ELSE IF IsDuplicate(h, id) THEN h
        ELSE InsertOlder(h, id)

-----------------------------------------------------------------------------
\* An ACK frame (AckData): a keep-alive, a range of numbers, or the number
\* `last' with the distances back from it whose bit is set, out of nbits.
Ack == [kind : {"keepalive", "range", "bits"}, first : SeqNums, last : SeqNums,
        nbits : Nat, bits : SUBSET (1 .. SeqSpan)]

KeepAlive == [kind |-> "keepalive", first |-> 0, last |-> 0, nbits |-> 0, bits |-> {}]
RangeAck(first, last) ==
    [kind |-> "range", first |-> first, last |-> last, nbits |-> 0, bits |-> {}]
BitsAck(last, nbits, bits) ==
    [kind |-> "bits", first |-> 0, last |-> last, nbits |-> nbits, bits |-> bits]

\* One turn of the loop of write_ack_history: a used slot is acknowledged once
\* more and its distance back from lastToAck noted, unless the slot is the last.
AckSlot(w, lastToAck) ==
    IF w.i = LastIndex(w.h) \/ w.i = w.h.last THEN w
    ELSE IF ~IsValid(w.h, w.i) THEN [w EXCEPT !.i = AddSlot(@)]
    ELSE LET r == GetForAck(w.h, w.i)
         IN  [h |-> r.h, i |-> r.next,
              bits |-> w.bits \cup ({SeqDist(w.h.el[w.i].seq, lastToAck)} \ {0})]

\* The loop from slot i on.  Returns the history and the set of distances.
AckWalk(g, i, lastToAck) ==
    LET walk[n \in 0 .. HistorySize] ==
            IF n = 0 THEN [h |-> g, i |-> i, bits |-> {}]
            ELSE AckSlot(walk[n - 1], lastToAck)
    IN  walk[HistorySize]

\* The bitmap's length in bits: whole bytes, at most HistorySize bits.
BitmapBits(dist) ==
    LET bytes == (dist + ByteBits - 1) \div ByteBits
    IN  IF bytes * ByteBits <= HistorySize THEN bytes * ByteBits ELSE HistorySize

\* write_ack_history, read back by read_ack_data_frame on the other side.
WriteAckHistory(h) ==
    IF h.active = 0 THEN [h |-> h, ack |-> KeepAlive]
    ELSE LET firstToAck == h.el[h.first].seq
             lastToAck == h.el[LastIndex(h)].seq
             g == GetForAck(h, LastIndex(h)).h
             dist == SeqDist(firstToAck, lastToAck)
             w == AckWalk(g, h.first, lastToAck)
         IN  IF dist = 0
             THEN [h |-> g, ack |-> RangeAck(lastToAck, lastToAck)]
             ELSE IF dist = h.active - 1
             THEN [h |-> w.h, ack |-> RangeAck(firstToAck, lastToAck)]
             ELSE [h |-> w.h,
                   ack |-> BitsAck(lastToAck, BitmapBits(dist),
                                   w.bits \cap (1 .. BitmapBits(dist)))]

-----------------------------------------------------------------------------
(* apply_ack_data_to_send_queue, for one sent datagram s.                  *)

\* Mutant of RangeAcks: a range acknowledges everything up to its end.
RangeAcksCumulative(ack, s) == s = ack.last \/ SeqLess(s, ack.last)

RangeAcks(ack, s) ==
    \/ s = ack.first
    \/ s = ack.last
    \/ ack.first # ack.last /\ SeqLess(ack.first, s) /\ SeqLess(s, ack.last)

\* Mutant of BitsAcks: bit 0 stands for the last number itself.
BitsAcksShifted(ack, s) ==
    \/ s = ack.last
    \/ SeqLess(s, ack.last) /\ SeqDist(s, ack.last) + 1 \in ack.bits

BitsAcks(ack, s) ==
    \/ s = ack.last
    \/ SeqLess(s, ack.last) /\ SeqDist(s, ack.last) \in ack.bits

\* The datagram leaves the queue of sent datagrams.
IsAcked(ack, s) ==
    \/ ack.kind = "range" /\ RangeAcks(ack, s)
    \/ ack.kind = "bits" /\ BitsAcks(ack, s)

\* The datagram is skipped by the ACK: nack_datagram makes it look older.
IsNacked(ack, s) ==
    /\ ~IsAcked(ack, s)
    /\ \/ ack.kind = "range" /\ SeqLess(s, ack.first)
       \/ ack.kind = "bits" /\ SeqLess(s, ack.last)
===============================================================================
