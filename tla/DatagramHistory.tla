--------------------------- MODULE DatagramHistory ---------------------------
(***************************************************************************)
(* The acknowledgement loop of the carrier around datagram_history.rs: a   *)
(* sender numbers datagrams and keeps them until they are acknowledged or  *)
(* time out; the receiver enters each arrival into its history and writes  *)
(* ACK frames from it; ACK frames travel back, may be lost, and prune the  *)
(* sender's queue.                                                         *)
(*                                                                         *)
(* A datagram is identified by its rank (a ghost, 2 for the first one); on *)
(* the wire it is rank % SeqSpan.                                          *)
(***************************************************************************)
EXTENDS AckHistory, Sequences

CONSTANTS MaxDatagram,   \* bound: rank of the last datagram sent
          MaxAhead,      \* bound: ranks sent ahead of the oldest one not known received
          MaxLate,       \* bound: how far behind the newest arrival one may arrive
          MaxAcks        \* bound: ACK frames in flight

ASSUME DatagramHistoryAssumption ==
    /\ MaxDatagram \in Nat \ {0}
    /\ MaxAhead \in 1 .. SeqSpan \div 2 - 1
    /\ MaxLate \in 0 .. HistorySize - 1
    /\ MaxAcks \in Nat \ {0}

VARIABLES
    lastSent,   \* datagram_seq_num, as a rank
    unacked,    \* send_datagrams: ranks sent and neither acked nor expired
    newest,     \* the newest rank that arrived (ghost)
    arrived,    \* the ranks of unacked that arrived (ghost)
    history,    \* received_datagrams_history
    acks        \* ACK frames on their way back, oldest first

vars == <<lastSent, unacked, newest, arrived, history, acks>>

OldestUnacked == CHOOSE r \in unacked : \A s \in unacked : r <= s

Init ==
    /\ lastSent = 1
    /\ unacked = {}
    /\ newest = 1
    /\ arrived = {}
    /\ history = NewHistory
    /\ acks = << >>

\* The numbering half of prepare_outgoing_datagram.  The sender stays less
\* than half of the sequence space ahead of its oldest unacknowledged
\* datagram, of the newest arrival and of the ACK frames in flight: in the
\* code the one second timeout, not a window, keeps it there.
Send ==
    /\ lastSent < MaxDatagram
    /\ unacked # {} => lastSent + 1 - OldestUnacked <= MaxAhead
    /\ lastSent + 1 - newest <= MaxAhead
    /\ \A k \in 1 .. Len(acks) : acks[k].kind # "keepalive" =>
          SeqDist(acks[k].last, (lastSent + 1) % SeqSpan) < SeqSpan \div 2
    /\ lastSent' = lastSent + 1
    /\ unacked' = unacked \cup {lastSent + 1}
    /\ UNCHANGED <<newest, arrived, history, acks>>

\* What the network may deliver: it loses, duplicates and, within MaxLate,
\* reorders datagrams.  It does not lose so many that a slot of the ring goes
\* unused for half of the sequence space (64 rounds of the ring in the code):
\* the number left in it would then pass for a newer one.  Nor does it deliver one
\* that is older than the whole active range: insert counts it without moving
\* first, after which the count is wrong and the next gap passes for none.
Deliverable(r) ==
    /\ r + MaxLate >= newest
    /\ r > newest => \A i \in Slots :
                        SeqDist(history.el[i].seq, r % SeqSpan) < SeqSpan \div 2
    /\ history.active # 0 => ~SeqLess(r % SeqSpan, history.el[history.first].seq)

\* A datagram arrives: insert in process_incoming_datagram.
Arrive(r) ==
    /\ Deliverable(r)
    /\ history' = Insert(history, r % SeqSpan)
    /\ newest' = IF r > newest THEN r ELSE newest
    /\ arrived' = arrived \cup ({r} \cap unacked)
    /\ UNCHANGED <<lastSent, unacked, acks>>

\* write_ack_data, on the way out of the receiver.
SendAck ==
    /\ Len(acks) < MaxAcks
    /\ LET w == WriteAckHistory(history)
       IN  history' = w.h /\ acks' = Append(acks, w.ack)
    /\ UNCHANGED <<lastSent, unacked, newest, arrived>>

\* read_ack_data: prune the queue of sent datagrams.
ReceiveAck ==
    /\ acks # << >>
    /\ unacked' = {r \in unacked : ~IsAcked(Head(acks), r % SeqSpan)}
    /\ arrived' = arrived \cap unacked'
    /\ acks' = Tail(acks)
    /\ UNCHANGED <<lastSent, newest, history>>

LoseAck ==
    /\ acks # << >>
    /\ acks' = Tail(acks)
    /\ UNCHANGED <<lastSent, unacked, newest, arrived, history>>

\* process_resends pops the oldest datagram once its second is over; its
\* reliable messages travel on in later datagrams.
Expire ==
    /\ unacked # {}
    /\ unacked' = unacked \ {OldestUnacked}
    /\ arrived' = arrived \cap unacked'
    /\ UNCHANGED <<lastSent, newest, history, acks>>

Next ==
    \/ Send
    \/ \E r \in 2 .. lastSent : Arrive(r)
    \/ SendAck
    \/ ReceiveAck
    \/ LoseAck
    \/ Expire

Spec == Init /\ [][Next]_vars

-----------------------------------------------------------------------------
\* Every variable stays in its type; in particular the count of used slots
\* never leaves 0 .. HistorySize (the code would underflow a usize).
TypeOK ==
    /\ lastSent \in 1 .. MaxDatagram
    /\ unacked \subseteq 2 .. lastSent
    /\ newest \in 1 .. lastSent
    /\ arrived \subseteq unacked
    /\ history \in History
    /\ \A i \in 1 .. Len(acks) : acks[i] \in Ack

\* num_active_elements is the number of used slots (the two loops of remove look
\* for one whenever it is not zero and spin for ever if there is none), first and
\* last delimit them (the comment on DatagramHistoryList), and along the range
\* sequence numbers grow with the slots: what write_ack_history relies on when it
\* compares the distance of the two ends with the count to find the range free of
\* gaps.
RangeDelimits ==
    LET offset(i) == (i - history.first) % HistorySize
        lastSeq == history.el[LastIndex(history)].seq
    IN  /\ history.active = Cardinality(ValidSlots(history))
        /\ history.active # 0 =>
             /\ IsValid(history, LastIndex(history))
             /\ \A i \in ValidSlots(history) :
                   SeqDist(history.el[i].seq, lastSeq)
                       = offset(LastIndex(history)) - offset(i)

\* The sender never drops an unacknowledged datagram because of an ACK
\* unless that very datagram arrived: no range and no bitmap claims more
\* than the receiver got.  What is dropped is never sent again.
AckSound == [][ReceiveAck => unacked \ unacked' \subseteq arrived]_vars
===============================================================================
