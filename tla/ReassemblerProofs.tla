-------------------------- MODULE ReassemblerProofs --------------------------
(***************************************************************************)
(* Proofs about Reassembler, for every sequence-number width, number of    *)
(* channels and bound: type correctness, exactly-once in-order delivery of *)
(* whole reliable messages, and the gate on unreliable ones.               *)
(***************************************************************************)
EXTENDS Reassembler, SequenceTheorems, WellFoundedInduction, TLAPS

-----------------------------------------------------------------------------
(* Arithmetic of wrapping sequence numbers.                                *)

\* The residue of a number is a sequence number, and what it differs by is a
\* multiple of the span.
LEMMA Residue ==
    ASSUME NEW a \in Int
    PROVE  /\ a % SeqSpan \in SeqNums
           /\ a \div SeqSpan \in Int
           /\ a = SeqSpan * (a \div SeqSpan) + (a % SeqSpan)
BY SeqSpanAssumption DEF SeqNums

\* A residue is determined by any decomposition with a remainder in range.
LEMMA ResidueUnique ==
    ASSUME NEW a \in Int, NEW k \in Int, NEW r \in SeqNums,
           a = SeqSpan * k + r
    PROVE  a % SeqSpan = r
<1> DEFINE j == a \div SeqSpan
<1> DEFINE s == a % SeqSpan
<1>1. j \in Int /\ s \in SeqNums /\ a = SeqSpan * j + s
  BY Residue
<1> HIDE DEF j, s
<1>2. SeqSpan * (k - j) = s - r
  BY <1>1, SeqSpanAssumption DEF SeqNums
<1>3. k - j < 1 /\ k - j > -1
  <2> DEFINE d == k - j
  <2>1. d \in Int /\ SeqSpan * d < SeqSpan /\ SeqSpan * d > -SeqSpan
    BY <1>1, <1>2, SeqSpanAssumption DEF SeqNums
  <2> HIDE DEF d
  <2>2. ~(d >= 1)
    <3>1. d >= 1 => SeqSpan * d >= SeqSpan
      BY <2>1, SeqSpanAssumption
    <3> QED BY <3>1, <2>1, SeqSpanAssumption
  <2>3. ~(d <= -1)
    <3>1. d <= -1 => SeqSpan * d <= -SeqSpan
      BY <2>1, SeqSpanAssumption
    <3> QED BY <3>1, <2>1, SeqSpanAssumption
  <2> QED BY <2>1, <2>2, <2>3 DEF d
<1>4. k = j
  BY <1>1, <1>3
<1> QED
  BY <1>1, <1>2, <1>4, SeqSpanAssumption DEF SeqNums, s

\* Stepping a residue steps the number.
LEMMA ResidueAdd ==
    ASSUME NEW a \in Int, NEW n \in Int
    PROVE  ((a % SeqSpan) + n) % SeqSpan = (a + n) % SeqSpan
<1> DEFINE x == (a % SeqSpan) + n
<1>1. /\ x \in Int
      /\ x % SeqSpan \in SeqNums
      /\ x \div SeqSpan \in Int
      /\ x = SeqSpan * (x \div SeqSpan) + (x % SeqSpan)
  BY Residue DEF SeqNums
<1>2. /\ a \div SeqSpan \in Int
      /\ a = SeqSpan * (a \div SeqSpan) + (a % SeqSpan)
      /\ a % SeqSpan \in SeqNums
  BY Residue
<1> DEFINE k == (a \div SeqSpan) + (x \div SeqSpan)
<1>3. k \in Int
  BY <1>1, <1>2
<1>4. SeqSpan * k = SeqSpan * (a \div SeqSpan) + SeqSpan * (x \div SeqSpan)
  BY <1>1, <1>2, SeqSpanAssumption
<1>5. a + n = SeqSpan * k + (x % SeqSpan)
  BY <1>1, <1>2, <1>4, SeqSpanAssumption DEF SeqNums
<1> HIDE DEF x, k
<1>6. (a + n) % SeqSpan = x % SeqSpan
  BY <1>1, <1>3, <1>5, ResidueUnique
<1> QED
  BY <1>6 DEF x

\* The distance of two residues is the residue of the difference.
LEMMA DistResidue ==
    ASSUME NEW a \in Int, NEW b \in Int
    PROVE  SeqDist((a - 1) % SeqSpan, (b - 1) % SeqSpan) = (b - a) % SeqSpan
<1> DEFINE u == (a - 1) % SeqSpan
<1>1. u \in Int /\ (a - 1) \div SeqSpan \in Int
      /\ a - 1 = SeqSpan * ((a - 1) \div SeqSpan) + u
  BY Residue DEF SeqNums
<1>2. (((b - 1) % SeqSpan) + (0 - u)) % SeqSpan = (b - 1 - u) % SeqSpan
  BY <1>1, ResidueAdd, b - 1 \in Int, 0 - u \in Int, (b - 1) + (0 - u) = b - 1 - u
<1> DEFINE k == (a - 1) \div SeqSpan
<1> DEFINE y == b - a
<1>3. b - 1 - u = y + SeqSpan * k
  BY <1>1, SeqSpanAssumption
<1>4. y \in Int /\ y % SeqSpan \in SeqNums /\ y \div SeqSpan \in Int
      /\ y = SeqSpan * (y \div SeqSpan) + (y % SeqSpan)
  BY Residue
<1> DEFINE m == (y \div SeqSpan) + k
<1>5. m \in Int /\ SeqSpan * m = SeqSpan * (y \div SeqSpan) + SeqSpan * k
  BY <1>1, <1>4, SeqSpanAssumption
<1>6. b - 1 - u = SeqSpan * m + (y % SeqSpan)
  BY <1>1, <1>3, <1>4, <1>5, SeqSpanAssumption DEF SeqNums
<1>7. b - 1 - u \in Int
  BY <1>1
<1> HIDE DEF m, y
<1>8. (b - 1 - u) % SeqSpan = y % SeqSpan
  BY <1>4, <1>5, <1>6, <1>7, ResidueUnique
<1>9. ((b - 1) % SeqSpan) - u = ((b - 1) % SeqSpan) + (0 - u)
  BY <1>1, Residue, b - 1 \in Int DEF SeqNums
<1> QED
  BY <1>2, <1>8, <1>9 DEF SeqDist, y

\* Inside a window narrower than the span, "the next residue" means the next
\* number.
LEMMA WindowNext ==
    ASSUME NEW a \in Int, NEW b \in Int,
           b - a > 1 - SeqSpan, b - a <= SeqSpan,
           SeqDist((a - 1) % SeqSpan, (b - 1) % SeqSpan) = 1
    PROVE  b = a + 1
<1>1. (b - a) % SeqSpan = 1
  BY DistResidue
<1>2. CASE b - a = SeqSpan
  <2>1. b - a \in Int /\ 0 \in SeqNums /\ b - a = SeqSpan * 1 + 0
    BY <1>2, SeqSpanAssumption DEF SeqNums
  <2>2. (b - a) % SeqSpan = 0
    BY <2>1, ResidueUnique
  <2> QED BY <1>1, <2>2
<1>3. CASE 0 <= b - a /\ b - a < SeqSpan
  <2>1. b - a \in SeqNums /\ b - a = SeqSpan * 0 + (b - a)
    BY <1>3, SeqSpanAssumption DEF SeqNums
  <2>2. (b - a) % SeqSpan = b - a
    BY <2>1, ResidueUnique DEF SeqNums
  <2> QED BY <1>1, <2>2
<1>4. CASE b - a < 0
  <2>1. b - a + SeqSpan \in SeqNums /\ b - a = SeqSpan * (-1) + (b - a + SeqSpan)
    BY <1>4, SeqSpanAssumption DEF SeqNums
  <2>2. (b - a) % SeqSpan = b - a + SeqSpan
    BY <2>1, ResidueUnique, b - a \in Int
  <2> QED BY <1>1, <2>2, SeqSpanAssumption
<1> QED BY <1>2, <1>3, <1>4, SeqSpanAssumption

\* Inside such a window, "the same residue" means the same number.
LEMMA WindowSame ==
    ASSUME NEW a \in Int, NEW b \in Int,
           b - a > 0 - SeqSpan, b - a < SeqSpan,
           SeqDist((a - 1) % SeqSpan, (b - 1) % SeqSpan) = 0
    PROVE  b = a
<1>1. (b - a) % SeqSpan = 0
  BY DistResidue
<1>2. CASE 0 <= b - a
  <2>1. b - a \in SeqNums /\ b - a = SeqSpan * 0 + (b - a)
    BY <1>2, SeqSpanAssumption DEF SeqNums
  <2>2. (b - a) % SeqSpan = b - a
    BY <2>1, ResidueUnique DEF SeqNums
  <2> QED BY <1>1, <2>2
<1>3. CASE b - a < 0
  <2>1. b - a + SeqSpan \in SeqNums /\ b - a = SeqSpan * (-1) + (b - a + SeqSpan)
    BY <1>3, SeqSpanAssumption DEF SeqNums
  <2>2. (b - a) % SeqSpan = b - a + SeqSpan
    BY <2>1, ResidueUnique, b - a \in Int
  <2> QED BY <1>1, <2>2, SeqSpanAssumption
<1> QED BY <1>2, <1>3

\* The counter is at the sentinel exactly after a multiple of the span.
LEMMA SentinelResidue ==
    ASSUME NEW a \in Int, (a - 1) % SeqSpan = SeqMax
    PROVE  a % SeqSpan = 0
<1> DEFINE k == (a - 1) \div SeqSpan
<1>1. k \in Int /\ a - 1 = SeqSpan * k + (SeqSpan - 1)
  BY Residue, a - 1 \in Int DEF SeqMax
<1>2. a = SeqSpan * (k + 1) + 0 /\ 0 \in SeqNums
  BY <1>1, SeqSpanAssumption DEF SeqNums
<1> HIDE DEF k
<1> QED BY <1>1, <1>2, ResidueUnique, k + 1 \in Int

-----------------------------------------------------------------------------
(* The inductive invariant, as predicates on the state of one channel: the *)
(* ranks queued (sent), the message ranges (msgs), the staging queue (q)   *)
(* and the rank delivered last (last).                                     *)

\* What the sender put into a frame: its id is the residue of its rank and,
\* if it is reliable, num_chunks counts the rest of the message it is in.
FrameFits(f, sent, msgs) ==
    /\ f.relSeq = (f.abs - 1) % SeqSpan
    /\ f.abs <= sent
    /\ f.reliable => \E m \in msgs : /\ m.from <= f.abs
                                     /\ f.abs <= m.to
                                     /\ f.numChunks = m.to - f.abs + 1

\* The ranges of the messages lie inside what was queued and are disjoint.
MessagesFit(msgs, sent) ==
    /\ \A m \in msgs : 1 <= m.from /\ m.from <= m.to /\ m.to <= sent
    /\ \A m1, m2 \in msgs : m1 = m2 \/ m1.to < m2.from \/ m2.to < m1.from

\* A frame is inside the window of the counter it meets as head of the queue:
\* what is delivered before it was queued before it arrived.
WindowFits(f, sent, last) ==
    /\ f.abs <= f.sentAt
    /\ f.sentAt <= sent
    /\ f.sentAt - f.abs < SeqSpan - 1
    /\ last <= f.sentAt
    /\ f.abs - last < SeqSpan

\* Every staged frame is well formed and in the window, and they are staged
\* in the order in which they arrived.
StagedFits(q, sent, msgs, last) ==
    /\ \A i \in 1 .. Len(q) : FrameFits(q[i], sent, msgs) /\ WindowFits(q[i], sent, last)
    /\ \A i, j \in 1 .. Len(q) : i <= j => q[i].sentAt <= q[j].sentAt

\* The rank delivered last is the end of a message.
LastFits(last, sent, msgs) ==
    /\ last \in Nat
    /\ last <= sent
    /\ last = 0 \/ \E m \in msgs : m.to = last

\* ReliableInOrder and UnreliableGated for one delivery.
DeliveryFits(d, msgs) ==
    /\ d.reliable => \E m \in msgs : m.from = d.after + 1 /\ IsMessage(d, m)
    /\ ~d.reliable => d.after % SeqSpan = 0 \/ d.frames[1] = d.after

SenderOK(c) ==
    /\ sendRel[c] = (sentAbs[c] - 1) % SeqSpan
    /\ MessagesFit(messages[c], sentAbs[c])
    /\ \A f \in wire[c] : FrameFits(f, sentAbs[c], messages[c])

ReceiverOK(c) ==
    /\ receivedRel[c] = (LastAbs(c) - 1) % SeqSpan
    /\ LastFits(LastAbs(c), sentAbs[c], messages[c])
    /\ StagedFits(staging[c], sentAbs[c], messages[c], LastAbs(c))
    /\ \A i \in 1 .. Len(delivered[c]) : DeliveryFits(delivered[c][i], messages[c])

IndInv == TypeOK /\ \A c \in Channels : SenderOK(c) /\ ReceiverOK(c)

-----------------------------------------------------------------------------
(* What the sender does keeps what is already queued and staged in order.  *)

\* A frame of a queued message stays one when more messages are queued.
LEMMA FrameFitsGrow ==
    ASSUME NEW f \in Frame, NEW sent \in Nat, NEW sent2 \in Nat, sent <= sent2,
           NEW msgs, NEW msgs2, msgs \subseteq msgs2, FrameFits(f, sent, msgs)
    PROVE  FrameFits(f, sent2, msgs2)
<1>1. f.abs \in Nat
  BY DEF Frame
<1> QED BY <1>1 DEF FrameFits

\* Staged frames stay frames of queued messages when more are queued.
LEMMA StagedFitsGrow ==
    ASSUME NEW q \in Seq(Frame), NEW sent \in Nat, NEW sent2 \in Nat, sent <= sent2,
           NEW msgs, NEW msgs2, msgs \subseteq msgs2, NEW last,
           StagedFits(q, sent, msgs, last)
    PROVE  StagedFits(q, sent2, msgs2, last)
<1>1. ASSUME NEW i \in 1 .. Len(q)
      PROVE  FrameFits(q[i], sent2, msgs2) /\ WindowFits(q[i], sent2, last)
  <2>1. q[i] \in Frame
    BY ElementOfSeq
  <2>2. q[i].sentAt \in Nat
    BY <2>1 DEF Frame
  <2>3. FrameFits(q[i], sent, msgs) /\ WindowFits(q[i], sent, last)
    BY DEF StagedFits
  <2>4. FrameFits(q[i], sent2, msgs2)
    BY <2>1, <2>3, FrameFitsGrow
  <2>5. WindowFits(q[i], sent2, last)
    BY <2>2, <2>3 DEF WindowFits
  <2> QED BY <2>4, <2>5
<1> QED BY <1>1 DEF StagedFits

\* What the receiver holds stays consistent when queue_message adds a message.
LEMMA ReceiverGrow ==
    ASSUME TypeOK, TypeOK', NEW c \in Channels, ReceiverOK(c),
           messages[c] \subseteq messages'[c], sentAbs[c] <= sentAbs'[c],
           staging'[c] = staging[c], receivedRel'[c] = receivedRel[c],
           delivered'[c] = delivered[c]
    PROVE  ReceiverOK(c)'
<1>1. /\ sentAbs[c] \in Nat /\ sentAbs'[c] \in Nat /\ staging[c] \in Seq(Frame)
  BY DEF TypeOK
<1>2. LastAbs(c)' = LastAbs(c)
  BY DEF LastAbs
<1>3. StagedFits(staging'[c], sentAbs'[c], messages'[c], LastAbs(c))
  BY <1>1, StagedFitsGrow DEF ReceiverOK
<1>4. LastFits(LastAbs(c), sentAbs'[c], messages'[c])
  BY <1>1 DEF ReceiverOK, LastFits
<1>5. \A i \in 1 .. Len(delivered'[c]) : DeliveryFits(delivered'[c][i], messages'[c])
  BY DEF ReceiverOK, DeliveryFits
<1> QED BY <1>2, <1>3, <1>4, <1>5 DEF ReceiverOK

\* A new message lies behind all the others.
LEMMA MessagesFitAdd ==
    ASSUME NEW msgs \in SUBSET Message, NEW sent \in Nat, NEW n \in Nat, n >= 1,
           MessagesFit(msgs, sent)
    PROVE  MessagesFit(msgs \cup {[from |-> sent + 1, to |-> sent + n]}, sent + n)
<1> DEFINE new == [from |-> sent + 1, to |-> sent + n]
<1>1. new.from = sent + 1 /\ new.to = sent + n
  OBVIOUS
<1>2. \A m \in msgs : /\ m.from \in Nat /\ m.to \in Nat
                      /\ 1 <= m.from /\ m.from <= m.to /\ m.to <= sent
  BY DEF MessagesFit, Message
<1> HIDE DEF new
<1>3. \A m \in msgs \cup {new} : 1 <= m.from /\ m.from <= m.to /\ m.to <= sent + n
  BY <1>1, <1>2
<1>4. ASSUME NEW m1 \in msgs \cup {new}, NEW m2 \in msgs \cup {new}
      PROVE  m1 = m2 \/ m1.to < m2.from \/ m2.to < m1.from
  BY <1>1, <1>2 DEF MessagesFit
<1>5. MessagesFit(msgs \cup {new}, sent + n)
  BY <1>3, <1>4 DEF MessagesFit
<1> QED BY <1>5 DEF new

\* The frames queue_message makes of a new message are well formed.
LEMMA ChunkFramesFit ==
    ASSUME TypeOK, NEW c \in Channels, SenderOK(c), NEW n \in Nat, n >= 1,
           NEW f \in ChunkFrames(c, n)
    PROVE  /\ f \in Frame
           /\ FrameFits(f, sentAbs[c] + n,
                        messages[c] \cup {[from |-> sentAbs[c] + 1,
                                           to |-> sentAbs[c] + n]})
<1> DEFINE new == [from |-> sentAbs[c] + 1, to |-> sentAbs[c] + n]
<1>0. sentAbs[c] \in Nat /\ sendRel[c] \in Int
  BY DEF TypeOK, SeqNums
<1>1. PICK i \in 1 .. n :
        f = [reliable |-> TRUE, relSeq |-> (sendRel[c] + i) % SeqSpan,
             numChunks |-> n - i + 1, abs |-> sentAbs[c] + i, sentAt |-> 0]
  BY DEF ChunkFrames
<1>2. (sendRel[c] + i) % SeqSpan \in SeqNums
  <2>1. sendRel[c] + i \in Int
    BY <1>0
  <2> QED BY <2>1, Residue
<1>3. f \in Frame
  BY <1>0, <1>1, <1>2 DEF Frame
<1>4. f.relSeq = (f.abs - 1) % SeqSpan
  <2>1. sentAbs[c] - 1 \in Int /\ i \in Int
    BY <1>0
  <2>2. (((sentAbs[c] - 1) % SeqSpan) + i) % SeqSpan = (sentAbs[c] - 1 + i) % SeqSpan
    BY <2>1, ResidueAdd
  <2>3. f.abs - 1 = sentAbs[c] - 1 + i
    BY <1>0, <1>1
  <2>4. f.relSeq = (sendRel[c] + i) % SeqSpan
    BY <1>1
  <2> QED BY <2>2, <2>3, <2>4 DEF SenderOK
<1>5. new.from = sentAbs[c] + 1 /\ new.to = sentAbs[c] + n
  OBVIOUS
<1>6. f.abs = sentAbs[c] + i /\ f.numChunks = n - i + 1
  BY <1>1
<1> HIDE DEF new
<1>7. FrameFits(f, sentAbs[c] + n, messages[c] \cup {new})
  <2>1. new.from <= f.abs /\ f.abs <= new.to /\ f.numChunks = new.to - f.abs + 1
    BY <1>0, <1>5, <1>6
  <2>2. f.abs <= sentAbs[c] + n
    BY <1>0, <1>6
  <2> QED BY <1>4, <2>1, <2>2 DEF FrameFits
<1> QED BY <1>3, <1>7 DEF new

-----------------------------------------------------------------------------
(* The steps of the sender and the network.                                *)

\* The initial states of queue_message and the reassembler satisfy IndInv.
LEMMA InitInv == Init => IndInv
<1> SUFFICES ASSUME Init PROVE IndInv
  OBVIOUS
<1>1. SeqMax \in SeqNums
  BY SeqSpanAssumption DEF SeqMax, SeqNums
<1>2. TypeOK
  BY <1>1, ReassemblerAssumption DEF Init, TypeOK, Channels
<1>3. (0 - 1) % SeqSpan = SeqMax
  <2>1. 0 - 1 \in Int /\ 0 - 1 = SeqSpan * (-1) + SeqMax
    BY SeqSpanAssumption DEF SeqMax
  <2> QED BY <1>1, <2>1, ResidueUnique
<1>4. ASSUME NEW c \in Channels PROVE SenderOK(c) /\ ReceiverOK(c)
  BY <1>3 DEF Init, SenderOK, MessagesFit, ReceiverOK, StagedFits, LastFits,
              LastAbs, LastOf
<1> QED BY <1>2, <1>4 DEF IndInv

\* queue_message on a reliable message.
LEMMA QueueReliableInv ==
    ASSUME IndInv, NEW c \in Channels, NEW n \in 1 .. MaxChunks, QueueReliable(c, n)
    PROVE  IndInv'
<1> DEFINE new == [from |-> sentAbs[c] + 1, to |-> sentAbs[c] + n]
<1>0. /\ n \in Nat /\ n >= 1 /\ TypeOK /\ sentAbs[c] \in Nat
      /\ sendRel[c] \in Int /\ messages[c] \in SUBSET Message
      /\ SenderOK(c)
  BY ReassemblerAssumption DEF IndInv, TypeOK, SeqNums
<1>1. /\ messages'[c] = messages[c] \cup {new}
      /\ sentAbs'[c] = sentAbs[c] + n
      /\ wire'[c] = wire[c] \cup ChunkFrames(c, n)
      /\ sendRel'[c] = (sendRel[c] + n) % SeqSpan
  BY <1>0 DEF QueueReliable, TypeOK
<1>2. \A d \in Channels : d # c => /\ messages'[d] = messages[d]
                                   /\ sentAbs'[d] = sentAbs[d]
                                   /\ wire'[d] = wire[d]
                                   /\ sendRel'[d] = sendRel[d]
  BY <1>0 DEF QueueReliable, TypeOK
<1>3. staging' = staging /\ receivedRel' = receivedRel /\ delivered' = delivered
      /\ cursor' = cursor
  BY DEF QueueReliable
<1>4. TypeOK'
  <2>1. (sendRel[c] + n) % SeqSpan \in SeqNums
    <3>1. sendRel[c] + n \in Int
      BY <1>0
    <3> QED BY <3>1, Residue
  <2>2. ChunkFrames(c, n) \subseteq Frame
    BY <1>0, ChunkFramesFit
  <2>3. new \in Message
    BY <1>0 DEF Message
  <2> HIDE DEF new
  <2>4. messages' = [messages EXCEPT ![c] = messages[c] \cup {new}]
    BY DEF QueueReliable, new
  <2>5. messages' \in [Channels -> SUBSET Message]
    BY <1>0, <2>3, <2>4 DEF TypeOK
  <2>6. wire' \in [Channels -> SUBSET Frame]
    BY <1>0, <2>2 DEF TypeOK, QueueReliable
  <2>7. sendRel' \in [Channels -> SeqNums] /\ sentAbs' \in [Channels -> Nat]
    BY <1>0, <2>1 DEF TypeOK, QueueReliable
  <2> QED BY <1>0, <1>3, <2>5, <2>6, <2>7 DEF TypeOK
<1>5. ASSUME NEW d \in Channels PROVE ReceiverOK(d)'
  <2>1. ReceiverOK(d) /\ sentAbs[d] \in Nat
    BY <1>0 DEF IndInv, TypeOK
  <2>2. messages[d] \subseteq messages'[d] /\ sentAbs[d] <= sentAbs'[d]
    <3>1. CASE d = c
      BY <1>0, <1>1, <3>1
    <3>2. CASE d # c
      BY <1>2, <2>1, <3>2
    <3> QED BY <3>1, <3>2
  <2> QED BY <1>0, <1>3, <1>4, <2>1, <2>2, ReceiverGrow
<1>6. SenderOK(c)'
  <2>1. sendRel'[c] = (sentAbs'[c] - 1) % SeqSpan
    <3>1. sentAbs[c] - 1 \in Int /\ n \in Int
      BY <1>0
    <3>2. (((sentAbs[c] - 1) % SeqSpan) + n) % SeqSpan = (sentAbs[c] - 1 + n) % SeqSpan
      BY <3>1, ResidueAdd
    <3>3. sentAbs'[c] - 1 = sentAbs[c] - 1 + n
      BY <1>0, <1>1
    <3> QED BY <1>0, <1>1, <3>2, <3>3 DEF SenderOK
  <2>2. MessagesFit(messages'[c], sentAbs'[c])
    BY <1>0, <1>1, MessagesFitAdd DEF SenderOK
  <2>3. ASSUME NEW f \in wire'[c] PROVE FrameFits(f, sentAbs'[c], messages'[c])
    <3>1. CASE f \in ChunkFrames(c, n)
      BY <1>0, <1>1, <3>1, ChunkFramesFit
    <3>2. CASE f \in wire[c]
      <4>1. f \in Frame /\ FrameFits(f, sentAbs[c], messages[c])
        BY <1>0, <3>2 DEF TypeOK, SenderOK
      <4>2. sentAbs'[c] \in Nat /\ sentAbs[c] <= sentAbs'[c]
            /\ messages[c] \subseteq messages'[c]
        BY <1>0, <1>1
      <4> QED BY <1>0, <4>1, <4>2, FrameFitsGrow
    <3> QED BY <1>1, <2>3, <3>1, <3>2
  <2> QED BY <2>1, <2>2, <2>3 DEF SenderOK
<1>7. ASSUME NEW d \in Channels, d # c PROVE SenderOK(d)'
  BY <1>2, <1>7 DEF IndInv, SenderOK
<1> QED BY <1>4, <1>5, <1>6, <1>7 DEF IndInv

\* queue_message on an unreliable message: only wire grows.
LEMMA QueueUnreliableInv ==
    ASSUME IndInv, NEW c \in Channels, QueueUnreliable(c)
    PROVE  IndInv'
<1> DEFINE new == [reliable |-> FALSE, relSeq |-> sendRel[c], numChunks |-> 1,
                   abs |-> sentAbs[c], sentAt |-> 0]
<1>0. TypeOK /\ sentAbs[c] \in Nat /\ sendRel[c] \in SeqNums /\ SenderOK(c)
  BY DEF IndInv, TypeOK
<1>1. new \in Frame /\ FrameFits(new, sentAbs[c], messages[c])
  BY <1>0 DEF Frame, FrameFits, SenderOK
<1> HIDE DEF new
<1>2. /\ sendRel' = sendRel /\ sentAbs' = sentAbs /\ messages' = messages
      /\ staging' = staging /\ receivedRel' = receivedRel /\ delivered' = delivered
      /\ cursor' = cursor
      /\ wire' = [wire EXCEPT ![c] = wire[c] \cup {new}]
  BY DEF QueueUnreliable, new
<1>3. TypeOK'
  BY <1>0, <1>1, <1>2 DEF TypeOK
<1>4. ASSUME NEW d \in Channels PROVE SenderOK(d)'
  <2>1. SenderOK(d) /\ (d # c => wire'[d] = wire[d]) /\ wire'[c] = wire[c] \cup {new}
    BY <1>0, <1>2 DEF IndInv, TypeOK
  <2> QED BY <1>1, <1>2, <2>1 DEF SenderOK
<1>5. ASSUME NEW d \in Channels PROVE ReceiverOK(d)'
  BY <1>2 DEF IndInv, ReceiverOK, LastAbs
<1> QED BY <1>3, <1>4, <1>5 DEF IndInv

\* A frame that arrives in the window extends the staging queue.
LEMMA StagedFitsAppend ==
    ASSUME NEW q \in Seq(Frame), NEW g \in Frame, NEW sent \in Nat, NEW msgs,
           NEW last, StagedFits(q, sent, msgs, last),
           FrameFits(g, sent, msgs), WindowFits(g, sent, last), g.sentAt = sent
    PROVE  StagedFits(Append(q, g), sent, msgs, last)
<1> DEFINE r == Append(q, g)
<1>1. /\ Len(q) \in Nat
      /\ Len(r) = Len(q) + 1
      /\ \A i \in 1 .. Len(q) : r[i] = q[i]
      /\ r[Len(q) + 1] = g
  BY AppendProperties, LenProperties
<1> HIDE DEF r
<1>2. ASSUME NEW i \in 1 .. Len(q) PROVE q[i].sentAt \in Nat /\ q[i].sentAt <= sent
  <2>1. q[i] \in Frame
    BY ElementOfSeq
  <2> QED BY <2>1 DEF Frame, StagedFits, WindowFits
<1>3. ASSUME NEW i \in 1 .. Len(r)
      PROVE  FrameFits(r[i], sent, msgs) /\ WindowFits(r[i], sent, last)
  <2>1. CASE i \in 1 .. Len(q)
    BY <1>1, <2>1 DEF StagedFits
  <2>2. CASE i = Len(q) + 1
    BY <1>1, <2>2
  <2> QED BY <1>1, <2>1, <2>2
<1>4. ASSUME NEW i \in 1 .. Len(r), NEW j \in 1 .. Len(r), i <= j
      PROVE  r[i].sentAt <= r[j].sentAt
  <2>1. CASE j \in 1 .. Len(q)
    <3>1. i \in 1 .. Len(q)
      BY <1>1, <1>4, <2>1
    <3> QED BY <1>1, <1>4, <2>1, <3>1 DEF StagedFits
  <2>2. CASE j = Len(q) + 1 /\ i \in 1 .. Len(q)
    BY <1>1, <1>2, <2>2
  <2>3. CASE j = Len(q) + 1 /\ i = Len(q) + 1
    BY <1>1, <2>3
  <2> QED BY <1>1, <1>4, <2>1, <2>2, <2>3
<1> QED BY <1>3, <1>4 DEF StagedFits, r

\* Reassembler::accept.
LEMMA AcceptInv ==
    ASSUME IndInv, NEW c \in Channels, NEW f \in wire[c], Accept(c, f)
    PROVE  IndInv'
<1> DEFINE g == [f EXCEPT !.sentAt = sentAbs[c]]
<1>0. TypeOK /\ sentAbs[c] \in Nat /\ f \in Frame /\ staging[c] \in Seq(Frame)
  BY DEF IndInv, TypeOK
<1>1. /\ g \in Frame /\ g.reliable = f.reliable /\ g.relSeq = f.relSeq
      /\ g.numChunks = f.numChunks /\ g.abs = f.abs /\ g.sentAt = sentAbs[c]
      /\ f.abs \in Nat
  BY <1>0 DEF Frame
<1> HIDE DEF g
<1>2. /\ sendRel' = sendRel /\ sentAbs' = sentAbs /\ messages' = messages
      /\ wire' = wire /\ receivedRel' = receivedRel /\ delivered' = delivered
      /\ cursor' = cursor
      /\ staging' = [staging EXCEPT ![c] = Append(staging[c], g)]
  BY DEF Accept, g
<1>3. TypeOK'
  <2>1. Append(staging[c], g) \in Seq(Frame)
    BY <1>0, <1>1, AppendProperties
  <2> QED BY <1>0, <1>2, <2>1 DEF TypeOK
<1>4. ASSUME NEW d \in Channels PROVE SenderOK(d)'
  BY <1>2 DEF IndInv, SenderOK
<1>5. ASSUME NEW d \in Channels PROVE ReceiverOK(d)'
  <2>0. ReceiverOK(d) /\ LastAbs(d)' = LastAbs(d)
    BY <1>2 DEF IndInv, LastAbs
  <2>1. StagedFits(staging'[d], sentAbs[d], messages[d], LastAbs(d))
    <3>1. CASE d # c
      BY <1>0, <1>2, <2>0, <3>1 DEF TypeOK, ReceiverOK
    <3>2. CASE d = c
      <4>1. FrameFits(f, sentAbs[c], messages[c])
        BY DEF IndInv, SenderOK
      <4>2. FrameFits(g, sentAbs[c], messages[c])
        BY <1>1, <4>1 DEF FrameFits
      <4>3. LastAbs(c) \in Nat /\ LastAbs(c) <= sentAbs[c]
        BY <2>0, <3>2 DEF ReceiverOK, LastFits
      <4>4. WindowFits(g, sentAbs[c], LastAbs(c))
        BY <1>0, <1>1, <4>1, <4>3 DEF FrameFits, WindowFits, Accept, InWindow
      <4>5. StagedFits(staging[c], sentAbs[c], messages[c], LastAbs(c))
        BY <2>0, <3>2 DEF ReceiverOK
      <4>6. StagedFits(Append(staging[c], g), sentAbs[c], messages[c], LastAbs(c))
        BY <1>0, <1>1, <4>2, <4>4, <4>5, StagedFitsAppend
      <4> QED BY <1>0, <1>2, <3>2, <4>6 DEF TypeOK
    <3> QED BY <3>1, <3>2
  <2> QED BY <1>2, <2>0, <2>1 DEF ReceiverOK
<1> QED BY <1>3, <1>4, <1>5 DEF IndInv

\* Steps that move only the cursor of the Drain.
LEMMA CursorInv ==
    ASSUME IndInv, cursor' \in 0 .. NumChannels,
           UNCHANGED <<sendRel, sentAbs, messages, wire, staging, receivedRel,
                       delivered>>
    PROVE  IndInv'
<1>1. TypeOK'
  BY DEF IndInv, TypeOK
<1>2. ASSUME NEW d \in Channels PROVE SenderOK(d)' /\ ReceiverOK(d)'
  BY DEF IndInv, SenderOK, ReceiverOK, LastAbs
<1> QED BY <1>1, <1>2 DEF IndInv

-----------------------------------------------------------------------------
(* Drain::next.                                                            *)

\* A non-empty set of naturals has a least element: the set form of
\* induction, for the walk along the chunks of a message.
LEMMA LeastNatural ==
    ASSUME NEW T \in SUBSET Nat, T # {}
    PROVE  \E x \in T : \A y \in T : x <= y
<1>1. \E x \in T : \A y \in T : ~(<<y, x>> \in OpToRel(<, Nat))
  BY NatLessThanWellFounded, WFMin
<1>2. PICK x \in T : \A y \in T : ~(<<y, x>> \in OpToRel(<, Nat))
  BY <1>1
<1>3. ASSUME NEW y \in T PROVE x <= y
  <2>1. ~(<<y, x>> \in OpToRel(<, Nat))
    BY <1>2
  <2>2. x \in Nat /\ y \in Nat
    OBVIOUS
  <2>3. ~(y < x)
    BY <2>1, <2>2 DEF OpToRel
  <2> QED BY <2>2, <2>3
<1> QED BY <1>3

\* A reliable head that passes the gate starts the message after the last
\* one delivered: ids are compared modulo the span, ranks are not.
LEMMA HeadStartsMessage ==
    ASSUME NEW q \in Seq(Frame), q # << >>, NEW sent \in Nat,
           NEW msgs \in SUBSET Message, NEW last,
           StagedFits(q, sent, msgs, last), LastFits(last, sent, msgs),
           MessagesFit(msgs, sent),
           q[1].reliable, SeqDist((last - 1) % SeqSpan, q[1].relSeq) = 1
    PROVE  /\ q[1].abs = last + 1
           /\ \E m \in msgs : m.from = last + 1 /\ q[1].numChunks = m.to - m.from + 1
<1>1. 1 \in 1 .. Len(q) /\ q[1] \in Frame /\ last \in Nat
  BY EmptySeq, ElementOfSeq DEF LastFits
<1>2. FrameFits(q[1], sent, msgs) /\ WindowFits(q[1], sent, last)
  BY <1>1 DEF StagedFits
<1>3. q[1].abs \in Nat /\ q[1].sentAt \in Nat
  BY <1>1 DEF Frame
<1>4. q[1].abs = last + 1
  <2>1. q[1].abs - last > 1 - SeqSpan /\ q[1].abs - last <= SeqSpan
    BY SMTT(30), <1>1, <1>2, <1>3, SeqSpanAssumption DEF WindowFits
  <2>2. SeqDist((last - 1) % SeqSpan, (q[1].abs - 1) % SeqSpan) = 1
    BY <1>2 DEF FrameFits
  <2>3. last \in Int /\ q[1].abs \in Int
    BY <1>1, <1>3
  <2> QED BY <2>1, <2>2, <2>3, WindowNext
<1>5. PICK m \in msgs : /\ m.from <= q[1].abs /\ q[1].abs <= m.to
                        /\ q[1].numChunks = m.to - q[1].abs + 1
  BY <1>2 DEF FrameFits
<1>6. m.from \in Nat /\ m.to \in Nat /\ 1 <= m.from
  BY DEF Message, MessagesFit
<1>7. m.from = last + 1
  <2>1. CASE last = 0
    BY <1>4, <1>5, <1>6, <2>1
  <2>2. CASE \E p \in msgs : p.to = last
    <3>1. PICK p \in msgs : p.to = last
      BY <2>2
    <3>2. p.from \in Nat /\ p.to \in Nat /\ p.from <= p.to
      BY DEF Message, MessagesFit
    <3>3. p = m \/ p.to < m.from \/ m.to < p.from
      BY DEF MessagesFit
    <3> QED BY SMTT(30), <1>1, <1>3, <1>4, <1>5, <1>6, <3>1, <3>2, <3>3
  <2> QED BY <2>1, <2>2 DEF LastFits
<1> QED BY <1>4, <1>5, <1>7

\* The rank b, sent less than a span ago when t were sent, is not a span or
\* more behind the rank a, sent before.
LEMMA NotFarBehind ==
    ASSUME NEW a \in Int, NEW b \in Int, NEW s \in Int, NEW t \in Int,
           NEW span \in Int, t - b < span - 1, a <= s, s <= t
    PROVE  b - a > 1 - span
OBVIOUS

\* The rank b is not a span or more ahead of the rank a, which is not behind
\* the last rank delivered.
LEMMA NotFarAhead ==
    ASSUME NEW a \in Int, NEW b \in Int, NEW last \in Int, NEW span \in Int,
           b - last < span, last <= a
    PROVE  b - a <= span
OBVIOUS

\* Two staged frames with consecutive ids have consecutive ranks.
LEMMA ChunkStep ==
    ASSUME NEW q \in Seq(Frame), NEW sent, NEW msgs, NEW last \in Nat,
           StagedFits(q, sent, msgs, last),
           NEW j \in 1 .. Len(q), NEW k \in 1 .. Len(q), j <= k,
           last <= q[j].abs, SeqDist(q[j].relSeq, q[k].relSeq) = 1
    PROVE  q[k].abs = q[j].abs + 1
<1>1. q[j] \in Frame /\ q[k] \in Frame
  BY ElementOfSeq
<1>2. /\ q[j].abs \in Nat /\ q[k].abs \in Nat
      /\ q[j].sentAt \in Nat /\ q[k].sentAt \in Nat
  BY <1>1 DEF Frame
<1>3. /\ FrameFits(q[j], sent, msgs) /\ WindowFits(q[j], sent, last)
      /\ FrameFits(q[k], sent, msgs) /\ WindowFits(q[k], sent, last)
      /\ q[j].sentAt <= q[k].sentAt
  BY DEF StagedFits
<1>4. SeqDist((q[j].abs - 1) % SeqSpan, (q[k].abs - 1) % SeqSpan) = 1
  BY <1>3 DEF FrameFits
<1>5. q[k].abs - q[j].abs > 1 - SeqSpan /\ q[k].abs - q[j].abs <= SeqSpan
  <2>1. /\ q[k].abs - last < SeqSpan /\ q[k].sentAt - q[k].abs < SeqSpan - 1
        /\ q[j].abs <= q[j].sentAt /\ q[j].sentAt <= q[k].sentAt
    BY <1>3 DEF WindowFits
  <2>2. /\ SeqSpan \in Int /\ last \in Int
        /\ q[j].abs \in Int /\ q[k].abs \in Int
        /\ q[j].sentAt \in Int /\ q[k].sentAt \in Int
    BY <1>2, SeqSpanAssumption
  <2>3. q[k].abs - q[j].abs > 1 - SeqSpan
    BY <2>1, <2>2, NotFarBehind, Zenon
  <2>4. q[k].abs - q[j].abs <= SeqSpan
    BY <2>1, <2>2, NotFarAhead, Zenon
  <2> QED BY <2>3, <2>4
<1>6. q[j].abs \in Int /\ q[k].abs \in Int
  BY <1>2
<1> QED BY <1>4, <1>5, <1>6, WindowNext

\* chunks_ready only lets the consecutive frames of the message through.
LEMMA ChunksAreConsecutive ==
    ASSUME NEW q \in Seq(Frame), NEW sent \in Nat, NEW msgs, NEW last \in Nat,
           StagedFits(q, sent, msgs, last), q # << >>, q[1].abs = last + 1,
           NEW n \in Nat, ChunksReady(q, n)
    PROVE  \A k \in 1 .. n : q[k].abs = last + k
<1>0. Len(q) \in Nat /\ n <= Len(q)
  BY LenProperties DEF ChunksReady
<1> DEFINE Bad == {k \in 1 .. n : q[k].abs # last + k}
<1> SUFFICES ASSUME Bad # {} PROVE FALSE
  OBVIOUS
<1>1. PICK k \in Bad : \A y \in Bad : k <= y
  <2>1. Bad \in SUBSET Nat
    OBVIOUS
  <2> HIDE DEF Bad
  <2> QED BY <2>1, LeastNatural
<1>2. k \in 1 .. n /\ q[k].abs # last + k
  OBVIOUS
<1>3. k \in Nat /\ k > 1
  BY <1>2
<1>4. PICK j \in Nat : j + 1 = k
  <2>1. k - 1 \in Nat /\ (k - 1) + 1 = k
    BY <1>3
  <2> QED BY <2>1
<1>41. j \in 1 .. n /\ j \in 1 .. n - 1
  BY <1>2, <1>3, <1>4
<1>5. q[j].abs = last + j
  <2>1. ~(k <= j)
    BY <1>3, <1>4
  <2>2. j \notin Bad
    <3> HIDE DEF Bad
    <3> QED BY <1>1, <2>1
  <2> QED BY <1>41, <2>2
<1> HIDE DEF Bad
<1>6. j \in 1 .. Len(q) /\ k \in 1 .. Len(q)
  BY SMTT(30), <1>0, <1>2, <1>41
<1>7. SeqDist(q[j].relSeq, q[k].relSeq) = 1
  BY <1>4, <1>41 DEF ChunksReady
<1>8. last <= q[j].abs /\ j <= k
  BY <1>3, <1>4, <1>5
<1>9. q[k].abs = q[j].abs + 1
  BY <1>6, <1>7, <1>8, ChunkStep
<1> QED BY <1>2, <1>3, <1>4, <1>5, <1>9

\* What next_ready hands out for a reliable head is the next whole message.
LEMMA ReliableTake ==
    ASSUME NEW q \in Seq(Frame), q # << >>, NEW sent \in Nat,
           NEW msgs \in SUBSET Message, NEW last,
           StagedFits(q, sent, msgs, last), LastFits(last, sent, msgs),
           MessagesFit(msgs, sent),
           q[1].reliable, ReliableReady(q, (last - 1) % SeqSpan)
    PROVE  /\ FramesTaken(q) \in 1 .. Len(q)
           /\ \A k \in 1 .. FramesTaken(q) : q[k].abs = last + k
           /\ \E m \in msgs : /\ m.from = last + 1
                              /\ m.to = last + FramesTaken(q)
<1>0. /\ last \in Nat /\ Len(q) \in Nat /\ Len(q) >= 1 /\ 1 \in 1 .. Len(q)
      /\ Head(q) = q[1]
  BY EmptySeq, LenProperties DEF LastFits
<1>1. SeqDist((last - 1) % SeqSpan, q[1].relSeq) = 1
  BY <1>0 DEF ReliableReady
<1>2. q[1].abs = last + 1
  BY <1>1, HeadStartsMessage
<1>3. PICK m \in msgs : m.from = last + 1 /\ q[1].numChunks = m.to - m.from + 1
  BY <1>1, HeadStartsMessage
<1>4. m.to \in Nat /\ m.from \in Nat /\ m.from <= m.to
  BY DEF Message, MessagesFit
<1>5. q[1].numChunks \in Nat /\ q[1].numChunks >= 1 /\ m.to = last + q[1].numChunks
  BY SMTT(30), <1>0, <1>3, <1>4
<1>6. CASE q[1].numChunks > 1
  <2>1. FramesTaken(q) = q[1].numChunks
    BY <1>0, <1>6 DEF FramesTaken
  <2>2. ChunksReady(q, q[1].numChunks)
    BY <1>0, <1>6 DEF ReliableReady
  <2>3. q[1].numChunks <= Len(q)
    BY <2>2 DEF ChunksReady
  <2>4. \A k \in 1 .. q[1].numChunks : q[k].abs = last + k
    BY <1>0, <1>2, <1>5, <2>2, ChunksAreConsecutive
  <2>5. q[1].numChunks \in 1 .. Len(q)
    BY <1>0, <1>5, <2>3
  <2> QED BY <1>3, <1>5, <2>1, <2>4, <2>5
<1>7. CASE q[1].numChunks = 1
  <2>1. FramesTaken(q) = 1
    BY <1>0, <1>7 DEF FramesTaken
  <2>2. \A k \in 1 .. 1 : q[k].abs = last + k
    BY <1>2
  <2> QED BY <1>0, <1>3, <1>5, <1>7, <2>1, <2>2
<1> QED BY <1>5, <1>6, <1>7

\* An unreliable head that passes the gate: its predecessor was delivered
\* last, or the counter is at the sentinel.
LEMMA UnreliableTake ==
    ASSUME NEW q \in Seq(Frame), q # << >>, NEW sent \in Nat, NEW msgs,
           NEW last \in Nat, StagedFits(q, sent, msgs, last),
           UnreliableReady(q, (last - 1) % SeqSpan)
    PROVE  last % SeqSpan = 0 \/ q[1].abs = last
<1>0. 1 \in 1 .. Len(q) /\ Head(q) = q[1] /\ q[1] \in Frame
  BY EmptySeq, ElementOfSeq
<1>1. /\ FrameFits(q[1], sent, msgs) /\ WindowFits(q[1], sent, last)
      /\ q[1].abs \in Nat /\ q[1].sentAt \in Nat
  BY <1>0 DEF StagedFits, Frame
<1>2. CASE (last - 1) % SeqSpan = SeqMax
  <2>1. last \in Int
    OBVIOUS
  <2> QED BY <1>2, <2>1, SentinelResidue
<1>3. CASE SeqDist((last - 1) % SeqSpan, q[1].relSeq) = 0
  <2>1. SeqDist((last - 1) % SeqSpan, (q[1].abs - 1) % SeqSpan) = 0
    BY <1>1, <1>3 DEF FrameFits
  <2>2. /\ q[1].abs - last > 0 - SeqSpan /\ q[1].abs - last < SeqSpan
        /\ last \in Int /\ q[1].abs \in Int
    BY SMTT(30), <1>1, SeqSpanAssumption DEF WindowFits
  <2> QED BY <2>1, <2>2, WindowSame
<1> QED BY <1>0, <1>2, <1>3 DEF UnreliableReady

\* What stays staged is still in the window of the counter that moved.
LEMMA StagedFitsTake ==
    ASSUME NEW q \in Seq(Frame), NEW t \in 1 .. Len(q), NEW sent \in Nat, NEW msgs,
           NEW last \in Nat, NEW last2 \in Nat, StagedFits(q, sent, msgs, last),
           last <= last2, last2 = last \/ last2 <= q[t].sentAt
    PROVE  /\ SubSeq(q, t + 1, Len(q)) \in Seq(Frame)
           /\ StagedFits(SubSeq(q, t + 1, Len(q)), sent, msgs, last2)
<1> DEFINE r == SubSeq(q, t + 1, Len(q))
<1>0. Len(q) \in Nat /\ t \in Nat
  BY LenProperties
<1>1. \A i \in t + 1 .. Len(q) : q[i] \in Frame
  BY <1>0, ElementOfSeq
<1>2. /\ r \in Seq(Frame)
      /\ Len(r) = Len(q) - t
      /\ \A i \in 1 .. Len(q) - t : r[i] = q[t + i]
  <2>1. t + 1 \in Int /\ Len(q) \in Int
    BY <1>0
  <2>2. /\ r \in Seq(Frame)
        /\ Len(r) = IF t + 1 <= Len(q) THEN Len(q) - (t + 1) + 1 ELSE 0
        /\ \A i \in 1 .. Len(q) - (t + 1) + 1 : r[i] = q[(t + 1) + i - 1]
    BY <1>1, <2>1, SubSeqProperties
  <2>3. Len(r) = Len(q) - t
    BY <1>0, <2>2
  <2>4. ASSUME NEW i \in 1 .. Len(q) - t PROVE r[i] = q[t + i]
    <3>1. i \in 1 .. Len(q) - (t + 1) + 1 /\ (t + 1) + i - 1 = t + i
      BY <1>0
    <3> QED BY <2>2, <3>1
  <2> QED BY <2>2, <2>3, <2>4
<1> HIDE DEF r
<1>3. ASSUME NEW i \in 1 .. Len(r)
      PROVE  FrameFits(r[i], sent, msgs) /\ WindowFits(r[i], sent, last2)
  <2>1. t + i \in 1 .. Len(q) /\ r[i] = q[t + i] /\ t <= t + i
    BY <1>0, <1>2
  <2>2. q[t + i] \in Frame /\ q[t] \in Frame
    BY <2>1, ElementOfSeq
  <2>3. /\ q[t + i].abs \in Nat /\ q[t + i].sentAt \in Nat /\ q[t].sentAt \in Nat
    BY <2>2 DEF Frame
  <2>4. /\ FrameFits(q[t + i], sent, msgs) /\ WindowFits(q[t + i], sent, last)
        /\ q[t].sentAt <= q[t + i].sentAt
    BY <2>1 DEF StagedFits
  <2>5. WindowFits(q[t + i], sent, last2)
    <3>1. /\ q[t + i].abs <= q[t + i].sentAt /\ q[t + i].sentAt <= sent
          /\ q[t + i].sentAt - q[t + i].abs < SeqSpan - 1
          /\ last <= q[t + i].sentAt /\ q[t + i].abs - last < SeqSpan
      BY <2>4 DEF WindowFits
    <3>2. last2 <= q[t + i].sentAt
      BY SMTT(30), <2>3, <2>4, <3>1
    <3>3. q[t + i].abs - last2 < SeqSpan
      BY SMTT(30), <2>3, <3>1, SeqSpanAssumption
    <3> QED BY <3>1, <3>2, <3>3 DEF WindowFits
  <2> QED BY <2>1, <2>4, <2>5
<1>4. ASSUME NEW i \in 1 .. Len(r), NEW j \in 1 .. Len(r), i <= j
      PROVE  r[i].sentAt <= r[j].sentAt
  <2>1. /\ t + i \in 1 .. Len(q) /\ r[i] = q[t + i]
        /\ t + j \in 1 .. Len(q) /\ r[j] = q[t + j] /\ t + i <= t + j
    BY <1>0, <1>2, <1>4
  <2> QED BY <2>1 DEF StagedFits
<1> QED BY <1>2, <1>3, <1>4 DEF StagedFits, r

\* A frame taken from the queue was queued before it arrived.
LEMMA TakenSentAt ==
    ASSUME NEW q \in Seq(Frame), NEW sent \in Nat, NEW msgs, NEW last,
           StagedFits(q, sent, msgs, last), NEW t \in 1 .. Len(q)
    PROVE  /\ q[t].abs \in Nat /\ q[t].relSeq = (q[t].abs - 1) % SeqSpan
           /\ q[t].abs <= q[t].sentAt /\ q[t].abs <= sent
<1>1. q[t] \in Frame
  BY ElementOfSeq
<1> QED BY <1>1 DEF Frame, StagedFits, FrameFits, WindowFits

\* Drain::next yields a message.
LEMMA DrainNextInv ==
    ASSUME IndInv, NEW c \in Channels, DrainNext(c)
    PROVE  IndInv'
<1> DEFINE q == staging[c]
<1> DEFINE t == FramesTaken(q)
<1> DEFINE last == LastAbs(c)
<1> DEFINE d == [reliable |-> Head(q).reliable,
                 frames |-> [i \in 1 .. t |-> q[i].abs], after |-> last]
<1>0. /\ TypeOK /\ q \in Seq(Frame) /\ delivered[c] \in Seq(Delivery)
      /\ sentAbs[c] \in Nat /\ messages[c] \in SUBSET Message
      /\ SenderOK(c) /\ ReceiverOK(c)
  BY DEF IndInv, TypeOK
<1>1. /\ MessagesFit(messages[c], sentAbs[c])
      /\ LastFits(last, sentAbs[c], messages[c]) /\ last \in Nat
      /\ StagedFits(q, sentAbs[c], messages[c], last)
      /\ receivedRel[c] = (last - 1) % SeqSpan
  BY <1>0 DEF SenderOK, ReceiverOK, LastFits
<1>2. /\ sendRel' = sendRel /\ sentAbs' = sentAbs /\ messages' = messages
      /\ wire' = wire /\ cursor' = cursor
      /\ staging' = [staging EXCEPT ![c] = SubSeq(q, t + 1, Len(q))]
      /\ receivedRel' = [receivedRel EXCEPT ![c] = LastAfter(q, receivedRel[c])]
      /\ delivered' = [delivered EXCEPT ![c] = Append(delivered[c], d)]
      /\ HeadReady(q, receivedRel[c])
  BY DEF DrainNext, StagingAfter
<1>3. /\ q # << >> /\ Len(q) \in Nat /\ 1 \in 1 .. Len(q) /\ Head(q) = q[1]
      /\ q[1] \in Frame /\ q[1].reliable \in BOOLEAN
  <2>1. q # << >>
    BY <1>2 DEF HeadReady
  <2> HIDE DEF q
  <2>2. Len(q) \in Nat /\ 1 \in 1 .. Len(q) /\ Head(q) = q[1]
    BY <1>0, <2>1, EmptySeq, LenProperties
  <2>3. q[1] \in Frame
    BY <1>0, <2>2, ElementOfSeq
  <2> QED BY <2>1, <2>2, <2>3 DEF Frame
<1> HIDE DEF q, last
<1>4. /\ t \in 1 .. Len(q)
      /\ q[1].reliable =>
           /\ \A k \in 1 .. t : q[k].abs = last + k
           /\ \E m \in messages[c] : m.from = last + 1 /\ m.to = last + t
      /\ ~q[1].reliable => t = 1 /\ (last % SeqSpan = 0 \/ q[1].abs = last)
  <2>1. CASE q[1].reliable
    <3>1. ReliableReady(q, (last - 1) % SeqSpan)
      BY <1>1, <1>2, <1>3, <2>1 DEF HeadReady
    <3> QED BY SMTT(30), <1>0, <1>1, <1>3, <2>1, <3>1, ReliableTake
  <2>2. CASE ~q[1].reliable
    <3>1. UnreliableReady(q, (last - 1) % SeqSpan)
      BY <1>1, <1>2, <1>3, <2>2 DEF HeadReady
    <3>2. t = 1
      BY <1>3, <2>2 DEF FramesTaken
    <3>3. last % SeqSpan = 0 \/ q[1].abs = last
      BY <1>0, <1>1, <1>3, <3>1, UnreliableTake
    <3> QED BY <1>3, <2>2, <3>2, <3>3
  <2> QED BY <2>1, <2>2
<1> HIDE DEF t
<1>5. /\ q[t].abs \in Nat /\ q[t].relSeq = (q[t].abs - 1) % SeqSpan
      /\ q[t].abs <= q[t].sentAt /\ q[t].abs <= sentAbs[c]
  BY <1>0, <1>1, <1>4, TakenSentAt
<1>6. /\ t \in Nat /\ t >= 1
      /\ d.reliable = q[1].reliable /\ d.after = last
      /\ d.frames = [i \in 1 .. t |-> q[i].abs]
  BY <1>3, <1>4
<1>7. d \in Delivery /\ Len(d.frames) = t /\ \A k \in 1 .. t : d.frames[k] = q[k].abs
  <2>1. \A i \in 1 .. t : q[i].abs \in Nat
    <3> SUFFICES ASSUME NEW i \in 1 .. t PROVE q[i].abs \in Nat
      OBVIOUS
    <3>1. i \in 1 .. Len(q)
      BY <1>3, <1>4
    <3> QED BY <1>0, <1>1, <3>1, TakenSentAt
  <2>2. [i \in 1 .. t |-> q[i].abs] \in Seq(Nat)
    BY <1>6, <2>1
  <2>3. d \in Delivery
    BY <1>1, <1>3, <2>2 DEF Delivery
  <2> QED BY <1>6, <2>2, <2>3
<1> HIDE DEF d
<1> DEFINE last2 == IF q[1].reliable THEN q[t].abs ELSE last
<1>8. LastOf(Append(delivered[c], d)) = last2
  <2>1. /\ Append(delivered[c], d) # << >>
        /\ Append(delivered[c], d)[Len(Append(delivered[c], d))] = d
    BY SMTT(30), <1>0, <1>7, AppendProperties, LenProperties
  <2>2. d.frames[t] = q[t].abs
    BY <1>6, <1>7
  <2> QED BY <1>6, <1>7, <2>1, <2>2 DEF LastOf
<1>9. last2 \in Nat /\ last <= last2 /\ (last2 = last \/ last2 <= q[t].sentAt)
  BY <1>1, <1>3, <1>4, <1>5, <1>6
<1>10. LastFits(last2, sentAbs[c], messages[c])
  <2>1. CASE q[1].reliable
    <3>1. last2 = q[t].abs /\ q[t].abs = last + t
      BY <1>4, <1>6, <2>1
    <3> QED BY <1>4, <1>5, <2>1, <3>1 DEF LastFits
  <2>2. CASE ~q[1].reliable
    BY <1>1, <2>2
  <2> QED BY <2>1, <2>2
<1>11. LastAfter(q, receivedRel[c]) = (last2 - 1) % SeqSpan
  <2>1. CASE q[1].reliable
    BY <1>3, <1>5, <2>1 DEF LastAfter, t
  <2>2. CASE ~q[1].reliable
    BY <1>1, <1>3, <2>2 DEF LastAfter
  <2> QED BY <2>1, <2>2
<1>12. DeliveryFits(d, messages[c])
  <2>1. CASE q[1].reliable
    <3>1. PICK m \in messages[c] : m.from = last + 1 /\ m.to = last + t
      BY <1>4, <2>1
    <3>2. Len(d.frames) = m.to - m.from + 1
      BY <1>1, <1>6, <1>7, <3>1
    <3>3. ASSUME NEW k \in 1 .. Len(d.frames) PROVE d.frames[k] = m.from + k - 1
      <4>1. d.frames[k] = last + k
        BY <1>4, <1>7, <2>1, <3>3
      <4>2. k \in Nat
        BY <1>6, <1>7
      <4> QED BY <1>1, <3>1, <4>1, <4>2
    <3> QED BY <1>6, <2>1, <3>1, <3>2, <3>3 DEF DeliveryFits, IsMessage
  <2>2. CASE ~q[1].reliable
    <3>1. d.frames[1] = q[1].abs
      BY <1>4, <1>7, <2>2
    <3> QED BY <1>4, <1>6, <2>2, <3>1 DEF DeliveryFits
  <2> QED BY <2>1, <2>2
<1>13. /\ SubSeq(q, t + 1, Len(q)) \in Seq(Frame)
       /\ StagedFits(SubSeq(q, t + 1, Len(q)), sentAbs[c], messages[c], last2)
  <2> HIDE DEF last2
  <2> QED BY <1>0, <1>1, <1>4, <1>9, StagedFitsTake
<1> HIDE DEF last2
<1>14. TypeOK'
  <2>1. LastAfter(q, receivedRel[c]) \in SeqNums
    <3>1. last2 - 1 \in Int
      BY <1>9
    <3> QED BY <1>11, <3>1, Residue
  <2>2. Append(delivered[c], d) \in Seq(Delivery)
    BY <1>0, <1>7, AppendProperties
  <2> QED BY <1>0, <1>2, <1>13, <2>1, <2>2 DEF TypeOK
<1>15. ASSUME NEW e \in Channels PROVE SenderOK(e)'
  BY <1>2 DEF IndInv, SenderOK
<1>16. ASSUME NEW e \in Channels, e # c PROVE ReceiverOK(e)'
  <2>1. ReceiverOK(e)
    BY DEF IndInv
  <2>2. /\ staging'[e] = staging[e] /\ receivedRel'[e] = receivedRel[e]
        /\ delivered'[e] = delivered[e]
    BY <1>0, <1>2, <1>16 DEF TypeOK
  <2> QED BY <1>2, <2>1, <2>2 DEF ReceiverOK, LastAbs
<1>17. ReceiverOK(c)'
  <2>1. /\ staging'[c] = SubSeq(q, t + 1, Len(q))
        /\ receivedRel'[c] = LastAfter(q, receivedRel[c])
        /\ delivered'[c] = Append(delivered[c], d)
    BY <1>0, <1>2 DEF TypeOK
  <2>2. LastAbs(c)' = last2
    BY <1>8, <2>1 DEF LastAbs
  <2>3. ASSUME NEW i \in 1 .. Len(delivered'[c])
        PROVE  DeliveryFits(delivered'[c][i], messages[c])
    <3>1. /\ Len(delivered'[c]) = Len(delivered[c]) + 1 /\ Len(delivered[c]) \in Nat
          /\ \A k \in 1 .. Len(delivered[c]) : delivered'[c][k] = delivered[c][k]
          /\ delivered'[c][Len(delivered[c]) + 1] = d
      BY <1>0, <1>7, <2>1, AppendProperties, LenProperties
    <3>2. CASE i = Len(delivered[c]) + 1
      BY <1>12, <3>1, <3>2
    <3>3. CASE i \in 1 .. Len(delivered[c])
      BY <1>0, <3>1, <3>3 DEF ReceiverOK
    <3> QED BY <3>1, <3>2, <3>3
  <2> QED BY <1>2, <1>10, <1>11, <1>13, <2>1, <2>2, <2>3 DEF ReceiverOK
<1> QED BY <1>14, <1>15, <1>16, <1>17 DEF IndInv

-----------------------------------------------------------------------------
(* The theorems.                                                           *)

\* Every step (queueing, staging, draining) preserves IndInv.
LEMMA NextInv == IndInv /\ [Next]_vars => IndInv'
<1> SUFFICES ASSUME IndInv, [Next]_vars PROVE IndInv'
  OBVIOUS
<1>1. ASSUME NEW c \in Channels, NEW n \in 1 .. MaxChunks, QueueReliable(c, n)
      PROVE  IndInv'
  BY <1>1, QueueReliableInv
<1>2. ASSUME NEW c \in Channels, QueueUnreliable(c) PROVE IndInv'
  BY <1>2, QueueUnreliableInv
<1>3. ASSUME NEW c \in Channels, NEW f \in wire[c], Accept(c, f) PROVE IndInv'
  BY <1>3, AcceptInv
<1>4. CASE StartDrain
  BY <1>4, CursorInv, ReassemblerAssumption DEF StartDrain
<1>5. ASSUME NEW c \in Channels, DrainNext(c) PROVE IndInv'
  BY <1>5, DrainNextInv
<1>6. ASSUME NEW c \in Channels, DrainSkip(c) PROVE IndInv'
  <2>1. cursor' \in 0 .. NumChannels
    BY <1>6, ReassemblerAssumption DEF DrainSkip, Channels
  <2> QED BY <1>6, <2>1, CursorInv DEF DrainSkip
<1>7. CASE UNCHANGED vars
  <2>1. cursor' \in 0 .. NumChannels
    BY <1>7 DEF vars, IndInv, TypeOK
  <2> QED BY <1>7, <2>1, CursorInv DEF vars
<1> QED BY <1>1, <1>2, <1>3, <1>4, <1>5, <1>6, <1>7 DEF Next

\* The invariant holds in every reachable state.
THEOREM Invariance == Spec => []IndInv
BY InitInv, NextInv, PTL DEF Spec

\* Every variable keeps its type, whatever the channel widths and bounds.
THEOREM TypeCorrect == Spec => []TypeOK
<1>1. IndInv => TypeOK
  BY DEF IndInv
<1> QED BY <1>1, Invariance, PTL

\* drain() yields the peer's reliable messages whole, once each and in the
\* order they were queued, across any loss, duplication and reordering of
\* frames and across the wrap of the u16 ids.
THEOREM InOrderDelivery == Spec => []ReliableInOrder
<1>1. IndInv => ReliableInOrder
  BY DEF IndInv, ReceiverOK, DeliveryFits, ReliableInOrder
<1> QED BY <1>1, Invariance, PTL

\* The unreliable gate opens exactly at the reliable predecessor, except at
\* the sentinel value of the counter.
THEOREM GatedDelivery == Spec => []UnreliableGated
<1>1. IndInv => UnreliableGated
  BY DEF IndInv, ReceiverOK, DeliveryFits, UnreliableGated
<1> QED BY <1>1, Invariance, PTL
====
