---------------------------- MODULE HistoryProofs ----------------------------
(***************************************************************************)
(* Proofs about the ACK history and what relies on it, for every width of  *)
(* the sequence numbers, length of the ring and bound.  DatagramHistory:   *)
(* type correctness, that the active range of the ring delimits the used   *)
(* slots and is in order, and that no ACK frame takes a datagram from the  *)
(* sender that did not arrive.  CarrierLink: that the sender of a          *)
(* connection keeps every reliable frame until the peer has it, and that   *)
(* the link is the queue of ReliableChannel.                               *)
(***************************************************************************)
EXTENDS DatagramHistory, CarrierLink, Residues, FiniteSetTheorems, SequenceTheorems

Half == SeqSpan \div 2

\* A slot's number is that of a rank: the ghost ranks of the slots.
Ranks == [Slots -> Int]

Shape == [el : [Slots -> [seq : SeqNums, acks : -1 .. MaxNumAcks - 1]],
          first : Slots, last : Slots, active : Nat]

\* The ranks of the slots, at most Half behind the newest arrival N.  A slot
\* that was never used has the number, and the rank, 0.
Slotted(h, rank, N) ==
    /\ h \in Shape /\ rank \in Ranks
    /\ \A i \in Slots :
          /\ h.el[i].seq = rank[i] % SeqSpan /\ N - Half < rank[i] /\ rank[i] <= N
          /\ rank[i] % HistorySize = i \/ (rank[i] = 0 /\ ~IsValid(h, i))
    /\ h.active = Cardinality(ValidSlots(h))

\* The active range is that of the ranks F .. L: both ends are in it and the
\* slots of the ranks between hold that rank or an older one.
Ranged(h, rank, F, L) ==
    /\ F \in Nat \ {0} /\ L \in Nat /\ F <= L /\ L - F < HistorySize
    /\ h.first = F % HistorySize /\ h.last = (L + 1) % HistorySize
    /\ rank[F % HistorySize] = F
    /\ IsValid(h, L % HistorySize) /\ rank[L % HistorySize] = L
    /\ \A i \in ValidSlots(h) : F <= rank[i] /\ rank[i] <= L
    /\ \A p \in F .. L : rank[p % HistorySize] <= p

Sound(h, rank, N) ==
    /\ Slotted(h, rank, N)
    /\ h.active # 0 => \E F, L \in Nat : /\ Ranged(h, rank, F, L)
                                         /\ N - HistorySize < F /\ L <= N

-----------------------------------------------------------------------------
(* The ring.                                                               *)

LEMMA ConstantFacts ==
    /\ SeqSpan \in Nat \ {0} /\ HistorySize \in Nat \ {0} /\ Half \in Nat
    /\ HistorySize <= Half /\ 2 * Half <= SeqSpan /\ SeqSpan <= 2 * Half + 1
    /\ MaxNumAcks \in Nat \ {0} /\ ByteBits \in Nat \ {0}
    /\ SeqSpan % HistorySize = 0
<1>1. SeqSpan \in Nat \ {0} /\ HistorySize \in Nat \ {0} /\ 2 * HistorySize <= SeqSpan
      /\ MaxNumAcks \in Nat \ {0} /\ ByteBits \in Nat \ {0} /\ SeqSpan % HistorySize = 0
  BY SeqSpanAssumption, HistoryAssumption
<1>2. Half \in Nat /\ 2 * Half <= SeqSpan /\ SeqSpan <= 2 * Half + 1
  BY <1>1 DEF Half
<1> QED BY <1>1, <1>2

LEMMA SlotFacts ==
    ASSUME NEW a \in Int
    PROVE  /\ a % HistorySize \in Slots /\ a % SeqSpan \in SeqNums
           /\ (a % SeqSpan) % HistorySize = a % HistorySize
<1>1. a % HistorySize \in 0 .. HistorySize - 1 /\ a % SeqSpan \in 0 .. SeqSpan - 1
  BY ConstantFacts, Division
<1>2. (a % SeqSpan) % HistorySize = a % HistorySize
  BY ConstantFacts, ResidueOfResidue
<1> QED BY <1>1, <1>2 DEF Slots, SeqNums

\* Two ranks closer than the ring is long are in one slot only if equal.
LEMMA SameSlot ==
    ASSUME NEW a \in Int, NEW b \in Int, a % HistorySize = b % HistorySize,
           a - b < HistorySize, b - a < HistorySize
    PROVE  a = b
BY ConstantFacts, ResidueWindow

\* A rank in the slot of a later one is a whole round older.
LEMMA RoundOlder ==
    ASSUME NEW a \in Int, NEW b \in Int, a % HistorySize = b % HistorySize, a < b
    PROVE  a <= b - HistorySize
<1>1. HistorySize \in Nat \ {0}
  BY ConstantFacts
<1> SUFFICES ASSUME b - a < HistorySize PROVE FALSE
  BY <1>1
<1>2. a - b < HistorySize
  BY <1>1
<1>3. a = b
  BY <1>2, SameSlot
<1> QED BY <1>3

LEMMA SeqDistance ==
    ASSUME NEW a \in Int, NEW b \in Int
    PROVE  /\ SeqDist(a % SeqSpan, b % SeqSpan) = (b - a) % SeqSpan
           /\ SeqDist(a % SeqSpan, b % SeqSpan) \in SeqNums
           /\ 0 <= b - a /\ b - a < SeqSpan => SeqDist(a % SeqSpan, b % SeqSpan) = b - a
           /\ b - a < 0 /\ -SeqSpan <= b - a =>
                 SeqDist(a % SeqSpan, b % SeqSpan) = b - a + SeqSpan
<1>1. SeqDist(a % SeqSpan, b % SeqSpan) = (b - a) % SeqSpan
  BY ConstantFacts, ResidueDiff DEF SeqDist
<1>2. PICK d : d = b - a
  OBVIOUS
<1>3. /\ d \in Int
      /\ 0 <= d /\ d < SeqSpan => d % SeqSpan = d
      /\ d < 0 /\ -SeqSpan <= d => d % SeqSpan = d + SeqSpan
  BY <1>2, ConstantFacts, ResidueSmall
<1>4. d % SeqSpan \in SeqNums
  BY <1>3, SlotFacts
<1> QED BY <1>1, <1>2, <1>3, <1>4

\* seq_less_than is the order of the ranks, for ranks less than half the
\* sequence space apart.
LEMMA SeqLessFacts ==
    ASSUME NEW a \in Int, NEW b \in Int, b - a < Half, a - b <= Half
    PROVE  SeqLess(a % SeqSpan, b % SeqSpan) <=> a < b
<1>0. SeqSpan \in Nat \ {0} /\ Half \in Nat /\ 2 * Half <= SeqSpan
  BY ConstantFacts
<1>1. PICK x, y : x = a % SeqSpan /\ y = b % SeqSpan
  OBVIOUS
<1>2. SeqLess(x, y) <=> x # y /\ SeqDist(x, y) < Half
  BY DEF SeqLess, Half
<1>3. CASE a < b
  <2>1. 0 <= b - a /\ b - a < SeqSpan /\ a - b < SeqSpan
    BY <1>0, <1>3
  <2>2. SeqDist(x, y) = b - a
    BY <1>1, <2>1, SeqDistance
  <2>3. x # y
    <3> SUFFICES ASSUME x = y PROVE FALSE
      OBVIOUS
    <3>1. a % SeqSpan = b % SeqSpan
      BY <1>1
    <3>2. a = b
      BY <1>0, <2>1, <3>1, ResidueWindow
    <3> QED BY <1>3, <3>2
  <2> QED BY <1>1, <1>2, <1>3, <2>2, <2>3
<1>4. CASE a = b
  BY <1>1, <1>2, <1>4
<1>5. CASE a > b
  <2>1. b - a < 0 /\ -SeqSpan <= b - a
    BY <1>0, <1>5
  <2>2. SeqDist(x, y) = b - a + SeqSpan
    BY <1>1, <2>1, SeqDistance
  <2>3. ~(b - a + SeqSpan < Half)
    BY <1>0, <1>5
  <2> QED BY <1>1, <1>2, <1>5, <2>2, <2>3
<1> QED BY <1>3, <1>4, <1>5

LEMMA LastSlot ==
    ASSUME NEW h, NEW L \in Int, h.last = (L + 1) % HistorySize
    PROVE  LastIndex(h) = L % HistorySize
<1>1. PICK a, n : a = L + 1 /\ n = -1
  OBVIOUS
<1>2. a \in Int /\ n \in Int /\ a + n = L /\ a % HistorySize \in Int
  BY <1>1, ConstantFacts, Division
<1>3. ((a % HistorySize) + n) % HistorySize = (a + n) % HistorySize
  BY <1>2, ConstantFacts, ResidueStep
<1>4. (a % HistorySize) + n = (a % HistorySize) - 1
  BY <1>1, <1>2
<1> QED BY <1>1, <1>2, <1>3, <1>4 DEF LastIndex, SubSlot

LEMMA NextSlot ==
    ASSUME NEW a \in Int PROVE AddSlot(a % HistorySize) = (a + 1) % HistorySize
<1>1. 1 \in Int /\ HistorySize \in Nat \ {0}
  BY ConstantFacts
<1>2. ((a % HistorySize) + 1) % HistorySize = (a + 1) % HistorySize
  BY <1>1, ResidueStep
<1> QED BY <1>2 DEF AddSlot

-----------------------------------------------------------------------------
(* The two loops of remove.                                                *)

\* The loop is the recursive function it says.
LEMMA NearestLoop ==
    ASSUME NEW h, NEW i \in Slots, NEW step \in Int
    PROVE  \E w : /\ w[0] = i
                  /\ \A n \in 1 .. HistorySize : w[n] = PassUnused(h, w[n - 1], step)
                  /\ NearestValid(h, i, step) = w[HistorySize]
<1> DEFINE G == [j \in Slots |-> PassUnused(h, j, step)]
<1>1. HistorySize \in Nat
  BY ConstantFacts
<1>2. G \in [Slots -> Slots]
  <2>1. \A x \in Int : x % HistorySize \in Slots
    BY SlotFacts
  <2> QED BY <2>1 DEF Slots, PassUnused
<1>3. \A j \in Slots : G[j] = PassUnused(h, j, step)
  OBVIOUS
<1> HIDE DEF G
<1>4. PICK x \in [0 .. HistorySize -> Slots] :
          x[0] = i /\ \A n \in 1 .. HistorySize : x[n] = G[x[n - 1]]
  <2>1. PICK w : IsLoop(w, HistorySize, Slots, G, i)
    BY <1>1, <1>2, LoopExists
  <2> QED BY <2>1 DEF IsLoop
<1>5. x = [n \in 0 .. HistorySize |-> IF n = 0 THEN i ELSE PassUnused(h, x[n - 1], step)]
  <2>1. \A n \in 1 .. HistorySize : n - 1 \in 0 .. HistorySize /\ x[n - 1] \in Slots
    BY <1>1
  <2>2. \A n \in 0 .. HistorySize :
            x[n] = IF n = 0 THEN i ELSE PassUnused(h, x[n - 1], step)
    BY <1>1, <1>3, <1>4, <2>1
  <2> QED BY <2>2
<1> DEFINE W == CHOOSE w : w = [n \in 0 .. HistorySize |->
                                  IF n = 0 THEN i ELSE PassUnused(h, w[n - 1], step)]
<1>6. W = [n \in 0 .. HistorySize |-> IF n = 0 THEN i ELSE PassUnused(h, W[n - 1], step)]
  BY ZenonT(30), <1>5
<1>7. NearestValid(h, i, step) = W[HistorySize]
  BY DEF NearestValid
<1> HIDE DEF W
<1>8. W[0] = i /\ \A n \in 1 .. HistorySize : W[n] = PassUnused(h, W[n - 1], step)
  <2>1. \A n \in 0 .. HistorySize :
            W[n] = IF n = 0 THEN i ELSE PassUnused(h, W[n - 1], step)
    BY <1>6
  <2> QED BY <1>1, <2>1
<1> QED BY <1>7, <1>8

\* The slot m steps on from that of rank P.
At(P, step, m) == (P + step * m) % HistorySize

LEMMA AtFacts ==
    ASSUME NEW P \in Int, NEW step \in {1, -1}, NEW m \in Int
    PROVE  /\ At(P, step, 0) = P % HistorySize /\ At(P, step, m) \in Slots
           /\ (At(P, step, m) + step) % HistorySize = At(P, step, m + 1)
<1>1. PICK a : a = P + step * m
  OBVIOUS
<1>2. a \in Int /\ step \in Int /\ P + step * 0 = P /\ P + step * (m + 1) = a + step
  <2>1. CASE step = 1
    BY <1>1, <2>1
  <2>2. CASE step = -1
    BY <1>1, <2>2
  <2> QED BY <2>1, <2>2
<1>3. ((a % HistorySize) + step) % HistorySize = (a + step) % HistorySize
  BY <1>2, ConstantFacts, ResidueStep
<1>4. a % HistorySize \in Slots
  BY <1>2, SlotFacts
<1> QED BY <1>1, <1>2, <1>3, <1>4 DEF At

\* With a used slot ahead the loop ends at the nearest one.
LEMMA NearestFacts ==
    ASSUME NEW h, NEW P \in Int, NEW step \in {1, -1}, NEW d \in 0 .. HistorySize - 1,
           IsValid(h, At(P, step, d))
    PROVE  \E m \in 0 .. d : /\ NearestValid(h, P % HistorySize, step) = At(P, step, m)
                             /\ IsValid(h, At(P, step, m))
                             /\ \A t \in 0 .. m - 1 : ~IsValid(h, At(P, step, t))
<1>0. HistorySize \in Nat \ {0} /\ d \in Nat /\ step \in Int
  BY ConstantFacts
<1>1. P % HistorySize \in Slots
  BY SlotFacts
<1>2. PICK w : /\ w[0] = P % HistorySize
               /\ \A n \in 1 .. HistorySize : w[n] = PassUnused(h, w[n - 1], step)
               /\ NearestValid(h, P % HistorySize, step) = w[HistorySize]
  BY <1>0, <1>1, NearestLoop
<1> DEFINE Reached(n, m) == /\ m <= n /\ w[n] = At(P, step, m)
                            /\ IsValid(h, At(P, step, m)) \/ m = n
                            /\ \A t \in 0 .. m - 1 : ~IsValid(h, At(P, step, t))
           Good == {n \in 0 .. HistorySize : \E m \in 0 .. d : Reached(n, m)}
<1>3. 0 \in Good
  <2>1. Reached(0, 0)
    BY <1>2, AtFacts
  <2> QED BY <1>0, <2>1
<1>4. ASSUME NEW n \in 0 .. HistorySize - 1, n \in Good PROVE n + 1 \in Good
  <2>1. PICK m \in 0 .. d : Reached(n, m)
    BY <1>4
  <2>2. n + 1 \in 1 .. HistorySize /\ (n + 1) - 1 = n /\ m \in Nat /\ n + 1 \in 0 .. HistorySize
    BY <1>0
  <2>3. w[n + 1] = PassUnused(h, At(P, step, m), step)
    BY <1>2, <2>1, <2>2
  <2>4. CASE IsValid(h, At(P, step, m))
    <3>1. w[n + 1] = At(P, step, m)
      BY <2>3, <2>4 DEF PassUnused
    <3>2. m <= n + 1
      BY <2>1, <2>2
    <3>3. Reached(n + 1, m)
      BY <2>1, <2>4, <3>1, <3>2
    <3> QED BY <2>2, <3>3
  <2>5. CASE ~IsValid(h, At(P, step, m))
    <3>1. w[n + 1] = At(P, step, m + 1) /\ m = n
      BY <2>1, <2>2, <2>3, <2>5, AtFacts DEF PassUnused
    <3>2. m # d
      BY <2>5
    <3>3. m + 1 \in 0 .. d
      BY <1>0, <3>2
    <3>4. \A t \in 0 .. (m + 1) - 1 : ~IsValid(h, At(P, step, t))
      <4>1. \A t \in 0 .. (m + 1) - 1 : t = m \/ t \in 0 .. m - 1
        BY <2>2
      <4> QED BY <2>1, <2>5, <4>1
    <3>5. Reached(n + 1, m + 1)
      BY <2>2, <3>1, <3>4
    <3> QED BY <2>2, <3>3, <3>5
  <2> QED BY <2>4, <2>5
<1> HIDE DEF Good
<1>5. HistorySize \in Good
  <2>1. HistorySize \in 0 .. HistorySize /\ HistorySize \in Nat
    BY <1>0
  <2>2. \A n \in 0 .. HistorySize - 1 : n \in Good => n + 1 \in Good
    BY <1>4
  <2> QED BY <1>3, <2>1, <2>2, InductionTo
<1>6. PICK m \in 0 .. d : Reached(HistorySize, m)
  BY <1>5 DEF Good
<1>7. m # HistorySize
  BY <1>0
<1> QED BY <1>2, <1>6, <1>7

-----------------------------------------------------------------------------
(* One slot is freed or taken.                                             *)

LEMMA ValidFinite ==
    ASSUME NEW h PROVE IsFiniteSet(ValidSlots(h)) /\ Cardinality(ValidSlots(h)) \in Nat
<1>1. IsFiniteSet(Slots)
  BY ConstantFacts, FS_Interval DEF Slots
<1>2. ValidSlots(h) \subseteq Slots
  BY DEF ValidSlots
<1>3. IsFiniteSet(ValidSlots(h))
  BY <1>1, <1>2, FS_Subset
<1> QED BY <1>3, FS_CardinalityType

\* num_active_elements is zero exactly if no slot is used.
LEMMA ActiveFacts ==
    ASSUME NEW h, NEW rank, NEW N, Slotted(h, rank, N)
    PROVE  h.active \in Nat /\ (h.active = 0 <=> ValidSlots(h) = {})
BY ValidFinite, FS_EmptySet DEF Slotted

LEMMA ShapeFacts ==
    ASSUME NEW h \in Shape
    PROVE  /\ h = [el |-> h.el, first |-> h.first, last |-> h.last, active |-> h.active]
           /\ h.el \in [Slots -> [seq : SeqNums, acks : -1 .. MaxNumAcks - 1]]
           /\ h.first \in Slots /\ h.last \in Slots /\ h.active \in Nat
           /\ \A i \in Slots : /\ h.el[i] = [seq |-> h.el[i].seq, acks |-> h.el[i].acks]
                               /\ h.el[i].seq \in SeqNums /\ h.el[i].acks \in -1 .. MaxNumAcks - 1
BY DEF Shape

\* A history of which several parts are replaced.
LEMMA ReplaceSlots ==
    ASSUME NEW h \in Shape, NEW e
    PROVE  [h EXCEPT !.el = e]
           = [el |-> e, first |-> h.first, last |-> h.last, active |-> h.active]
BY DEF Shape

LEMMA ReplaceActive ==
    ASSUME NEW h \in Shape, NEW e, NEW a
    PROVE  [h EXCEPT !.active = a, !.el = e]
           = [el |-> e, first |-> h.first, last |-> h.last, active |-> a]
<1>1. [h EXCEPT !.active = a] = [el |-> h.el, first |-> h.first, last |-> h.last, active |-> a]
  BY DEF Shape
<1>2. [h EXCEPT !.active = a, !.el = e] = [[h EXCEPT !.active = a] EXCEPT !.el = e]
  BY DEF Shape
<1>3. [[el |-> h.el, first |-> h.first, last |-> h.last, active |-> a] EXCEPT !.el = e]
      = [el |-> e, first |-> h.first, last |-> h.last, active |-> a]
  OBVIOUS
<1> QED BY <1>1, <1>2, <1>3

LEMMA ReplaceFirst ==
    ASSUME NEW h \in Shape, NEW e, NEW f, NEW a
    PROVE  [h EXCEPT !.active = a, !.el = e, !.first = f]
           = [el |-> e, first |-> f, last |-> h.last, active |-> a]
<1>1. [h EXCEPT !.active = a, !.el = e, !.first = f]
      = [[h EXCEPT !.active = a, !.el = e] EXCEPT !.first = f]
  BY DEF Shape
<1>2. [[el |-> e, first |-> h.first, last |-> h.last, active |-> a] EXCEPT !.first = f]
      = [el |-> e, first |-> f, last |-> h.last, active |-> a]
  OBVIOUS
<1> QED BY <1>1, <1>2, ReplaceActive

LEMMA FreeFacts ==
    ASSUME NEW h, NEW rank, NEW N \in Nat, Slotted(h, rank, N), NEW i \in Slots,
           NEW f \in Slots, NEW l \in Slots, NEW g,
           g = [el |-> [h.el EXCEPT ![i] = [seq |-> h.el[i].seq, acks |-> -1]],
                first |-> f, last |-> l,
                active |-> IF IsValid(h, i) THEN h.active - 1 ELSE h.active]
    PROVE  Slotted(g, rank, N) /\ ValidSlots(g) = ValidSlots(h) \ {i}
<1>1. h \in Shape /\ rank \in Ranks /\ MaxNumAcks \in Nat \ {0}
  BY ConstantFacts DEF Slotted
<1>2. /\ g.el = [h.el EXCEPT ![i] = [seq |-> h.el[i].seq, acks |-> -1]]
      /\ g.first = f /\ g.last = l
      /\ g.active = IF IsValid(h, i) THEN h.active - 1 ELSE h.active
  OBVIOUS
<1>3. g.el \in [Slots -> [seq : SeqNums, acks : -1 .. MaxNumAcks - 1]]
  BY <1>1, <1>2, ShapeFacts
<1>4. \A j \in Slots : /\ g.el[j].seq = h.el[j].seq
                       /\ g.el[j].acks = IF j = i THEN -1 ELSE h.el[j].acks
  BY <1>1, <1>2, ShapeFacts
<1>5. \A j \in Slots : IsValid(g, j) <=> j # i /\ IsValid(h, j)
  BY <1>4 DEF IsValid
<1>6. ValidSlots(g) = ValidSlots(h) \ {i}
  BY <1>5 DEF ValidSlots
<1>7. h.active = Cardinality(ValidSlots(h)) /\ h.active \in Nat
  BY ActiveFacts DEF Slotted
<1>8. g.active = Cardinality(ValidSlots(g)) /\ g.active \in Nat
  <2>1. CASE IsValid(h, i)
    <3>1. i \in ValidSlots(h)
      BY <2>1 DEF ValidSlots
    <3>2. Cardinality(ValidSlots(h) \ {i}) = Cardinality(ValidSlots(h)) - 1
      BY <3>1, ValidFinite, FS_RemoveElement
    <3>3. Cardinality(ValidSlots(g)) \in Nat
      BY ValidFinite
    <3>4. g.active = Cardinality(ValidSlots(h)) - 1
      BY <1>2, <1>7, <2>1
    <3> QED BY <1>6, <3>2, <3>3, <3>4
  <2>2. CASE ~IsValid(h, i)
    <3>1. ValidSlots(g) = ValidSlots(h)
      BY <1>6, <2>2 DEF ValidSlots
    <3> QED BY <1>2, <1>7, <2>2, <3>1
  <2> QED BY <2>1, <2>2
<1>9. g \in Shape
  BY <1>3, <1>8 DEF Shape
<1>10. \A j \in Slots :
          /\ g.el[j].seq = rank[j] % SeqSpan /\ N - Half < rank[j] /\ rank[j] <= N
          /\ rank[j] % HistorySize = j \/ (rank[j] = 0 /\ ~IsValid(g, j))
  BY <1>4, <1>5 DEF Slotted
<1> QED BY <1>1, <1>6, <1>8, <1>9, <1>10 DEF Slotted

\* The history after rank r was entered, with the bounds f and l.
Taken(h, r, f, l) ==
    [el |-> [h.el EXCEPT ![r % HistorySize] = [seq |-> r % SeqSpan, acks |-> 0]],
     first |-> f, last |-> l, active |-> h.active + 1]

-----------------------------------------------------------------------------
(* remove and get_for_ack.                                                 *)

LEMMA RangeTypes ==
    ASSUME NEW h, NEW rank, NEW N \in Nat, Slotted(h, rank, N), NEW F, NEW L,
           Ranged(h, rank, F, L)
    PROVE  /\ F \in Nat \ {0} /\ L \in Nat /\ F <= L /\ L - F < HistorySize
           /\ HistorySize \in Nat \ {0}
           /\ \A k \in ValidSlots(h) :
                 /\ k \in Slots /\ rank[k] \in Int /\ rank[k] % HistorySize = k
                 /\ F <= rank[k] /\ rank[k] <= L
<1>1. /\ F \in Nat \ {0} /\ L \in Nat /\ F <= L /\ L - F < HistorySize
      /\ HistorySize \in Nat \ {0}
  BY ConstantFacts DEF Ranged
<1>2. ASSUME NEW k \in ValidSlots(h)
      PROVE  /\ k \in Slots /\ rank[k] \in Int /\ rank[k] % HistorySize = k
             /\ F <= rank[k] /\ rank[k] <= L
  BY DEF Ranged, Slotted, ValidSlots, Ranks
<1> QED BY <1>1, <1>2

\* A used slot of the range holds the rank of its place.
LEMMA ValidRank ==
    ASSUME NEW h, NEW rank, NEW N \in Nat, Slotted(h, rank, N), NEW F, NEW L,
           Ranged(h, rank, F, L), NEW p \in F .. L, IsValid(h, p % HistorySize)
    PROVE  rank[p % HistorySize] = p
<1> DEFINE k == p % HistorySize
<1>1. F \in Nat /\ L \in Nat /\ L - F < HistorySize /\ p \in Int /\ HistorySize \in Nat
  BY RangeTypes
<1>2. k \in ValidSlots(h)
  BY <1>1, SlotFacts DEF ValidSlots
<1>3. rank[k] \in Int /\ rank[k] % HistorySize = p % HistorySize /\ F <= rank[k] /\ rank[k] <= L
  BY <1>2, RangeTypes
<1> HIDE DEF k
<1>4. rank[k] - p < HistorySize /\ p - rank[k] < HistorySize
  BY <1>1, <1>3
<1>5. rank[k] = p
  BY <1>1, <1>3, <1>4, SameSlot
<1> QED BY <1>5 DEF k

\* A range may shrink to the used slots that are left.
LEMMA RangedShrink ==
    ASSUME NEW h, NEW rank, NEW N \in Nat, Slotted(h, rank, N), NEW F, NEW L,
           Ranged(h, rank, F, L), NEW g, ValidSlots(g) \subseteq ValidSlots(h),
           NEW F2 \in Nat, NEW L2 \in Nat, F <= F2, F2 <= L2, L2 <= L,
           g.first = F2 % HistorySize, g.last = (L2 + 1) % HistorySize,
           rank[F2 % HistorySize] = F2, IsValid(g, L2 % HistorySize),
           \A k \in ValidSlots(g) : F2 <= rank[k] /\ rank[k] <= L2
    PROVE  Ranged(g, rank, F2, L2)
<1>1. F \in Nat \ {0} /\ L \in Nat /\ L - F < HistorySize /\ HistorySize \in Nat
  BY RangeTypes
<1>2. F2 \in Nat \ {0} /\ L2 - F2 < HistorySize /\ L2 \in F .. L /\ F2 .. L2 \subseteq F .. L
  BY <1>1
<1>3. L2 % HistorySize \in ValidSlots(g)
  BY SlotFacts DEF ValidSlots
<1>4. IsValid(h, L2 % HistorySize)
  BY <1>3 DEF ValidSlots
<1>5. rank[L2 % HistorySize] = L2
  BY <1>2, <1>4, ValidRank
<1>6. \A p \in F2 .. L2 : rank[p % HistorySize] <= p
  BY <1>2 DEF Ranged
<1> QED BY <1>2, <1>5, <1>6 DEF Ranged

\* The history after slot i was freed, with the bounds f and l.
Freed(h, i, f, l) ==
    [el |-> [h.el EXCEPT ![i] = [seq |-> h.el[i].seq, acks |-> -1]],
     first |-> f, last |-> l,
     active |-> IF IsValid(h, i) THEN h.active - 1 ELSE h.active]

LEMMA FreedFacts ==
    ASSUME NEW h, NEW rank, NEW N \in Nat, Slotted(h, rank, N), NEW i \in Slots,
           NEW f \in Slots, NEW l \in Slots
    PROVE  /\ Slotted(Freed(h, i, f, l), rank, N)
           /\ ValidSlots(Freed(h, i, f, l)) = ValidSlots(h) \ {i}
           /\ Freed(h, i, f, l).first = f /\ Freed(h, i, f, l).last = l
<1>1. PICK g : g = Freed(h, i, f, l)
  OBVIOUS
<1>2. Slotted(g, rank, N) /\ ValidSlots(g) = ValidSlots(h) \ {i}
  BY <1>1, FreeFacts DEF Freed
<1>3. g.first = f /\ g.last = l
  BY <1>1 DEF Freed
<1> QED BY <1>1, <1>2, <1>3

\* The four ways of remove.
LEMMA RemoveCases ==
    ASSUME NEW h, NEW rank, NEW N \in Nat, Slotted(h, rank, N), NEW i \in Slots
    PROVE  LET g == Freed(h, i, h.first, h.last)
               f == NearestValid(g, i, 1)
               l == AddSlot(NearestValid(g, i, -1))
           IN  Remove(h, i) = IF g.active = 0
                              THEN [h |-> Freed(h, i, h.last, h.last), next |-> h.last]
                              ELSE IF h.first = i
                              THEN [h |-> Freed(h, i, f, h.last), next |-> f]
                              ELSE IF LastIndex(g) = i
                              THEN [h |-> Freed(h, i, h.first, l), next |-> l]
                              ELSE [h |-> g, next |-> AddSlot(i)]
<1>1. h \in Shape
  BY DEF Slotted
<1>2. [h EXCEPT !.active = IF IsValid(h, i) THEN @ - 1 ELSE @, !.el[i].acks = -1]
      = Freed(h, i, h.first, h.last)
  <2>1. [h.el[i] EXCEPT !.acks = -1] = [seq |-> h.el[i].seq, acks |-> -1]
    BY <1>1, ShapeFacts
  <2>2. PICK e, a : /\ e = [h.el EXCEPT ![i] = [h.el[i] EXCEPT !.acks = -1]]
                    /\ a = IF IsValid(h, i) THEN h.active - 1 ELSE h.active
    OBVIOUS
  <2>3. [h EXCEPT !.active = IF IsValid(h, i) THEN @ - 1 ELSE @, !.el[i].acks = -1]
        = [h EXCEPT !.active = a, !.el = e]
    BY <1>1, <2>2 DEF Shape
  <2>4. [h EXCEPT !.active = a, !.el = e]
        = [el |-> e, first |-> h.first, last |-> h.last, active |-> a]
    BY <1>1, ReplaceActive
  <2> QED BY <2>1, <2>2, <2>3, <2>4 DEF Freed
<1>3. \A x : /\ [Freed(h, i, h.first, h.last) EXCEPT !.first = x] = Freed(h, i, x, h.last)
             /\ [Freed(h, i, h.first, h.last) EXCEPT !.last = x] = Freed(h, i, h.first, x)
  BY DEF Freed
<1>4. /\ Freed(h, i, h.first, h.last).first = h.first
      /\ Freed(h, i, h.first, h.last).last = h.last
  BY DEF Freed
<1>5. PICK g : g = Freed(h, i, h.first, h.last)
  OBVIOUS
<1>6. Remove(h, i) = IF g.active = 0
                     THEN [h |-> [g EXCEPT !.first = g.last], next |-> g.last]
                     ELSE IF g.first = i
                     THEN [h |-> [g EXCEPT !.first = NearestValid(g, i, 1)],
                           next |-> NearestValid(g, i, 1)]
                     ELSE IF LastIndex(g) = i
                     THEN [h |-> [g EXCEPT !.last = AddSlot(NearestValid(g, i, -1))],
                           next |-> AddSlot(NearestValid(g, i, -1))]
                     ELSE [h |-> g, next |-> AddSlot(i)]
  BY <1>2, <1>5 DEF Remove
<1>7. g.first = h.first /\ g.last = h.last
      /\ \A x : /\ [g EXCEPT !.first = x] = Freed(h, i, x, h.last)
               /\ [g EXCEPT !.last = x] = Freed(h, i, h.first, x)
  BY <1>3, <1>4, <1>5
<1> QED BY <1>5, <1>6, <1>7

\* remove keeps the history sound: a bound that was at the freed slot moves to
\* the nearest used one.
LEMMA RemoveSound ==
    ASSUME NEW h, NEW rank, NEW N \in Nat, Sound(h, rank, N), NEW i \in ValidSlots(h)
    PROVE  /\ Sound(Remove(h, i).h, rank, N)
           /\ ValidSlots(Remove(h, i).h) \subseteq ValidSlots(h)
           /\ Remove(h, i).next \in Slots
<1>1. Slotted(h, rank, N) /\ i \in Slots /\ h \in Shape
  BY DEF Sound, Slotted, ValidSlots
<1>2. h.first \in Slots /\ h.last \in Slots
  BY <1>1, ShapeFacts
<1>3. \A f, l \in Slots : /\ Slotted(Freed(h, i, f, l), rank, N)
                          /\ ValidSlots(Freed(h, i, f, l)) = ValidSlots(h) \ {i}
                          /\ Freed(h, i, f, l).first = f /\ Freed(h, i, f, l).last = l
  BY <1>1, FreedFacts
<1>4. \A a \in Int : a % HistorySize \in Slots
  BY SlotFacts
<1>5. PICK g : g = Freed(h, i, h.first, h.last)
  OBVIOUS
<1>6. /\ Slotted(g, rank, N) /\ ValidSlots(g) = ValidSlots(h) \ {i}
      /\ g.first = h.first /\ g.last = h.last
  BY <1>2, <1>3, <1>5
<1>7. PICK f, l : f = NearestValid(g, i, 1) /\ l = AddSlot(NearestValid(g, i, -1))
  OBVIOUS
<1>8. Remove(h, i) = IF g.active = 0
                     THEN [h |-> Freed(h, i, h.last, h.last), next |-> h.last]
                     ELSE IF h.first = i
                     THEN [h |-> Freed(h, i, f, h.last), next |-> f]
                     ELSE IF LastIndex(g) = i
                     THEN [h |-> Freed(h, i, h.first, l), next |-> l]
                     ELSE [h |-> g, next |-> AddSlot(i)]
  BY <1>1, <1>5, <1>7, RemoveCases
<1>9. CASE g.active = 0
  <2>1. PICK x : x = Freed(h, i, h.last, h.last)
    OBVIOUS
  <2>2. Slotted(x, rank, N) /\ ValidSlots(x) = ValidSlots(h) \ {i}
    BY <1>2, <1>3, <2>1
  <2>3. x.active = 0
    BY <1>6, <1>9, <2>2, ActiveFacts
  <2>4. Sound(x, rank, N)
    BY <2>2, <2>3 DEF Sound
  <2>5. Remove(h, i).h = x /\ Remove(h, i).next = h.last
    BY <1>8, <1>9, <2>1
  <2> QED BY <1>2, <2>2, <2>4, <2>5
<1>10. CASE g.active # 0
  <2>1. PICK j \in ValidSlots(g) : TRUE
    BY <1>6, <1>10, ActiveFacts
  <2>2. h.active # 0
    BY <1>1, <1>6, <2>1, ActiveFacts
  <2>3. PICK F, L \in Nat : Ranged(h, rank, F, L) /\ N - HistorySize < F /\ L <= N
    BY <2>2 DEF Sound
  <2>4. /\ F \in Nat \ {0} /\ L \in Nat /\ F <= L /\ L - F < HistorySize
        /\ HistorySize \in Nat \ {0}
        /\ \A k \in ValidSlots(h) : /\ k \in Slots /\ rank[k] \in Int
                                    /\ rank[k] % HistorySize = k
                                    /\ F <= rank[k] /\ rank[k] <= L
    BY <1>1, <2>3, RangeTypes
  <2>5. \A k \in ValidSlots(g) : /\ k \in ValidSlots(h) /\ k # i /\ IsValid(g, k)
    BY <1>6 DEF ValidSlots
  <2>6. h.first = F % HistorySize /\ LastIndex(g) = L % HistorySize
        /\ rank[F % HistorySize] = F /\ rank[L % HistorySize] = L
        /\ h.last = (L + 1) % HistorySize /\ IsValid(h, L % HistorySize)
    <3>1. h.first = F % HistorySize /\ h.last = (L + 1) % HistorySize
          /\ rank[F % HistorySize] = F /\ rank[L % HistorySize] = L
          /\ IsValid(h, L % HistorySize)
      BY <2>3 DEF Ranged
    <3>2. g.last = (L + 1) % HistorySize /\ L \in Int
      BY <1>6, <2>4, <3>1
    <3>3. LastIndex(g) = L % HistorySize
      BY <3>2, LastSlot
    <3> QED BY <3>1, <3>3
  <2>a. L % HistorySize \in ValidSlots(h)
    <3>1. L \in Int
      BY <2>4
    <3>2. L % HistorySize \in Slots
      BY <1>4, <3>1
    <3> QED BY <2>6, <3>2 DEF ValidSlots
  <2>7. PICK q : q = rank[j]
    OBVIOUS
  <2>8. q \in Int /\ F <= q /\ q <= L /\ q % HistorySize = j /\ j # i
    BY <2>1, <2>4, <2>5, <2>7
  <2>9. CASE h.first = i
    <3>1. q # F
      BY <2>6, <2>8, <2>9
    <3>2. PICK d : d = q - F
      OBVIOUS
    <3>3. d \in 0 .. HistorySize - 1 /\ F + 1 * d = q
      BY <2>4, <2>8, <3>2
    <3>4. IsValid(g, At(F, 1, d)) /\ 1 \in {1, -1} /\ F \in Int
      BY <2>1, <2>4, <2>5, <2>8, <3>3 DEF At
    <3>5. PICK m \in 0 .. d : /\ NearestValid(g, F % HistorySize, 1) = At(F, 1, m)
                              /\ IsValid(g, At(F, 1, m))
                              /\ \A t \in 0 .. m - 1 : ~IsValid(g, At(F, 1, t))
      BY <3>3, <3>4, NearestFacts
    <3>6. PICK F2 : F2 = F + m
      OBVIOUS
    <3>7. F2 \in Nat /\ F <= F2 /\ F2 <= q /\ F2 \in F .. L /\ F2 <= L /\ F + 1 * m = F2
      BY <2>4, <2>8, <3>2, <3>6
    <3>8. f = F2 % HistorySize /\ IsValid(g, F2 % HistorySize) /\ f \in Slots
      BY <1>4, <1>7, <2>6, <2>9, <3>5, <3>7 DEF At
    <3>9. PICK x : x = Freed(h, i, f, h.last)
      OBVIOUS
    <3>10. /\ Slotted(x, rank, N) /\ ValidSlots(x) = ValidSlots(g) /\ x.first = f
           /\ x.last = h.last
      <4>1. /\ Slotted(x, rank, N) /\ ValidSlots(x) = ValidSlots(h) \ {i} /\ x.first = f
            /\ x.last = h.last
        BY <1>2, <1>3, <3>8, <3>9
      <4> QED BY <1>6, <4>1
    <3>11. IsValid(h, F2 % HistorySize)
      BY <1>6, <3>8 DEF ValidSlots
    <3>12. rank[F2 % HistorySize] = F2
      BY <1>1, <2>3, <3>7, <3>11, ValidRank
    <3>13. L % HistorySize \in ValidSlots(x)
      <4>1. L # F
        BY <2>4, <2>8, <3>1
      <4>2. L % HistorySize # F % HistorySize
        BY <2>6, <4>1
      <4> QED BY <1>6, <2>6, <2>9, <2>a, <3>10, <4>2
    <3>14. IsValid(x, L % HistorySize)
      BY <3>13 DEF ValidSlots
    <3>15. ASSUME NEW k \in ValidSlots(x) PROVE F2 <= rank[k] /\ rank[k] <= L
      <4>1. k \in ValidSlots(g) /\ k \in ValidSlots(h) /\ IsValid(g, k)
        BY <2>5, <3>10
      <4>2. PICK p : p = rank[k]
        OBVIOUS
      <4>3. p \in Int /\ p % HistorySize = k /\ F <= p /\ p <= L
        BY <2>4, <4>1, <4>2
      <4>4. ASSUME p < F2 PROVE FALSE
        <5>1. p - F \in 0 .. m - 1 /\ F + 1 * (p - F) = p
          BY <2>4, <3>6, <4>3, <4>4
        <5>2. ~IsValid(g, At(F, 1, p - F))
          BY <3>5, <5>1
        <5> QED BY <4>1, <4>3, <5>1, <5>2 DEF At
      <4> QED BY <3>7, <4>2, <4>3, <4>4
    <3>16. ValidSlots(x) \subseteq ValidSlots(h)
      BY <2>5, <3>10
    <3>17. Ranged(x, rank, F2, L)
      <4>1. L <= L /\ L \in Nat /\ x.first = F2 % HistorySize /\ x.last = (L + 1) % HistorySize
        BY <2>4, <2>6, <3>8, <3>10
      <4> QED BY <1>1, <2>3, <3>7, <3>12, <3>14, <3>15, <3>16, <4>1, RangedShrink
    <3>18. N - HistorySize < F2
      BY <2>3, <2>4, <3>7
    <3>19. Sound(x, rank, N)
      BY <2>3, <3>7, <3>10, <3>17, <3>18 DEF Sound
    <3>20. Remove(h, i).h = x /\ Remove(h, i).next = f
      BY <1>8, <1>10, <2>9, <3>9
    <3> QED BY <3>8, <3>16, <3>19, <3>20
  <2>10. CASE h.first # i /\ LastIndex(g) = i
    <3>1. q # L
      BY <2>6, <2>8, <2>10
    <3>2. PICK d : d = L - q
      OBVIOUS
    <3>3. d \in 0 .. HistorySize - 1 /\ L + (-1) * d = q
      BY <2>4, <2>8, <3>2
    <3>4. IsValid(g, At(L, -1, d)) /\ -1 \in {1, -1} /\ L \in Int
      BY <2>1, <2>4, <2>5, <2>8, <3>3 DEF At
    <3>5. PICK m \in 0 .. d : /\ NearestValid(g, L % HistorySize, -1) = At(L, -1, m)
                              /\ IsValid(g, At(L, -1, m))
                              /\ \A t \in 0 .. m - 1 : ~IsValid(g, At(L, -1, t))
      BY <3>3, <3>4, NearestFacts
    <3>6. PICK L2 : L2 = L - m
      OBVIOUS
    <3>7. L2 \in Nat /\ q <= L2 /\ F <= L2 /\ L2 <= L /\ L + (-1) * m = L2
      BY <2>4, <2>8, <3>2, <3>6
    <3>8. l = (L2 + 1) % HistorySize /\ IsValid(g, L2 % HistorySize) /\ l \in Slots
      <4>1. NearestValid(g, i, -1) = L2 % HistorySize /\ IsValid(g, L2 % HistorySize)
        BY <2>6, <2>10, <3>5, <3>7 DEF At
      <4>2. AddSlot(L2 % HistorySize) = (L2 + 1) % HistorySize
        BY <3>7, NextSlot
      <4> QED BY <1>4, <1>7, <3>7, <4>1, <4>2
    <3>9. PICK x : x = Freed(h, i, h.first, l)
      OBVIOUS
    <3>10. /\ Slotted(x, rank, N) /\ ValidSlots(x) = ValidSlots(g) /\ x.first = h.first
           /\ x.last = l
      <4>1. /\ Slotted(x, rank, N) /\ ValidSlots(x) = ValidSlots(h) \ {i} /\ x.first = h.first
            /\ x.last = l
        BY <1>2, <1>3, <3>8, <3>9
      <4> QED BY <1>6, <4>1
    <3>11. IsValid(x, L2 % HistorySize)
      <4>1. L2 % HistorySize \in ValidSlots(g)
        BY <1>4, <3>7, <3>8 DEF ValidSlots
      <4> QED BY <3>10, <4>1 DEF ValidSlots
    <3>12. ASSUME NEW k \in ValidSlots(x) PROVE F <= rank[k] /\ rank[k] <= L2
      <4>1. k \in ValidSlots(g) /\ k \in ValidSlots(h) /\ IsValid(g, k)
        BY <2>5, <3>10
      <4>2. PICK p : p = rank[k]
        OBVIOUS
      <4>3. p \in Int /\ p % HistorySize = k /\ F <= p /\ p <= L
        BY <2>4, <4>1, <4>2
      <4>4. ASSUME p > L2 PROVE FALSE
        <5>1. L - p \in 0 .. m - 1 /\ L + (-1) * (L - p) = p
          BY <2>4, <3>6, <4>3, <4>4
        <5>2. ~IsValid(g, At(L, -1, L - p))
          BY <3>5, <5>1
        <5> QED BY <4>1, <4>3, <5>1, <5>2 DEF At
      <4> QED BY <3>7, <4>2, <4>3, <4>4
    <3>13. ValidSlots(x) \subseteq ValidSlots(h)
      BY <2>5, <3>10
    <3>14. F <= F /\ F \in Nat
      BY <2>4
    <3>15. Ranged(x, rank, F, L2)
      BY <1>1, <2>3, <2>6, <3>7, <3>8, <3>10, <3>11, <3>12, <3>13, <3>14, RangedShrink
    <3>16. L2 <= N
      BY <2>3, <2>4, <3>7
    <3>17. Sound(x, rank, N)
      BY <2>3, <3>7, <3>10, <3>15, <3>16 DEF Sound
    <3>18. Remove(h, i).h = x /\ Remove(h, i).next = l
      BY <1>8, <1>10, <2>10, <3>9
    <3> QED BY <3>8, <3>13, <3>17, <3>18
  <2>11. CASE h.first # i /\ LastIndex(g) # i
    <3>1. L % HistorySize \in ValidSlots(g)
      BY <1>6, <2>6, <2>11, <2>a
    <3>2. IsValid(g, L % HistorySize)
      BY <3>1 DEF ValidSlots
    <3>3. F <= F /\ L <= L /\ F \in Nat /\ ValidSlots(g) \subseteq ValidSlots(h)
          /\ \A k \in ValidSlots(g) : F <= rank[k] /\ rank[k] <= L
      BY <1>6, <2>4
    <3>4. Ranged(g, rank, F, L)
      <4>1. g.first = F % HistorySize /\ g.last = (L + 1) % HistorySize
        BY <1>6, <2>6
      <4> QED BY <1>1, <2>3, <2>4, <2>6, <3>2, <3>3, <4>1, RangedShrink
    <3>5. Sound(g, rank, N)
      BY <1>6, <2>3, <3>4 DEF Sound
    <3>6. Remove(h, i).h = g /\ Remove(h, i).next = AddSlot(i)
      BY <1>8, <1>10, <2>11
    <3>7. AddSlot(i) \in Slots
      BY <1>1, <1>4 DEF AddSlot, Slots
    <3> QED BY <3>3, <3>5, <3>6, <3>7
  <2> QED BY <2>9, <2>10, <2>11
<1> QED BY <1>9, <1>10

\* Counting an ACK of a used slot leaves the range alone.
LEMMA CountSound ==
    ASSUME NEW h, NEW rank, NEW N \in Nat, Sound(h, rank, N), NEW i \in ValidSlots(h),
           NEW c \in 0 .. MaxNumAcks - 1
    PROVE  /\ Sound([h EXCEPT !.el[i].acks = c], rank, N)
           /\ ValidSlots([h EXCEPT !.el[i].acks = c]) = ValidSlots(h)
<1>1. /\ Slotted(h, rank, N) /\ h \in Shape /\ rank \in Ranks /\ i \in Slots /\ IsValid(h, i)
      /\ MaxNumAcks \in Nat \ {0}
  BY ConstantFacts DEF Sound, Slotted, ValidSlots
<1>2. PICK e : e = [h.el EXCEPT ![i] = [h.el[i] EXCEPT !.acks = c]]
  OBVIOUS
<1>3. PICK g : g = [h EXCEPT !.el[i].acks = c]
  OBVIOUS
<1>4. g = [h EXCEPT !.el = e]
  BY <1>1, <1>2, <1>3 DEF Shape
<1>5. g = [el |-> e, first |-> h.first, last |-> h.last, active |-> h.active]
  BY <1>1, <1>4, ReplaceSlots
<1>6. [h.el[i] EXCEPT !.acks = c] = [seq |-> h.el[i].seq, acks |-> c]
  BY <1>1, ShapeFacts
<1>7. /\ e \in [Slots -> [seq : SeqNums, acks : -1 .. MaxNumAcks - 1]]
      /\ \A j \in Slots : e[j].seq = h.el[j].seq /\ e[j].acks = IF j = i THEN c ELSE h.el[j].acks
  <2>1. c \in -1 .. MaxNumAcks - 1 /\ h.el[i].seq \in SeqNums
    BY <1>1, ShapeFacts
  <2>2. e = [h.el EXCEPT ![i] = [seq |-> h.el[i].seq, acks |-> c]]
    BY <1>2, <1>6
  <2> QED BY <1>1, <2>1, <2>2, ShapeFacts
<1>8. g.el = e /\ g.first = h.first /\ g.last = h.last /\ g.active = h.active
  BY <1>5
<1>9. g \in Shape
  BY <1>1, <1>5, <1>7, ShapeFacts DEF Shape
<1>10. \A j \in Slots : IsValid(g, j) <=> IsValid(h, j)
  <2>1. c # -1
    BY <1>1
  <2> QED BY <1>1, <1>7, <1>8, <2>1 DEF IsValid
<1>11. ValidSlots(g) = ValidSlots(h)
  BY <1>10 DEF ValidSlots
<1>12. Slotted(g, rank, N)
  BY <1>1, <1>7, <1>8, <1>9, <1>10, <1>11 DEF Slotted
<1>13. ASSUME h.active # 0
       PROVE  \E F, L \in Nat : Ranged(g, rank, F, L) /\ N - HistorySize < F /\ L <= N
  <2>1. PICK F, L \in Nat : Ranged(h, rank, F, L) /\ N - HistorySize < F /\ L <= N
    BY <1>13 DEF Sound
  <2>2. IsValid(g, L % HistorySize)
    <3>1. L % HistorySize \in Slots
      BY SlotFacts
    <3> QED BY <1>10, <2>1, <3>1 DEF Ranged
  <2>3. Ranged(g, rank, F, L)
    BY <1>8, <1>11, <2>1, <2>2 DEF Ranged
  <2> QED BY <2>1, <2>3
<1>14. Sound(g, rank, N)
  BY <1>8, <1>12, <1>13 DEF Sound
<1> QED BY <1>3, <1>11, <1>14

LEMMA GetForAckSound ==
    ASSUME NEW h, NEW rank, NEW N \in Nat, Sound(h, rank, N), NEW i \in ValidSlots(h)
    PROVE  /\ Sound(GetForAck(h, i).h, rank, N)
           /\ ValidSlots(GetForAck(h, i).h) \subseteq ValidSlots(h)
           /\ GetForAck(h, i).next \in Slots
<1>1. h \in Shape /\ i \in Slots /\ MaxNumAcks \in Nat \ {0} /\ h.el[i].acks # -1
  BY ConstantFacts DEF Sound, Slotted, ValidSlots, IsValid
<1>2. h.el[i].acks \in 0 .. MaxNumAcks - 1
  BY <1>1, ShapeFacts
<1>3. CASE h.el[i].acks + 1 >= MaxNumAcks
  <2>1. PICK g, c : g = [h EXCEPT !.el[i].acks = MaxNumAcks - 1] /\ c = MaxNumAcks - 1
    OBVIOUS
  <2>2. c \in 0 .. MaxNumAcks - 1 /\ g = [h EXCEPT !.el[i].acks = c]
    BY <1>1, <2>1
  <2>3. Sound(g, rank, N) /\ ValidSlots(g) = ValidSlots(h)
    BY <2>2, CountSound
  <2>4. GetForAck(h, i) = Remove(g, i)
    BY <1>3, <2>1 DEF GetForAck
  <2> QED BY <2>3, <2>4, RemoveSound
<1>4. CASE ~(h.el[i].acks + 1 >= MaxNumAcks)
  <2>1. PICK c : c = h.el[i].acks + 1
    OBVIOUS
  <2>2. c \in 0 .. MaxNumAcks - 1
    BY <1>1, <1>2, <1>4, <2>1
  <2>3. PICK g : g = [h EXCEPT !.el[i].acks = c]
    OBVIOUS
  <2>4. Sound(g, rank, N) /\ ValidSlots(g) = ValidSlots(h)
    BY <2>2, <2>3, CountSound
  <2>5. [h EXCEPT !.el[i].acks = @ + 1] = g
    BY <1>1, <2>1, <2>3 DEF Shape
  <2>6. GetForAck(h, i) = [h |-> g, next |-> AddSlot(i)]
    BY <1>4, <2>5 DEF GetForAck
  <2>7. AddSlot(i) \in Slots
    <3>1. i + 1 \in Int
      BY <1>1 DEF Slots
    <3> QED BY <3>1, SlotFacts DEF AddSlot
  <2> QED BY <2>4, <2>6, <2>7
<1> QED BY <1>3, <1>4

-----------------------------------------------------------------------------
(* write_ack_history.                                                      *)

\* The distances an ACK frame may note: those of the used slots.
Distances(h, lastToAck) == {SeqDist(h.el[j].seq, lastToAck) : j \in ValidSlots(h)} \ {0}

\* Where the loop can be: the history is sound, no slot came into use, and
\* only used slots were noted.
Walking(h, rank, N, lastToAck) ==
    {w \in [h : Shape, i : Slots, bits : SUBSET Distances(h, lastToAck)] :
        Sound(w.h, rank, N) /\ ValidSlots(w.h) \subseteq ValidSlots(h)}

LEMMA AckSlotSound ==
    ASSUME NEW h, NEW rank, NEW N \in Nat, Sound(h, rank, N), NEW lastToAck,
           NEW w \in Walking(h, rank, N, lastToAck)
    PROVE  AckSlot(w, lastToAck) \in Walking(h, rank, N, lastToAck)
<1>1. /\ w \in [h : Shape, i : Slots, bits : SUBSET Distances(h, lastToAck)]
      /\ Sound(w.h, rank, N) /\ ValidSlots(w.h) \subseteq ValidSlots(h)
  BY DEF Walking
<1>2. \A a \in Int : a % HistorySize \in Slots
  BY SlotFacts
<1>3. CASE w.i = LastIndex(w.h) \/ w.i = w.h.last
  BY <1>3 DEF AckSlot
<1>4. CASE ~(w.i = LastIndex(w.h) \/ w.i = w.h.last) /\ ~IsValid(w.h, w.i)
  <2>1. AckSlot(w, lastToAck) = [w EXCEPT !.i = AddSlot(w.i)]
    BY <1>1, <1>4 DEF AckSlot
  <2>2. AddSlot(w.i) \in Slots
    BY <1>1, <1>2 DEF AddSlot, Slots
  <2>3. PICK x : x = [w EXCEPT !.i = AddSlot(w.i)]
    OBVIOUS
  <2>4. x \in [h : Shape, i : Slots, bits : SUBSET Distances(h, lastToAck)] /\ x.h = w.h
    BY <1>1, <2>2, <2>3
  <2> QED BY <1>1, <2>1, <2>3, <2>4 DEF Walking
<1>5. CASE ~(w.i = LastIndex(w.h) \/ w.i = w.h.last) /\ IsValid(w.h, w.i)
  <2>1. PICK r : r = GetForAck(w.h, w.i)
    OBVIOUS
  <2>2. w.i \in ValidSlots(w.h) /\ w.i \in Slots
    BY <1>1, <1>5 DEF ValidSlots
  <2>3. Sound(r.h, rank, N) /\ ValidSlots(r.h) \subseteq ValidSlots(w.h) /\ r.next \in Slots
    BY <1>1, <2>1, <2>2, GetForAckSound
  <2>4. PICK d : d = SeqDist(w.h.el[w.i].seq, lastToAck)
    OBVIOUS
  <2>5. d \in {SeqDist(h.el[j].seq, lastToAck) : j \in ValidSlots(h)}
    <3>1. w.i \in ValidSlots(h)
      BY <1>1, <2>2
    <3>2. w.h.el[w.i].seq = rank[w.i] % SeqSpan /\ h.el[w.i].seq = rank[w.i] % SeqSpan
      BY <1>1, <2>2 DEF Sound, Slotted
    <3> QED BY <2>4, <3>1, <3>2
  <2>6. PICK b : b = w.bits \cup ({d} \ {0})
    OBVIOUS
  <2>7. b \in SUBSET Distances(h, lastToAck)
    BY <1>1, <2>5, <2>6 DEF Distances
  <2>8. AckSlot(w, lastToAck) = [h |-> r.h, i |-> r.next, bits |-> b]
    BY <1>5, <2>1, <2>4, <2>6 DEF AckSlot
  <2>9. r.h \in Shape
    BY <2>3 DEF Sound, Slotted
  <2>10. ValidSlots(r.h) \subseteq ValidSlots(h)
    BY <1>1, <2>3
  <2>11. PICK x : x = [h |-> r.h, i |-> r.next, bits |-> b]
    OBVIOUS
  <2>12. x \in [h : Shape, i : Slots, bits : SUBSET Distances(h, lastToAck)] /\ x.h = r.h
    BY <2>3, <2>7, <2>9, <2>11
  <2> QED BY <2>3, <2>8, <2>10, <2>11, <2>12 DEF Walking
<1> QED BY <1>3, <1>4, <1>5

LEMMA AckWalkSound ==
    ASSUME NEW h, NEW rank, NEW N \in Nat, Sound(h, rank, N), NEW lastToAck,
           NEW g, Sound(g, rank, N), ValidSlots(g) \subseteq ValidSlots(h), NEW i \in Slots
    PROVE  AckWalk(g, i, lastToAck) \in Walking(h, rank, N, lastToAck)
<1> DEFINE T == Walking(h, rank, N, lastToAck)
           G == [t \in T |-> AckSlot(t, lastToAck)]
           a == [h |-> g, i |-> i, bits |-> {}]
<1>1. HistorySize \in Nat
  BY ConstantFacts
<1>2. \A t \in T : AckSlot(t, lastToAck) \in T
  BY AckSlotSound
<1>3. a \in T
  <2>1. g \in Shape
    BY DEF Sound, Slotted
  <2>2. a \in [h : Shape, i : Slots, bits : SUBSET Distances(h, lastToAck)] /\ a.h = g
    BY <2>1
  <2> QED BY <2>2 DEF Walking
<1> HIDE DEF T, a
<1>4. G \in [T -> T] /\ \A t \in T : G[t] = AckSlot(t, lastToAck)
  BY <1>2
<1> HIDE DEF G
<1>5. PICK x : IsLoop(x, HistorySize, T, G, a)
  BY <1>1, <1>3, <1>4, LoopExists
<1>6. x = [n \in 0 .. HistorySize |-> IF n = 0 THEN a ELSE AckSlot(x[n - 1], lastToAck)]
  <2>1. x \in [0 .. HistorySize -> T] /\ x[0] = a
        /\ \A n \in 1 .. HistorySize : x[n] = G[x[n - 1]]
    BY <1>5 DEF IsLoop
  <2>2. \A n \in 1 .. HistorySize : n - 1 \in 0 .. HistorySize /\ x[n - 1] \in T
    BY <1>1, <2>1
  <2>3. \A n \in 0 .. HistorySize :
            x[n] = IF n = 0 THEN a ELSE AckSlot(x[n - 1], lastToAck)
    BY <1>1, <1>4, <2>1, <2>2
  <2> QED BY <2>1, <2>3
<1> DEFINE W == CHOOSE w : w = [n \in 0 .. HistorySize |->
                                  IF n = 0 THEN a ELSE AckSlot(w[n - 1], lastToAck)]
<1>7. W = [n \in 0 .. HistorySize |-> IF n = 0 THEN a ELSE AckSlot(W[n - 1], lastToAck)]
  BY ZenonT(30), <1>6
<1>8. AckWalk(g, i, lastToAck) = W[HistorySize]
  BY DEF AckWalk, a
<1> HIDE DEF W
<1>9. W[0] = a /\ \A n \in 0 .. HistorySize - 1 : W[n + 1] = AckSlot(W[n], lastToAck)
  <2>1. \A n \in 0 .. HistorySize :
            W[n] = IF n = 0 THEN a ELSE AckSlot(W[n - 1], lastToAck)
    BY <1>7
  <2>2. \A n \in 0 .. HistorySize - 1 : n + 1 \in 0 .. HistorySize /\ n + 1 # 0 /\ (n + 1) - 1 = n
    BY <1>1
  <2> QED BY <1>1, <2>1, <2>2
<1> DEFINE Good == {n \in Nat : W[n] \in T}
<1>10. 0 \in Good
  BY <1>3, <1>9
<1>11. \A n \in 0 .. HistorySize - 1 : n \in Good => n + 1 \in Good
  BY <1>1, <1>2, <1>9
<1> HIDE DEF Good
<1>12. HistorySize \in Good
  <2>1. HistorySize \in 0 .. HistorySize
    BY <1>1
  <2> QED BY <1>1, <1>10, <1>11, <2>1, InductionTo
<1> QED BY <1>8, <1>12 DEF Good, T

-----------------------------------------------------------------------------
(* insert.                                                                 *)

\* k slots of the range were passed: those that are left hold F + k or newer.
Passed(h, rank, N, F, L, newFirst, g, k) ==
    /\ k \in 0 .. L - F + 1
    /\ Slotted(g, rank, N)
    /\ g.first = (F + k) % HistorySize /\ g.last = h.last
    /\ ValidSlots(g) = {i \in ValidSlots(h) : F + k <= rank[i]}
    /\ k = 0 \/ F < newFirst

\* The loop has come to an end.
Halted(rank, F, newFirst, g, k) ==
    g.active = 0 \/ newFirst <= rank[(F + k) % HistorySize]

\* One turn of the eviction loop passes one slot or has come to an end.
LEMMA EvictFirstFacts ==
    ASSUME NEW h, NEW rank, NEW N \in Nat, Slotted(h, rank, N), NEW F, NEW L,
           Ranged(h, rank, F, L), NEW r \in Nat, L < r,
           \A j \in Slots : r - rank[j] < Half,
           NEW g, NEW k, Passed(h, rank, N, F, L, r - (HistorySize - 1), g, k)
    PROVE  LET newFirst == r - (HistorySize - 1)
               next == EvictFirst(g, newFirst % SeqSpan)
           IN  \/ Halted(rank, F, newFirst, g, k) /\ next = g
               \/ /\ ~Halted(rank, F, newFirst, g, k)
                  /\ Passed(h, rank, N, F, L, newFirst, next, k + 1)
<1>1. /\ F \in Nat \ {0} /\ L \in Nat /\ F <= L /\ L - F < HistorySize
      /\ HistorySize \in Nat \ {0} /\ HistorySize <= Half /\ Half \in Nat
      /\ \A j \in ValidSlots(h) : /\ j \in Slots /\ rank[j] \in Int /\ rank[j] % HistorySize = j
                                  /\ F <= rank[j] /\ rank[j] <= L
  BY RangeTypes, ConstantFacts
<1>2. PICK newFirst, p : newFirst = r - (HistorySize - 1) /\ p = F + k
  OBVIOUS
<1>3. /\ k \in 0 .. L - F + 1 /\ Slotted(g, rank, N) /\ g.first = p % HistorySize
      /\ g.last = h.last /\ ValidSlots(g) = {i \in ValidSlots(h) : p <= rank[i]}
      /\ k = 0 \/ F < newFirst
  BY <1>2 DEF Passed
<1>4. k \in Nat /\ p \in Nat /\ newFirst \in Int /\ F <= p
  BY <1>1, <1>2, <1>3
<1>5. CASE g.active = 0
  <2>1. EvictFirst(g, newFirst % SeqSpan) = g
    BY <1>5 DEF EvictFirst
  <2> QED BY <1>2, <1>5, <2>1 DEF Halted
<1>6. CASE g.active # 0
  <2>1. PICK j \in ValidSlots(g) : TRUE
    BY <1>3, <1>6, ActiveFacts
  <2>2. p <= L /\ p \in F .. L
    BY <1>1, <1>3, <1>4, <2>1
  <2>3. PICK i, q : i = p % HistorySize /\ q = rank[p % HistorySize]
    OBVIOUS
  <2>4. i \in Slots
    BY <1>4, <2>3, SlotFacts
  <2>5. q \in Int /\ q <= p /\ g.el[i].seq = q % SeqSpan /\ r - q < Half
    BY <1>3, <2>2, <2>3, <2>4 DEF Ranged, Slotted, Ranks
  <2>6. newFirst - q < Half /\ q - newFirst <= Half
    BY <1>1, <1>2, <1>4, <2>2, <2>5
  <2>7. SeqLess(q % SeqSpan, newFirst % SeqSpan) <=> q < newFirst
    BY <1>4, <2>5, <2>6, SeqLessFacts
  <2>8. CASE ~(q < newFirst)
    <3>1. EvictFirst(g, newFirst % SeqSpan) = g
      BY <1>3, <2>3, <2>5, <2>7, <2>8 DEF EvictFirst
    <3>2. newFirst <= q
      BY <1>4, <2>5, <2>8
    <3>3. Halted(rank, F, newFirst, g, k)
      BY <1>2, <2>3, <3>2 DEF Halted
    <3> QED BY <1>2, <3>1, <3>3
  <2>9. CASE q < newFirst
    <3>1. PICK x, f : x = EvictFirst(g, newFirst % SeqSpan) /\ f = (p + 1) % HistorySize
      OBVIOUS
    <3>2. f = AddSlot(i) /\ f \in Slots /\ g \in Shape /\ g.last \in Slots /\ g.first = i
      <4>1. p \in Int /\ p + 1 \in Int
        BY <1>4
      <4>2. g \in Shape /\ g.first = i
        BY <1>3, <2>3 DEF Slotted
      <4> QED BY <2>3, <3>1, <4>1, <4>2, NextSlot, SlotFacts, ShapeFacts
    <3>3. x = Freed(g, i, f, g.last)
      <4>1. PICK e, a : /\ e = [g.el EXCEPT ![i] = [g.el[i] EXCEPT !.acks = -1]]
                        /\ a = IF IsValid(g, i) THEN g.active - 1 ELSE g.active
        OBVIOUS
      <4>2. x = [g EXCEPT !.active = IF IsValid(g, g.first) THEN @ - 1 ELSE @,
                          !.el[g.first].acks = -1, !.first = AddSlot(@)]
        BY <1>6, <2>5, <2>7, <2>9, <3>1, <3>2 DEF EvictFirst
      <4>3. x = [g EXCEPT !.active = a, !.el = e, !.first = f]
        BY <3>2, <4>1, <4>2 DEF Shape
      <4>4. x = [el |-> e, first |-> f, last |-> g.last, active |-> a]
        <5>1. [g EXCEPT !.active = a, !.el = e, !.first = f]
              = [el |-> e, first |-> f, last |-> g.last, active |-> a]
          BY <3>2, ReplaceFirst
        <5> QED BY <4>3, <5>1
      <4>5. [g.el[i] EXCEPT !.acks = -1] = [seq |-> g.el[i].seq, acks |-> -1]
        BY <2>4, <3>2, ShapeFacts
      <4> QED BY <4>1, <4>4, <4>5 DEF Freed
    <3>4. /\ Slotted(x, rank, N) /\ ValidSlots(x) = ValidSlots(g) \ {i}
          /\ x.first = f /\ x.last = g.last
      <4>1. PICK l : l = g.last
        OBVIOUS
      <4>2. l \in Slots /\ x = Freed(g, i, f, l)
        BY <3>2, <3>3, <4>1
      <4>a. Slotted(g, rank, N) /\ i \in Slots /\ f \in Slots /\ l \in Slots /\ N \in Nat
        BY <1>3, <2>4, <3>2, <4>2
      <4>3. /\ Slotted(Freed(g, i, f, l), rank, N)
            /\ ValidSlots(Freed(g, i, f, l)) = ValidSlots(g) \ {i}
            /\ Freed(g, i, f, l).first = f /\ Freed(g, i, f, l).last = l
        BY ONLY <4>a, FreedFacts
      <4> QED BY <4>1, <4>2, <4>3
    <3>5. ASSUME NEW s \in ValidSlots(h) PROVE (p <= rank[s] /\ s # i) <=> p + 1 <= rank[s]
      <4>1. rank[s] \in Int /\ rank[s] % HistorySize = s /\ F <= rank[s] /\ rank[s] <= L
        BY <1>1
      <4>2. CASE rank[s] = p
        BY <1>4, <2>3, <4>1, <4>2
      <4>3. CASE s = i
        <5>1. IsValid(h, p % HistorySize)
          BY <2>3, <4>3 DEF ValidSlots
        <5>2. rank[s] = p
          BY <2>2, <2>3, <4>3, <5>1, ValidRank
        <5> QED BY <1>4, <4>3, <5>2
      <4>4. CASE rank[s] # p /\ s # i
        BY <1>4, <4>1, <4>4
      <4> QED BY <4>2, <4>3, <4>4
    <3>6. ValidSlots(x) = {s \in ValidSlots(h) : p + 1 <= rank[s]}
      BY <1>3, <3>4, <3>5
    <3>7. F < newFirst
      <4>1. CASE k = 0
        <5>1. p = F
          BY <1>1, <1>2, <4>1
        <5>2. q = F
          BY <2>3, <5>1 DEF Ranged
        <5> QED BY <2>9, <5>2
      <4> QED BY <1>3, <4>1
    <3>8. k + 1 \in 0 .. L - F + 1 /\ F + (k + 1) = p + 1
      BY <1>1, <1>2, <1>3, <1>4, <2>2
    <3>9. Passed(h, rank, N, F, L, newFirst, x, k + 1)
      BY <1>3, <3>1, <3>4, <3>6, <3>7, <3>8 DEF Passed
    <3>10. ~Halted(rank, F, newFirst, g, k)
      BY <1>2, <1>4, <1>6, <2>3, <2>5, <2>9 DEF Halted
    <3> QED BY <1>2, <3>1, <3>9, <3>10
  <2> QED BY <2>8, <2>9
<1> QED BY <1>5, <1>6

\* The eviction loop runs until it has come to an end.
LEMMA EvictFacts ==
    ASSUME NEW h, NEW rank, NEW N \in Nat, Slotted(h, rank, N), NEW F, NEW L,
           Ranged(h, rank, F, L), NEW r \in Nat, L < r,
           \A j \in Slots : r - rank[j] < Half
    PROVE  \E k : /\ Passed(h, rank, N, F, L, r - (HistorySize - 1), Evict(h, r % SeqSpan), k)
                  /\ Halted(rank, F, r - (HistorySize - 1), Evict(h, r % SeqSpan), k)
<1>1. PICK R : R = r - (HistorySize - 1)
  OBVIOUS
<1>2. /\ F \in Nat \ {0} /\ L \in Nat /\ F <= L /\ L - F < HistorySize
      /\ HistorySize \in Nat \ {0} /\ R \in Int
  BY <1>1, RangeTypes
<1>3. ((r % SeqSpan) - (HistorySize - 1)) % SeqSpan = R % SeqSpan
  <2>1. PICK n : n = 0 - (HistorySize - 1)
    OBVIOUS
  <2>2. n \in Int /\ r \in Int /\ r % SeqSpan \in Int /\ r + n = R
    BY <1>1, <1>2, <2>1, ConstantFacts, Division
  <2>3. ((r % SeqSpan) + n) % SeqSpan = (r + n) % SeqSpan
    BY <2>2, ConstantFacts, ResidueStep
  <2>4. (r % SeqSpan) + n = (r % SeqSpan) - (HistorySize - 1)
    BY <1>2, <2>1, <2>2
  <2> QED BY <2>2, <2>3, <2>4
<1>4. PICK s : s = R % SeqSpan
  OBVIOUS
<1> DEFINE T == {g \in Shape : \E k : Passed(h, rank, N, F, L, R, g, k)}
           G == [t \in T |-> EvictFirst(t, s)]
<1>5. ASSUME NEW g, NEW k, Passed(h, rank, N, F, L, R, g, k)
      PROVE  \/ Halted(rank, F, R, g, k) /\ EvictFirst(g, s) = g
             \/ /\ ~Halted(rank, F, R, g, k)
                /\ Passed(h, rank, N, F, L, R, EvictFirst(g, s), k + 1)
  BY <1>1, <1>4, <1>5, EvictFirstFacts
<1>6. \A g, k : Passed(h, rank, N, F, L, R, g, k) => g \in Shape /\ k \in 0 .. L - F + 1
  BY DEF Passed, Slotted
<1>7. Passed(h, rank, N, F, L, R, h, 0)
  <2>1. F + 0 = F /\ 0 \in 0 .. L - F + 1
    BY <1>2
  <2>2. \A i \in ValidSlots(h) : F <= rank[i]
    BY DEF Ranged
  <2>3. h.first = F % HistorySize
    BY DEF Ranged
  <2> QED BY <2>1, <2>2, <2>3 DEF Passed
<1>8. \A t \in T : EvictFirst(t, s) \in T
  <2> SUFFICES ASSUME NEW t \in T PROVE EvictFirst(t, s) \in T
    OBVIOUS
  <2>1. PICK k : Passed(h, rank, N, F, L, R, t, k)
    OBVIOUS
  <2>2. EvictFirst(t, s) = t \/ Passed(h, rank, N, F, L, R, EvictFirst(t, s), k + 1)
    BY <1>5, <2>1
  <2>3. CASE EvictFirst(t, s) = t
    BY <2>3
  <2>4. CASE Passed(h, rank, N, F, L, R, EvictFirst(t, s), k + 1)
    BY <1>6, <2>4
  <2> QED BY <2>2, <2>3, <2>4
<1>9. h \in T
  BY <1>6, <1>7
<1> HIDE DEF T
<1>10. G \in [T -> T] /\ \A t \in T : G[t] = EvictFirst(t, s)
  BY <1>8
<1> HIDE DEF G
<1>11. PICK x : IsLoop(x, HistorySize, T, G, h)
  BY <1>2, <1>9, <1>10, LoopExists
<1>12. x = [n \in 0 .. HistorySize |-> IF n = 0 THEN h ELSE EvictFirst(x[n - 1], s)]
  <2>1. x \in [0 .. HistorySize -> T] /\ x[0] = h
        /\ \A n \in 1 .. HistorySize : x[n] = G[x[n - 1]]
    BY <1>11 DEF IsLoop
  <2>2. \A n \in 1 .. HistorySize : n - 1 \in 0 .. HistorySize /\ x[n - 1] \in T
    BY <1>2, <2>1
  <2>3. \A n \in 0 .. HistorySize : x[n] = IF n = 0 THEN h ELSE EvictFirst(x[n - 1], s)
    BY <1>2, <1>10, <2>1, <2>2
  <2> QED BY <2>1, <2>3
<1> DEFINE W == CHOOSE w : w = [n \in 0 .. HistorySize |->
                                  IF n = 0 THEN h ELSE EvictFirst(w[n - 1], s)]
<1>13. W = [n \in 0 .. HistorySize |-> IF n = 0 THEN h ELSE EvictFirst(W[n - 1], s)]
  BY ZenonT(30), <1>12
<1>14. Evict(h, r % SeqSpan) = W[HistorySize]
  BY <1>3, <1>4 DEF Evict
<1> HIDE DEF W
<1>15. W[0] = h /\ \A n \in 0 .. HistorySize - 1 : W[n + 1] = EvictFirst(W[n], s)
  <2>1. \A n \in 0 .. HistorySize : W[n] = IF n = 0 THEN h ELSE EvictFirst(W[n - 1], s)
    BY <1>13
  <2>2. \A n \in 0 .. HistorySize - 1 : n + 1 \in 0 .. HistorySize /\ n + 1 # 0 /\ (n + 1) - 1 = n
    BY <1>2
  <2> QED BY <1>2, <2>1, <2>2
<1> DEFINE Turned(n, k) == /\ k <= n /\ Passed(h, rank, N, F, L, R, W[n], k)
                           /\ k = n \/ Halted(rank, F, R, W[n], k)
           Good == {n \in Nat : \E k : Turned(n, k)}
<1>16. 0 \in Good
  <2>1. Turned(0, 0)
    BY <1>7, <1>15
  <2> QED BY <2>1
<1>17. ASSUME NEW n \in 0 .. HistorySize - 1, n \in Good PROVE n + 1 \in Good
  <2>1. PICK k : Turned(n, k)
    BY <1>17
  <2>2. n \in Nat /\ k \in Nat /\ k <= n /\ n + 1 \in Nat
    BY <1>2, <1>6, <2>1
  <2>3. W[n + 1] = EvictFirst(W[n], s)
    BY <1>15
  <2>4. CASE Halted(rank, F, R, W[n], k) /\ EvictFirst(W[n], s) = W[n]
    <3>1. Turned(n + 1, k)
      BY <2>1, <2>2, <2>3, <2>4
    <3> QED BY <2>2, <3>1
  <2>5. CASE /\ ~Halted(rank, F, R, W[n], k)
             /\ Passed(h, rank, N, F, L, R, EvictFirst(W[n], s), k + 1)
    <3>1. Turned(n + 1, k + 1)
      BY <2>1, <2>2, <2>3, <2>5
    <3> QED BY <2>2, <3>1
  <2> QED BY <1>5, <2>1, <2>4, <2>5
<1> HIDE DEF Good
<1>18. HistorySize \in Good
  <2>1. HistorySize \in 0 .. HistorySize /\ HistorySize \in Nat
    BY <1>2
  <2>2. \A n \in 0 .. HistorySize - 1 : n \in Good => n + 1 \in Good
    BY <1>17
  <2> QED BY <1>16, <2>1, <2>2, InductionTo
<1>19. PICK k : Turned(HistorySize, k)
  BY <1>18 DEF Good
<1>20. Halted(rank, F, R, W[HistorySize], k)
  <2>1. SUFFICES ASSUME k = HistorySize PROVE W[HistorySize].active = 0
    BY <1>19 DEF Halted
  <2>2. k \in 0 .. L - F + 1
    BY <1>6, <1>19
  <2>3. F + k = L + 1
    BY <1>2, <2>1, <2>2
  <2>4. PICK g : g = W[HistorySize]
    OBVIOUS
  <2>5. Slotted(g, rank, N) /\ ValidSlots(g) = {i \in ValidSlots(h) : L + 1 <= rank[i]}
    BY <1>19, <2>3, <2>4 DEF Passed
  <2>6. \A i \in ValidSlots(h) : rank[i] \in Int /\ rank[i] <= L
    BY RangeTypes
  <2>7. ValidSlots(g) = {}
    BY <1>2, <2>5, <2>6
  <2> QED BY <2>4, <2>5, <2>7, ActiveFacts
<1> QED BY <1>1, <1>14, <1>19, <1>20

\* What the network delivers: no rank a round of the ring behind the newest
\* arrival, none half of the sequence space ahead of a slot's.
Arriving(h, rank, N, r) ==
    /\ Slotted(h, rank, N) /\ r \in Nat \ {0} /\ N - HistorySize < r
    /\ \A j \in Slots : r - rank[j] < Half

Newest(N, r) == IF r > N THEN r ELSE N

LEMMA TakenFacts ==
    ASSUME NEW h, NEW rank, NEW N \in Nat, NEW r, Arriving(h, rank, N, r),
           r % HistorySize \notin ValidSlots(h), NEW f \in Slots, NEW l \in Slots
    PROVE  /\ Slotted(Taken(h, r, f, l), [rank EXCEPT ![r % HistorySize] = r], Newest(N, r))
           /\ ValidSlots(Taken(h, r, f, l)) = ValidSlots(h) \cup {r % HistorySize}
           /\ Taken(h, r, f, l).first = f /\ Taken(h, r, f, l).last = l
           /\ Taken(h, r, f, l).active # 0
<1>k. Slotted(h, rank, N) /\ r \in Nat /\ N - HistorySize < r /\ HistorySize \in Nat
      /\ HistorySize <= Half /\ Half \in Nat
      /\ \A j \in Slots : r - rank[j] < Half /\ N - Half < rank[j] /\ rank[j] \in Int
  BY ConstantFacts DEF Arriving, Slotted, Ranks
<1>t. PICK g, N2 : g = Taken(h, r, f, l) /\ N2 = Newest(N, r)
  OBVIOUS
<1>n. N2 \in Nat /\ N <= N2 /\ r <= N2 /\ N2 - Half < r /\ \A j \in Slots : N2 - Half < rank[j]
  <2>1. CASE r > N
    BY <1>k, <1>t, <2>1, ConstantFacts DEF Newest
  <2>2. CASE ~(r > N)
    BY <1>k, <1>t, <2>2 DEF Newest
  <2> QED BY <2>1, <2>2
<1> DEFINE i == r % HistorySize
           rank2 == [rank EXCEPT ![i] = r]
<1>1. /\ h \in Shape /\ rank \in Ranks /\ MaxNumAcks \in Nat \ {0}
  BY <1>k, ConstantFacts DEF Slotted
<1>a. i \in Slots /\ r % SeqSpan \in SeqNums /\ 0 \in -1 .. MaxNumAcks - 1
  <2>1. r \in Int
    BY <1>k
  <2> QED BY <1>1, <2>1, SlotFacts
<1> HIDE DEF i
<1>2. /\ g.el = [h.el EXCEPT ![i] = [seq |-> r % SeqSpan, acks |-> 0]]
      /\ g.first = f /\ g.last = l /\ g.active = h.active + 1
  BY <1>t DEF i, Taken
<1>3. g.el \in [Slots -> [seq : SeqNums, acks : -1 .. MaxNumAcks - 1]]
  BY <1>1, <1>a, <1>2, ShapeFacts
<1>4. \A j \in Slots : /\ g.el[j].seq = IF j = i THEN r % SeqSpan ELSE h.el[j].seq
                       /\ g.el[j].acks = IF j = i THEN 0 ELSE h.el[j].acks
  BY <1>1, <1>2, ShapeFacts
<1>5. \A j \in Slots : IsValid(g, j) <=> j = i \/ IsValid(h, j)
  BY <1>4 DEF IsValid
<1>6. ValidSlots(g) = ValidSlots(h) \cup {i}
  BY <1>a, <1>5 DEF ValidSlots
<1>7. h.active = Cardinality(ValidSlots(h)) /\ h.active \in Nat
  BY <1>k, ActiveFacts DEF Slotted
<1>8. g.active = Cardinality(ValidSlots(g)) /\ g.active \in Nat
  <2>1. Cardinality(ValidSlots(h) \cup {i}) = Cardinality(ValidSlots(h)) + 1
    BY ValidFinite, FS_AddElement DEF i
  <2>2. g.active = Cardinality(ValidSlots(h)) + 1 /\ g.active \in Nat
    BY <1>2, <1>7
  <2> QED BY <1>6, <2>1, <2>2
<1>9. g \in Shape
  BY <1>t, <1>3, <1>8 DEF Shape, Taken
<1>10. /\ rank2 \in Ranks /\ rank2[i] = r /\ \A j \in Slots \ {i} : rank2[j] = rank[j]
  BY <1>k, <1>1, <1>a DEF Ranks
<1> HIDE DEF rank2
<1>11. ASSUME NEW j \in Slots
       PROVE  /\ g.el[j].seq = rank2[j] % SeqSpan /\ N2 - Half < rank2[j] /\ rank2[j] <= N2
              /\ rank2[j] % HistorySize = j \/ (rank2[j] = 0 /\ ~IsValid(g, j))
  <2>1. CASE j = i
    BY <1>n, <1>4, <1>10, <2>1 DEF i
  <2>2. CASE j # i
    <3>1. /\ h.el[j].seq = rank[j] % SeqSpan /\ rank[j] <= N /\ rank[j] \in Int
          /\ rank[j] % HistorySize = j \/ (rank[j] = 0 /\ ~IsValid(h, j))
      BY <1>k DEF Slotted, Ranks
    <3>2. rank[j] <= N2 /\ N2 - Half < rank[j]
      BY <1>n, <3>1
    <3>3. rank2[j] = rank[j] /\ g.el[j].seq = h.el[j].seq /\ (IsValid(g, j) <=> IsValid(h, j))
      BY <1>4, <1>5, <1>10, <2>2
    <3> QED BY <3>1, <3>2, <3>3
  <2> QED BY <2>1, <2>2
<1>12. Slotted(g, rank2, N2)
  BY ONLY <1>8, <1>9, <1>10, <1>11 DEF Slotted
<1>13. g.active # 0
  BY <1>2, <1>7
<1> QED BY <1>t, <1>2, <1>6, <1>12, <1>13 DEF rank2, i

LEMMA TakenRanks ==
    ASSUME NEW h, NEW rank, NEW N \in Nat, NEW r, Arriving(h, rank, N, r)
    PROVE  LET rank2 == [rank EXCEPT ![r % HistorySize] = r]
           IN  /\ rank2[r % HistorySize] = r
               /\ \A j \in Slots : j # r % HistorySize => rank2[j] = rank[j]
<1>1. rank \in [Slots -> Int] /\ r \in Int
  BY DEF Arriving, Slotted, Ranks
<1>2. r % HistorySize \in Slots
  BY <1>1, SlotFacts
<1> QED BY <1>1, <1>2

\* The slots as the ranks say: at most one round behind its place, or unused.
LEMMA PlaceFacts ==
    ASSUME NEW h, NEW rank, NEW N \in Nat, Slotted(h, rank, N), NEW p \in Nat
    PROVE  /\ rank[p % HistorySize] \in Int /\ rank[p % HistorySize] <= N
           /\ h.el[p % HistorySize].seq = rank[p % HistorySize] % SeqSpan
           /\ \/ rank[p % HistorySize] % HistorySize = p % HistorySize
              \/ rank[p % HistorySize] = 0 /\ ~IsValid(h, p % HistorySize)
<1>1. p % HistorySize \in Slots
  BY SlotFacts
<1> QED BY <1>1 DEF Slotted, Ranks

\* What the eviction leaves is within one round of r.
LEMMA EvictedFacts ==
    ASSUME NEW h, NEW rank, NEW N \in Nat, NEW F, NEW L, Ranged(h, rank, F, L),
           NEW r, Arriving(h, rank, N, r), L < r
    PROVE  LET g == Evict(h, r % SeqSpan)
           IN  /\ Slotted(g, rank, N) /\ ValidSlots(g) \subseteq ValidSlots(h)
               /\ r % HistorySize \notin ValidSlots(g)
               /\ g.active # 0 => \E p \in F .. L :
                     /\ g.first = p % HistorySize /\ rank[p % HistorySize] = p
                     /\ r - HistorySize < p
                     /\ \A i \in ValidSlots(g) : p <= rank[i]
<1>1. /\ Slotted(h, rank, N) /\ r \in Nat /\ \A j \in Slots : r - rank[j] < Half
  BY DEF Arriving
<1>2. PICK g, R : g = Evict(h, r % SeqSpan) /\ R = r - (HistorySize - 1)
  OBVIOUS
<1>3. PICK k : Passed(h, rank, N, F, L, R, g, k) /\ Halted(rank, F, R, g, k)
  BY <1>1, <1>2, EvictFacts
<1>4. /\ F \in Nat \ {0} /\ L \in Nat /\ F <= L /\ L - F < HistorySize
      /\ HistorySize \in Nat \ {0} /\ R \in Int
      /\ \A j \in ValidSlots(h) : /\ j \in Slots /\ rank[j] \in Int /\ rank[j] % HistorySize = j
                                  /\ F <= rank[j] /\ rank[j] <= L
  BY <1>1, <1>2, RangeTypes
<1>5. PICK p : p = F + k
  OBVIOUS
<1>6. /\ k \in 0 .. L - F + 1 /\ Slotted(g, rank, N) /\ g.first = p % HistorySize
      /\ ValidSlots(g) = {i \in ValidSlots(h) : p <= rank[i]}
      /\ k = 0 \/ F < R
      /\ g.active = 0 \/ R <= rank[p % HistorySize]
  BY <1>3, <1>5 DEF Passed, Halted
<1>7. p \in Nat /\ F <= p
  BY <1>4, <1>5, <1>6
<1>8. ASSUME g.active # 0
      PROVE  /\ p \in F .. L /\ rank[p % HistorySize] = p /\ r - HistorySize < p
  <2>1. PICK j \in ValidSlots(g) : TRUE
    BY <1>6, <1>8, ActiveFacts
  <2>2. p <= L /\ p \in F .. L
    BY <1>4, <1>6, <1>7, <2>1
  <2>3. PICK q : q = rank[p % HistorySize]
    OBVIOUS
  <2>4. q \in Int /\ R <= q /\ (q % HistorySize = p % HistorySize \/ q = 0)
    BY <1>1, <1>6, <1>7, <1>8, <2>3, PlaceFacts
  <2>5. q <= p
    BY <2>2, <2>3 DEF Ranged
  <2>6. q = p
    <3>1. CASE k = 0
      <4>1. p = F
        BY <1>4, <1>5, <3>1
      <4> QED BY <2>3, <4>1 DEF Ranged
    <3>2. CASE k # 0
      <4>1. q # 0
        BY <1>4, <1>6, <2>4, <3>2
      <4>2. q % HistorySize = p % HistorySize
        BY <2>4, <4>1
      <4>3. ~(q <= p - HistorySize)
        BY <1>1, <1>2, <1>4, <1>7, <2>2, <2>4
      <4>4. p \in Int
        BY <1>7
      <4>5. ~(q < p)
        BY <2>4, <4>2, <4>3, <4>4, RoundOlder
      <4> QED BY <1>7, <2>4, <2>5, <4>5
    <3> QED BY <3>1, <3>2
  <2>7. r - HistorySize < p
    BY <1>1, <1>2, <1>4, <1>7, <2>4, <2>6
  <2> QED BY <2>2, <2>3, <2>6, <2>7
<1>9. ASSUME r % HistorySize \in ValidSlots(g) PROVE FALSE
  <2>1. PICK i, q : i = r % HistorySize /\ q = rank[i]
    OBVIOUS
  <2>2. i \in ValidSlots(h) /\ i \in ValidSlots(g) /\ p <= q
    BY <1>6, <1>9, <2>1
  <2>3. q \in Int /\ q % HistorySize = r % HistorySize /\ q <= L
    BY <1>4, <2>1, <2>2
  <2>4. q < r /\ r \in Int
    BY <1>1, <1>4, <2>3
  <2>5. q <= r - HistorySize
    BY <2>3, <2>4, RoundOlder
  <2>6. g.active # 0
    BY <1>6, <2>2, ActiveFacts
  <2>7. r - HistorySize < p
    BY <1>8, <2>6
  <2> QED BY <1>1, <1>4, <1>7, <2>2, <2>3, <2>5, <2>7
<1>10. ASSUME g.active # 0
       PROVE  \E p2 \in F .. L : /\ g.first = p2 % HistorySize /\ rank[p2 % HistorySize] = p2
                                 /\ r - HistorySize < p2
                                 /\ \A i \in ValidSlots(g) : p2 <= rank[i]
  BY <1>6, <1>8, <1>10
<1> QED BY <1>2, <1>6, <1>9, <1>10

\* The history g holds what h held, or less, and the rank r.
Entered(g, rank2, h, rank, N, r) ==
    /\ Sound(g, rank2, Newest(N, r))
    /\ \A i \in ValidSlots(g) : rank2[i] = r \/ (i \in ValidSlots(h) /\ rank2[i] = rank[i])
    /\ \A i \in Slots : rank2[i] \in {rank[i], r}

\* Entering r keeps the history sound if its rank fits the range F2 .. L2.
LEMMA TakenSound ==
    ASSUME NEW h, NEW rank, NEW N \in Nat, NEW r, Arriving(h, rank, N, r),
           r % HistorySize \notin ValidSlots(h),
           NEW F2 \in Nat \ {0}, NEW L2 \in Nat, F2 <= r, r <= L2, L2 - F2 < HistorySize,
           Newest(N, r) - HistorySize < F2, L2 <= Newest(N, r),
           F2 = r \/ rank[F2 % HistorySize] = F2,
           L2 = r \/ (IsValid(h, L2 % HistorySize) /\ rank[L2 % HistorySize] = L2),
           \A i \in ValidSlots(h) : F2 <= rank[i] /\ rank[i] <= L2,
           \A p \in F2 .. L2 : p = r \/ rank[p % HistorySize] <= p
    PROVE  Entered(Taken(h, r, F2 % HistorySize, (L2 + 1) % HistorySize),
                   [rank EXCEPT ![r % HistorySize] = r], h, rank, N, r)
<1>1. PICK f, l, rank2, N2, i :
          /\ f = F2 % HistorySize /\ l = (L2 + 1) % HistorySize
          /\ rank2 = [rank EXCEPT ![r % HistorySize] = r]
          /\ N2 = Newest(N, r) /\ i = r % HistorySize
  OBVIOUS
<1>2. PICK g : g = Taken(h, r, f, l)
  OBVIOUS
<1>3. /\ r \in Nat \ {0} /\ HistorySize \in Nat \ {0}
      /\ F2 \in Int /\ L2 \in Int /\ L2 + 1 \in Int /\ r \in Int
  BY ConstantFacts DEF Arriving
<1>4. f \in Slots /\ l \in Slots /\ i \in Slots
  BY <1>1, <1>3, SlotFacts
<1>5. /\ Slotted(g, rank2, N2) /\ ValidSlots(g) = ValidSlots(h) \cup {i}
      /\ g.first = f /\ g.last = l /\ g.active # 0
  <2>a. /\ N \in Nat /\ Arriving(h, rank, N, r) /\ r % HistorySize \notin ValidSlots(h)
        /\ f \in Slots /\ l \in Slots
    BY <1>4
  <2>1. /\ Slotted(Taken(h, r, f, l), [rank EXCEPT ![r % HistorySize] = r], Newest(N, r))
        /\ ValidSlots(Taken(h, r, f, l)) = ValidSlots(h) \cup {r % HistorySize}
        /\ Taken(h, r, f, l).first = f /\ Taken(h, r, f, l).last = l
        /\ Taken(h, r, f, l).active # 0
    BY ONLY <2>a, TakenFacts
  <2> QED BY <1>1, <1>2, <2>1
<1>6. rank2[i] = r /\ \A j \in Slots : j # i => rank2[j] = rank[j]
  BY <1>1, TakenRanks
<1>7. ASSUME NEW p \in F2 .. L2
      PROVE  /\ p % HistorySize = i => p = r
             /\ p = r => rank2[p % HistorySize] = p
             /\ p # r => rank2[p % HistorySize] = rank[p % HistorySize]
  <2>1. p \in Int /\ p - r < HistorySize /\ r - p < HistorySize
    BY <1>3
  <2>2. p % HistorySize \in Slots
    BY <2>1, SlotFacts
  <2>3. p % HistorySize = i => p = r
    BY <1>1, <1>3, <2>1, SameSlot
  <2> QED BY <1>1, <1>6, <2>2, <2>3
<1>8. F2 \in F2 .. L2 /\ L2 \in F2 .. L2
  BY <1>3
<1>9. rank2[F2 % HistorySize] = F2 /\ rank2[L2 % HistorySize] = L2
  BY <1>7, <1>8
<1>10. IsValid(g, L2 % HistorySize)
  <2>1. L2 % HistorySize \in ValidSlots(g)
    <3>1. CASE L2 = r
      BY <1>1, <1>5, <3>1
    <3>2. CASE L2 # r
      <4>1. L2 % HistorySize \in Slots /\ IsValid(h, L2 % HistorySize)
        BY <1>3, <3>2, SlotFacts
      <4>2. L2 % HistorySize \in ValidSlots(h)
        BY <4>1 DEF ValidSlots
      <4> QED BY <1>5, <4>2
    <3> QED BY <3>1, <3>2
  <2> QED BY <2>1 DEF ValidSlots
<1>11. ASSUME NEW j \in ValidSlots(g)
       PROVE  /\ F2 <= rank2[j] /\ rank2[j] <= L2
              /\ rank2[j] = r \/ (j \in ValidSlots(h) /\ rank2[j] = rank[j])
  <2>1. CASE j = i
    BY <1>6, <2>1
  <2>2. CASE j # i
    <3>1. j \in ValidSlots(h) /\ j \in Slots
      BY <1>5, <2>2 DEF ValidSlots
    <3> QED BY <1>6, <2>2, <3>1
  <2> QED BY <2>1, <2>2
<1>12. \A p \in F2 .. L2 : rank2[p % HistorySize] <= p
  <2> SUFFICES ASSUME NEW p \in F2 .. L2 PROVE rank2[p % HistorySize] <= p
    OBVIOUS
  <2>1. CASE p = r
    BY <1>3, <1>7, <2>1
  <2>2. CASE p # r
    BY <1>7, <2>2
  <2> QED BY <2>1, <2>2
<1>13. Ranged(g, rank2, F2, L2)
  <2>1. F2 <= L2
    BY <1>3
  <2> QED BY <1>1, <1>5, <1>9, <1>10, <1>11, <1>12, <2>1 DEF Ranged
<1>14. Sound(g, rank2, N2)
  <2>1. F2 \in Nat /\ N2 - HistorySize < F2 /\ L2 <= N2
    BY <1>1
  <2> QED BY <1>5, <1>13, <2>1 DEF Sound
<1>15. Entered(g, rank2, h, rank, N, r)
  BY <1>1, <1>11, <1>14 DEF Entered
<1> QED BY <1>1, <1>2, <1>15

LEMMA NewestFacts ==
    ASSUME NEW h, NEW rank, NEW N \in Nat, NEW r, Arriving(h, rank, N, r)
    PROVE  /\ r \in Nat \ {0} /\ HistorySize \in Nat \ {0} /\ Slotted(h, rank, N)
           /\ Newest(N, r) \in Nat /\ N <= Newest(N, r) /\ r <= Newest(N, r)
           /\ Newest(N, r) - HistorySize < r
           /\ r <= N => Newest(N, r) = N
           /\ \A p \in Nat : N - HistorySize < p /\ r - HistorySize < p
                             => Newest(N, r) - HistorySize < p
<1>1. /\ r \in Nat \ {0} /\ HistorySize \in Nat \ {0} /\ Slotted(h, rank, N)
      /\ N - HistorySize < r
  BY ConstantFacts DEF Arriving
<1>2. CASE r > N
  BY <1>1, <1>2 DEF Newest
<1>3. CASE ~(r > N)
  BY <1>1, <1>3 DEF Newest
<1> QED BY <1>2, <1>3

\* r is entered into a history without a used slot.
LEMMA TakenAlone ==
    ASSUME NEW h, NEW rank, NEW N \in Nat, NEW r, Arriving(h, rank, N, r), h.active = 0
    PROVE  Entered(Taken(h, r, r % HistorySize, (r + 1) % HistorySize),
                   [rank EXCEPT ![r % HistorySize] = r], h, rank, N, r)
<1>1. /\ r \in Nat \ {0} /\ HistorySize \in Nat \ {0} /\ Slotted(h, rank, N)
      /\ r <= Newest(N, r) /\ Newest(N, r) - HistorySize < r
  BY NewestFacts
<1>2. ValidSlots(h) = {}
  BY <1>1, ActiveFacts
<1>3. /\ r \in Nat /\ r <= r /\ r - r < HistorySize /\ r % HistorySize \notin ValidSlots(h)
      /\ \A i \in ValidSlots(h) : r <= rank[i] /\ rank[i] <= r
      /\ \A p \in r .. r : p = r
      /\ N \in Nat /\ Arriving(h, rank, N, r)
  BY <1>1, <1>2
<1> QED BY ONLY <1>1, <1>3, TakenSound

\* r is newer than the whole range.
LEMMA InsertNewerSound ==
    ASSUME NEW h, NEW rank, NEW N \in Nat, NEW F, NEW L, Ranged(h, rank, F, L),
           N - HistorySize < F, L <= N, NEW r, Arriving(h, rank, N, r), L < r
    PROVE  Entered(InsertNewer(h, r % SeqSpan), [rank EXCEPT ![r % HistorySize] = r],
                   h, rank, N, r)
<1>1. PICK g, rank2 : /\ g = Evict(h, r % SeqSpan)
                      /\ rank2 = [rank EXCEPT ![r % HistorySize] = r]
  OBVIOUS
<1>2. /\ Slotted(g, rank, N) /\ ValidSlots(g) \subseteq ValidSlots(h)
      /\ r % HistorySize \notin ValidSlots(g)
      /\ g.active # 0 => \E p \in F .. L :
            /\ g.first = p % HistorySize /\ rank[p % HistorySize] = p
            /\ r - HistorySize < p
            /\ \A i \in ValidSlots(g) : p <= rank[i]
  BY <1>1, EvictedFacts
<1>3. /\ r \in Nat \ {0} /\ HistorySize \in Nat \ {0} /\ r <= Newest(N, r)
      /\ Newest(N, r) - HistorySize < r /\ Slotted(h, rank, N)
      /\ \A p \in Nat : N - HistorySize < p /\ r - HistorySize < p
                        => Newest(N, r) - HistorySize < p
  BY NewestFacts
<1>4. Arriving(g, rank, N, r)
  BY <1>2 DEF Arriving
<1>5. PICK f, l : /\ f = (IF g.active = 0 THEN r % HistorySize ELSE g.first)
                  /\ l = (r + 1) % HistorySize
  OBVIOUS
<1>6. InsertNewer(h, r % SeqSpan) = Taken(g, r, f, l)
  <2>1. PICK i : i = r % HistorySize
    OBVIOUS
  <2>2. (r % SeqSpan) % HistorySize = i /\ AddSlot(i) = l /\ g \in Shape
    <3>1. r \in Int
      BY <1>3
    <3> QED BY <1>2, <1>5, <2>1, <3>1, SlotFacts, NextSlot DEF Slotted
  <2>3. PICK e, a : /\ e = [g.el EXCEPT ![i] = [seq |-> r % SeqSpan, acks |-> 0]]
                    /\ a = g.active + 1
    OBVIOUS
  <2>4. InsertNewer(h, r % SeqSpan)
        = [g EXCEPT !.first = IF g.active = 0 THEN i ELSE @, !.last = l,
                    !.active = @ + 1, !.el[i] = [seq |-> r % SeqSpan, acks |-> 0]]
    BY <1>1, <2>2 DEF InsertNewer
  <2>5. [g EXCEPT !.first = IF g.active = 0 THEN i ELSE @, !.last = l,
                  !.active = @ + 1, !.el[i] = [seq |-> r % SeqSpan, acks |-> 0]]
        = [g EXCEPT !.first = f, !.last = l, !.active = a, !.el = e]
    BY ONLY <1>5, <2>1, <2>2, <2>3 DEF Shape
  <2>6. PICK b : b = [g EXCEPT !.first = f, !.last = l]
    OBVIOUS
  <2>7. b = [el |-> g.el, first |-> f, last |-> l, active |-> g.active]
    BY <2>2, <2>6 DEF Shape
  <2>8. [b EXCEPT !.active = a, !.el = e] = [el |-> e, first |-> f, last |-> l, active |-> a]
    <3>1. [b EXCEPT !.active = a] = [el |-> g.el, first |-> f, last |-> l, active |-> a]
      BY <2>7
    <3>2. [[el |-> g.el, first |-> f, last |-> l, active |-> a] EXCEPT !.el = e]
          = [el |-> e, first |-> f, last |-> l, active |-> a]
      OBVIOUS
    <3>3. [b EXCEPT !.active = a, !.el = e] = [[b EXCEPT !.active = a] EXCEPT !.el = e]
      OBVIOUS
    <3> QED BY <3>1, <3>2, <3>3
  <2> QED BY <2>1, <2>3, <2>4, <2>5, <2>6, <2>8 DEF Taken
<1>7. Entered(Taken(g, r, f, l), rank2, g, rank, N, r)
  <2>1. CASE g.active = 0
    <3>1. Entered(Taken(g, r, r % HistorySize, (r + 1) % HistorySize),
                  [rank EXCEPT ![r % HistorySize] = r], g, rank, N, r)
      BY <1>4, <2>1, TakenAlone
    <3> QED BY <1>1, <1>5, <2>1, <3>1
  <2>2. CASE g.active # 0
    <3>1. PICK p \in F .. L : /\ g.first = p % HistorySize /\ rank[p % HistorySize] = p
                              /\ r - HistorySize < p
                              /\ \A i \in ValidSlots(g) : p <= rank[i]
      BY <1>2, <2>2
    <3>2. /\ F \in Nat \ {0} /\ L \in Nat /\ F <= L /\ L - F < HistorySize
          /\ \A k \in ValidSlots(h) : /\ k \in Slots /\ rank[k] \in Int
                                      /\ rank[k] % HistorySize = k
                                      /\ F <= rank[k] /\ rank[k] <= L
      BY <1>3, RangeTypes
    <3>3. /\ p \in Nat \ {0} /\ r \in Nat /\ p <= r /\ r <= r /\ r - p < HistorySize
          /\ N - HistorySize < p
      BY <1>3, <3>1, <3>2
    <3>4. Newest(N, r) - HistorySize < p
      BY <1>3, <3>1, <3>3
    <3>5. \A i \in ValidSlots(g) : p <= rank[i] /\ rank[i] <= r
      BY <1>2, <1>3, <3>1, <3>2
    <3>6. ASSUME NEW q \in p .. r PROVE q = r \/ rank[q % HistorySize] <= q
      <4>1. CASE q <= L
        <5>1. q \in F .. L
          BY <3>1, <3>2, <3>3, <4>1
        <5> QED BY <5>1 DEF Ranged
      <4>2. CASE L < q
        <5>1. PICK s : s = rank[q % HistorySize]
          OBVIOUS
        <5>2. q \in Nat /\ q \in Int
          BY <3>3
        <5>3. s \in Int /\ s <= N /\ (s % HistorySize = q % HistorySize \/ s = 0)
          BY <1>3, <5>1, <5>2, PlaceFacts
        <5>4. ASSUME q < s PROVE FALSE
          <6>1. s % HistorySize = q % HistorySize
            BY <5>2, <5>3, <5>4
          <6>2. q <= s - HistorySize
            BY <5>2, <5>3, <5>4, <6>1, RoundOlder
          <6> QED BY <1>3, <3>2, <4>2, <5>2, <5>3, <6>2
        <5> QED BY <5>1, <5>2, <5>3, <5>4
      <4> QED BY <3>2, <3>3, <4>1, <4>2
    <3>7. /\ N \in Nat /\ Arriving(g, rank, N, r) /\ r % HistorySize \notin ValidSlots(g)
          /\ rank[p % HistorySize] = p /\ r <= Newest(N, r)
      BY <1>2, <1>3, <1>4, <3>1
    <3>8. Entered(Taken(g, r, p % HistorySize, (r + 1) % HistorySize),
                  [rank EXCEPT ![r % HistorySize] = r], g, rank, N, r)
      BY ONLY <3>3, <3>4, <3>5, <3>6, <3>7, TakenSound
    <3> QED BY <1>1, <1>5, <2>2, <3>1, <3>8
  <2> QED BY <2>1, <2>2
<1>8. Entered(Taken(g, r, f, l), rank2, h, rank, N, r)
  BY <1>2, <1>7 DEF Entered
<1> QED BY <1>1, <1>6, <1>8

\* r is within the range.
LEMMA InsertOlderSound ==
    ASSUME NEW h, NEW rank, NEW N \in Nat, NEW F, NEW L, Ranged(h, rank, F, L),
           N - HistorySize < F, L <= N, NEW r, Arriving(h, rank, N, r), F <= r, r <= L,
           ~IsValid(h, r % HistorySize)
    PROVE  Entered(InsertOlder(h, r % SeqSpan), [rank EXCEPT ![r % HistorySize] = r],
                   h, rank, N, r)
<1>1. /\ r \in Nat \ {0} /\ HistorySize \in Nat \ {0} /\ Slotted(h, rank, N) /\ h \in Shape
      /\ r <= N => Newest(N, r) = N
  BY NewestFacts DEF Slotted
<1>2. /\ F \in Nat \ {0} /\ L \in Nat /\ F <= L /\ L - F < HistorySize
      /\ \A k \in ValidSlots(h) : /\ k \in Slots /\ rank[k] \in Int
                                  /\ rank[k] % HistorySize = k
                                  /\ F <= rank[k] /\ rank[k] <= L
  BY <1>1, RangeTypes
<1>3. Newest(N, r) = N
  BY <1>1, <1>2
<1>4. /\ h.first = F % HistorySize /\ h.last = (L + 1) % HistorySize
      /\ rank[F % HistorySize] = F
      /\ IsValid(h, L % HistorySize) /\ rank[L % HistorySize] = L
      /\ \A p \in F .. L : rank[p % HistorySize] <= p
  BY DEF Ranged
<1>5. PICK i, e, a : /\ i = r % HistorySize /\ a = h.active + 1
                     /\ e = [h.el EXCEPT ![r % HistorySize] = [seq |-> r % SeqSpan, acks |-> 0]]
  OBVIOUS
<1>6. InsertOlder(h, r % SeqSpan) = Taken(h, r, h.first, h.last)
  <2>1. (r % SeqSpan) % HistorySize = i
    <3>1. r \in Int
      BY <1>1
    <3> QED BY <1>5, <3>1, SlotFacts
  <2>2. InsertOlder(h, r % SeqSpan) = [h EXCEPT !.active = IF IsValid(h, i) THEN @ ELSE @ + 1,
                                                !.el[i] = [seq |-> r % SeqSpan, acks |-> 0]]
    BY <2>1 DEF InsertOlder
  <2>3. [h EXCEPT !.active = IF IsValid(h, i) THEN @ ELSE @ + 1,
                  !.el[i] = [seq |-> r % SeqSpan, acks |-> 0]]
        = [h EXCEPT !.active = a, !.el = e]
    <3>1. ~IsValid(h, i)
      BY <1>5
    <3> QED BY ONLY <1>1, <1>5, <3>1 DEF Shape
  <2>4. [h EXCEPT !.active = a, !.el = e]
        = [el |-> e, first |-> h.first, last |-> h.last, active |-> a]
    BY <1>1, ReplaceActive
  <2> QED BY <1>5, <2>2, <2>3, <2>4 DEF Taken
<1>7. /\ N \in Nat /\ Arriving(h, rank, N, r) /\ r % HistorySize \notin ValidSlots(h)
      /\ F <= r /\ r <= L /\ Newest(N, r) - HistorySize < F /\ L <= Newest(N, r)
      /\ F \in Nat \ {0} /\ L \in Nat /\ L - F < HistorySize
  BY <1>2, <1>3 DEF ValidSlots
<1>8. \A k \in ValidSlots(h) : F <= rank[k] /\ rank[k] <= L
  BY <1>2
<1>9. Entered(Taken(h, r, F % HistorySize, (L + 1) % HistorySize),
              [rank EXCEPT ![r % HistorySize] = r], h, rank, N, r)
  BY ONLY <1>4, <1>7, <1>8, TakenSound
<1> QED BY <1>4, <1>6, <1>9

LEMMA InsertSound ==
    ASSUME NEW h, NEW rank, NEW N \in Nat, Sound(h, rank, N), NEW r, Arriving(h, rank, N, r),
           h.active # 0 => ~SeqLess(r % SeqSpan, h.el[h.first].seq)
    PROVE  \E rank2 : Entered(Insert(h, r % SeqSpan), rank2, h, rank, N, r)
<1>1. /\ r \in Nat \ {0} /\ HistorySize \in Nat \ {0} /\ Slotted(h, rank, N) /\ h \in Shape
      /\ N - HistorySize < r /\ r \in Int /\ HistorySize <= Half /\ Half \in Nat
      /\ r <= N => Newest(N, r) = N
  BY NewestFacts, ConstantFacts DEF Slotted, Arriving
<1>2. PICK i : i = r % HistorySize
  OBVIOUS
<1>3. (r % SeqSpan) % HistorySize = i /\ AddSlot(i) = (r + 1) % HistorySize /\ i \in Slots
  BY <1>1, <1>2, SlotFacts, NextSlot
<1>4. CASE h.active = 0
  <2>1. PICK e, l : /\ e = [h.el EXCEPT ![i] = [seq |-> r % SeqSpan, acks |-> 0]]
                    /\ l = (r + 1) % HistorySize
    OBVIOUS
  <2>2. Insert(h, r % SeqSpan) = [h EXCEPT !.first = i, !.last = l, !.active = 1,
                                           !.el[i] = [seq |-> r % SeqSpan, acks |-> 0]]
    BY <1>3, <1>4, <2>1 DEF Insert
  <2>3. [h EXCEPT !.first = i, !.last = l, !.active = 1,
                  !.el[i] = [seq |-> r % SeqSpan, acks |-> 0]]
        = [h EXCEPT !.first = i, !.last = l, !.active = 1, !.el = e]
    BY ONLY <1>1, <2>1 DEF Shape
  <2>4. PICK b : b = [h EXCEPT !.first = i, !.last = l]
    OBVIOUS
  <2>5. b = [el |-> h.el, first |-> i, last |-> l, active |-> h.active]
    BY <1>1, <2>4 DEF Shape
  <2>6. [b EXCEPT !.active = 1, !.el = e] = [el |-> e, first |-> i, last |-> l, active |-> 1]
    <3>1. [b EXCEPT !.active = 1] = [el |-> h.el, first |-> i, last |-> l, active |-> 1]
      BY <2>5
    <3>2. [[el |-> h.el, first |-> i, last |-> l, active |-> 1] EXCEPT !.el = e]
          = [el |-> e, first |-> i, last |-> l, active |-> 1]
      OBVIOUS
    <3>3. [b EXCEPT !.active = 1, !.el = e] = [[b EXCEPT !.active = 1] EXCEPT !.el = e]
      OBVIOUS
    <3> QED BY <3>1, <3>2, <3>3
  <2>7. h.active + 1 = 1
    BY <1>4
  <2>8. Insert(h, r % SeqSpan) = Taken(h, r, r % HistorySize, (r + 1) % HistorySize)
    BY <1>2, <2>1, <2>2, <2>3, <2>4, <2>6, <2>7 DEF Taken
  <2> QED BY <1>4, <2>8, TakenAlone
<1>5. CASE h.active # 0
  <2>1. PICK F, L \in Nat : Ranged(h, rank, F, L) /\ N - HistorySize < F /\ L <= N
    BY <1>5 DEF Sound
  <2>2. /\ F \in Nat \ {0} /\ L \in Nat /\ F <= L /\ L - F < HistorySize
    BY <1>1, <2>1, RangeTypes
  <2>3. /\ h.first = F % HistorySize /\ rank[F % HistorySize] = F
        /\ LastIndex(h) = L % HistorySize /\ rank[L % HistorySize] = L
    <3>1. h.last = (L + 1) % HistorySize /\ L \in Int
      BY <2>1, <2>2 DEF Ranged
    <3> QED BY <2>1, <3>1, LastSlot DEF Ranged
  <2>4. F % HistorySize \in Slots /\ L % HistorySize \in Slots
    BY <2>2, SlotFacts
  <2>5. /\ h.el[h.first].seq = F % SeqSpan /\ h.el[LastIndex(h)].seq = L % SeqSpan
        /\ r - F < Half /\ r - L < Half
    BY <1>1, <2>3, <2>4 DEF Slotted, Arriving
  <2>6. SeqLess(L % SeqSpan, r % SeqSpan) <=> L < r
    <3>1. L \in Int /\ L - r <= Half
      BY <1>1, <2>1, <2>2
    <3> QED BY <1>1, <2>5, <3>1, SeqLessFacts
  <2>7. F <= r
    <3>1. F \in Int /\ F - r < Half /\ r - F <= Half
      BY <1>1, <2>1, <2>2, <2>5
    <3>2. SeqLess(r % SeqSpan, F % SeqSpan) <=> r < F
      BY <1>1, <3>1, SeqLessFacts
    <3>3. ~SeqLess(r % SeqSpan, F % SeqSpan)
      BY <1>5, <2>5
    <3> QED BY <1>1, <2>2, <3>2, <3>3
  <2>8. CASE L < r
    <3>1. Insert(h, r % SeqSpan) = InsertNewer(h, r % SeqSpan)
      BY <1>5, <2>5, <2>6, <2>8 DEF Insert
    <3>2. Entered(InsertNewer(h, r % SeqSpan), [rank EXCEPT ![r % HistorySize] = r],
                  h, rank, N, r)
      BY <2>1, <2>8, InsertNewerSound
    <3> QED BY <3>1, <3>2
  <2>9. CASE ~(L < r)
    <3>1. r <= L /\ r \in F .. L
      BY <1>1, <2>2, <2>7, <2>9
    <3>2. CASE IsValid(h, i)
      <4>1. rank[i] = r
        BY <1>1, <1>2, <2>1, <3>1, <3>2, ValidRank
      <4>2. h.el[i].seq = r % SeqSpan
        BY <1>1, <1>3, <4>1 DEF Slotted
      <4>3. IsDuplicate(h, r % SeqSpan)
        BY <1>3, <1>5, <2>5, <2>6, <2>9, <3>2, <4>2 DEF IsDuplicate
      <4>4. Insert(h, r % SeqSpan) = h
        BY <1>5, <2>5, <2>6, <2>9, <4>3 DEF Insert
      <4>5. Newest(N, r) = N
        BY <1>1, <2>1, <2>2, <3>1
      <4>6. Entered(h, rank, h, rank, N, r)
        BY <4>5 DEF Entered
      <4> QED BY <4>4, <4>6
    <3>3. CASE ~IsValid(h, i)
      <4>1. ~IsDuplicate(h, r % SeqSpan)
        BY <1>3, <3>3 DEF IsDuplicate
      <4>2. Insert(h, r % SeqSpan) = InsertOlder(h, r % SeqSpan)
        BY <1>5, <2>5, <2>6, <2>9, <4>1 DEF Insert
      <4>3. ~IsValid(h, r % HistorySize)
        BY <1>2, <3>3
      <4>4. Entered(InsertOlder(h, r % SeqSpan), [rank EXCEPT ![r % HistorySize] = r],
                    h, rank, N, r)
        BY <2>1, <2>7, <3>1, <4>3, InsertOlderSound
      <4> QED BY <4>2, <4>4
    <3> QED BY <3>2, <3>3
  <2> QED BY <2>8, <2>9
<1> QED BY <1>4, <1>5

\* As many used slots as the range is long: every rank of it was received.
LEMMA FullRange ==
    ASSUME NEW h, NEW rank, NEW N \in Nat, Slotted(h, rank, N), NEW F, NEW L,
           Ranged(h, rank, F, L), h.active = L - F + 1
    PROVE  F .. L \subseteq {rank[i] : i \in ValidSlots(h)}
<1>1. /\ F \in Nat /\ L \in Nat /\ F <= L /\ L - F < HistorySize
      /\ \A k \in ValidSlots(h) : /\ rank[k] \in Int /\ rank[k] % HistorySize = k
                                  /\ F <= rank[k] /\ rank[k] <= L
  BY RangeTypes
<1> DEFINE V == ValidSlots(h)
           f == [i \in V |-> rank[i]]
<1>2. f \in [V -> F .. L] /\ \A i \in V : f[i] = rank[i]
  BY <1>1
<1>3. \A i, j \in V : f[i] = f[j] => i = j
  BY <1>1, <1>2
<1> HIDE DEF f, V
<1>4. f \in Injection(V, F .. L)
  BY <1>2, <1>3 DEF Injection, IsInjective
<1>5. IsFiniteSet(F .. L) /\ Cardinality(F .. L) = L - F + 1
  <2>1. F \in Int /\ L \in Int /\ ~(F > L)
    BY <1>1
  <2> QED BY <2>1, FS_Interval
<1>6. Cardinality(V) = Cardinality(F .. L)
  BY <1>5 DEF Slotted, V
<1>7. f \in Surjection(V, F .. L)
  BY <1>4, <1>5, <1>6, FS_Injection
<1>8. \A p \in F .. L : \E i \in V : f[i] = p
  BY <1>7 DEF Surjection
<1> QED BY <1>2, <1>8 DEF V

\* An ACK frame from a history with the ranks V, of which A is the last and B the
\* first: a range is that of B .. A without a gap, bits are distances from A.
Claims(ack, A, B, V) ==
    /\ ack \in Ack /\ ack.last = A % SeqSpan
    /\ A \in Nat /\ B \in Nat /\ A - B < HistorySize
    /\ V \subseteq B .. A /\ A \in V
    /\ \/ /\ ack.kind = "range" /\ ack.first = B % SeqSpan /\ B .. A \subseteq V
       \/ /\ ack.kind = "bits" /\ \A d \in ack.bits : \E v \in V : d = A - v

\* The peer reads from the frame what the history held, if the datagram it looks
\* at is within half of the sequence space of the range.
LEMMA AckedFacts ==
    ASSUME NEW ack, NEW A, NEW B, NEW V, Claims(ack, A, B, V),
           NEW r \in Nat, r - B < SeqSpan, A - r < Half, IsAcked(ack, r % SeqSpan)
    PROVE  r \in V
<1>1. /\ A \in Nat /\ B \in Nat /\ A - B < HistorySize /\ V \subseteq B .. A /\ A \in V
      /\ ack.last = A % SeqSpan /\ B <= A
  BY DEF Claims
<1>2. /\ SeqSpan \in Nat \ {0} /\ HistorySize \in Nat \ {0} /\ Half \in Nat
      /\ HistorySize <= Half /\ 2 * Half <= SeqSpan /\ SeqSpan <= 2 * Half + 1
  BY ConstantFacts
<1>3. ASSUME NEW v \in Int, B <= v, v <= A, r % SeqSpan = v % SeqSpan PROVE r = v
  <2>1. r - v < SeqSpan /\ v - r < SeqSpan /\ r \in Int
    BY <1>1, <1>2, <1>3
  <2> QED BY <1>2, <1>3, <2>1, ResidueWindow
<1>4. ASSUME r % SeqSpan = ack.last PROVE r = A
  <2>1. A \in Int /\ B <= A /\ A <= A /\ r % SeqSpan = A % SeqSpan
    BY <1>1, <1>4
  <2> QED BY <1>3, <2>1
<1>5. CASE ack.kind = "range"
  <2>1. ack.first = B % SeqSpan /\ B .. A \subseteq V /\ RangeAcks(ack, r % SeqSpan)
    BY <1>5 DEF Claims, IsAcked
  <2>2. CASE r % SeqSpan = ack.first
    <3>1. B \in Int /\ B <= B /\ B <= A /\ r % SeqSpan = B % SeqSpan
      BY <1>1, <2>1, <2>2
    <3>2. r = B /\ B \in B .. A
      BY <1>1, <1>3, <3>1
    <3> QED BY <2>1, <3>2
  <2>3. CASE r % SeqSpan = ack.last
    BY <1>1, <1>4, <2>3
  <2>4. CASE SeqLess(ack.first, r % SeqSpan) /\ SeqLess(r % SeqSpan, ack.last)
    <3>1. /\ SeqDist(B % SeqSpan, r % SeqSpan) < Half
          /\ SeqDist(r % SeqSpan, A % SeqSpan) < Half
      BY <1>1, <2>1, <2>4 DEF SeqLess, Half
    <3>2. B <= r
      <4> SUFFICES ASSUME r < B PROVE FALSE
        BY <1>1
      <4>1. B \in Int /\ r \in Int /\ r - B < 0 /\ -SeqSpan <= r - B
        BY <1>1, <1>2
      <4>2. SeqDist(B % SeqSpan, r % SeqSpan) = r - B + SeqSpan
        BY <4>1, SeqDistance
      <4> QED BY <1>1, <1>2, <3>1, <4>2
    <3>3. r <= A
      <4> SUFFICES ASSUME A < r PROVE FALSE
        BY <1>1
      <4>1. A \in Int /\ B \in Int /\ r \in Int /\ A - r < 0 /\ -SeqSpan <= A - r
            /\ 0 <= r - B /\ r - B < SeqSpan
        BY <1>1, <1>2
      <4>2. SeqDist(r % SeqSpan, A % SeqSpan) = A - r + SeqSpan
        BY <4>1, SeqDistance
      <4>3. SeqDist(B % SeqSpan, r % SeqSpan) = r - B
        BY <4>1, SeqDistance
      <4> QED BY <1>1, <1>2, <3>1, <4>2, <4>3
    <3>4. r \in B .. A
      BY <1>1, <3>2, <3>3
    <3> QED BY <2>1, <3>4
  <2> QED BY <2>1, <2>2, <2>3, <2>4 DEF RangeAcks
<1>6. CASE ack.kind = "bits"
  <2>1. BitsAcks(ack, r % SeqSpan) /\ \A d \in ack.bits : \E v \in V : d = A - v
    BY <1>6 DEF Claims, IsAcked
  <2>2. CASE r % SeqSpan = ack.last
    BY <1>1, <1>4, <2>2
  <2>3. CASE SeqDist(r % SeqSpan, ack.last) \in ack.bits
    <3>1. PICK v \in V : SeqDist(r % SeqSpan, ack.last) = A - v
      BY <2>1, <2>3
    <3>2. v \in Int /\ B <= v /\ v <= A
      BY <1>1
    <3>3. SeqDist(r % SeqSpan, A % SeqSpan) = (A - r) % SeqSpan
      <4>1. r \in Int /\ A \in Int
        BY <1>1
      <4> QED BY <4>1, SeqDistance
    <3>4. PICK x, y : x = A - r /\ y = A - v
      OBVIOUS
    <3>5. x % SeqSpan = y /\ x \in Int /\ y \in Int
      BY <1>1, <3>1, <3>2, <3>3, <3>4
    <3>6. x = y
      <4>1. y % SeqSpan = y
        <5>1. 0 <= y /\ y < SeqSpan
          BY <1>1, <1>2, <3>2, <3>4
        <5> QED BY <1>2, <3>5, <5>1, ResidueSmall
      <4>2. x - y < SeqSpan /\ y - x < SeqSpan
        BY <1>1, <1>2, <3>2, <3>4
      <4> QED BY <1>2, <3>5, <4>1, <4>2, ResidueWindow
    <3>7. r = v
      BY <1>1, <3>2, <3>4, <3>6
    <3> QED BY <3>7
  <2> QED BY <2>1, <2>2, <2>3 DEF BitsAcks
<1> QED BY <1>5, <1>6 DEF IsAcked

\* The bits of the frame are distances from the last rank L.
LEMMA DistanceFacts ==
    ASSUME NEW h, NEW rank, NEW N \in Nat, Slotted(h, rank, N), NEW F, NEW L,
           Ranged(h, rank, F, L), NEW d \in Distances(h, L % SeqSpan)
    PROVE  d \in 1 .. SeqSpan /\ \E v \in {rank[i] : i \in ValidSlots(h)} : d = L - v
<1>1. PICK j \in ValidSlots(h) : d = SeqDist(h.el[j].seq, L % SeqSpan) /\ d # 0
  BY DEF Distances
<1>2. /\ F \in Nat /\ L \in Nat /\ L - F < HistorySize /\ j \in Slots
      /\ rank[j] \in Int /\ F <= rank[j] /\ rank[j] <= L
  BY RangeTypes
<1>3. h.el[j].seq = rank[j] % SeqSpan
  BY <1>2 DEF Slotted
<1>4. 0 <= L - rank[j] /\ L - rank[j] < SeqSpan /\ L \in Int
  BY <1>2, ConstantFacts
<1>5. d = L - rank[j]
  BY <1>1, <1>2, <1>3, <1>4, SeqDistance
<1> QED BY <1>1, <1>2, <1>4, <1>5, ConstantFacts

LEMMA BitmapFacts == ASSUME NEW dist \in Nat PROVE BitmapBits(dist) \in Nat
<1>1. HistorySize \in Nat /\ ByteBits \in Nat \ {0}
  BY ConstantFacts
<1>2. PICK a, b : a = dist + ByteBits - 1 /\ b = a \div ByteBits
  OBVIOUS
<1>3. a \in Int /\ b \in Int /\ a = ByteBits * b + (a % ByteBits)
      /\ a % ByteBits \in 0 .. ByteBits - 1
  <2>1. a \in Int
    BY <1>1, <1>2
  <2> QED BY <1>1, <1>2, <2>1, Division
<1>4. CASE b * ByteBits <= HistorySize
  <2>1. b \in Nat
    <3> SUFFICES ASSUME b <= -1 PROVE FALSE
      BY <1>3
    <3>1. 0 <= a
      BY <1>1, <1>2
    <3>2. PICK c : c = a % ByteBits
      OBVIOUS
    <3>3. c <= ByteBits - 1 /\ a = ByteBits * b + c /\ c \in Int
      BY <1>3, <3>2
    <3>4. ByteBits * b <= ByteBits * (-1)
      <4>1. PICK m : m = -1 - b
        OBVIOUS
      <4>2. m \in Nat /\ b = -1 - m
        BY <1>3, <4>1
      <4>3. ByteBits * m >= 0
        BY <1>1, <4>2
      <4>4. ByteBits * b = ByteBits * (-1) - ByteBits * m
        BY <1>1, <4>2
      <4> QED BY <1>1, <4>2, <4>3, <4>4
    <3> QED BY <1>1, <1>3, <3>1, <3>3, <3>4
  <2>2. b * ByteBits \in Nat
    BY <1>1, <2>1
  <2> QED BY <1>2, <1>4, <2>2 DEF BitmapBits
<1>5. CASE ~(b * ByteBits <= HistorySize)
  BY <1>1, <1>2, <1>5 DEF BitmapBits
<1> QED BY <1>4, <1>5

\* What a frame written from h, and the history after it, must be.
Written(w, h, rank, N) ==
    /\ Sound(w.h, rank, N) /\ ValidSlots(w.h) \subseteq ValidSlots(h)
    /\ \E A, B \in Nat : /\ Claims(w.ack, A, B, {rank[i] : i \in ValidSlots(h)})
                         /\ N - HistorySize < B /\ A <= N

\* write_ack_history keeps the history sound and claims no more than it holds.
LEMMA WriteAckSound ==
    ASSUME NEW h, NEW rank, NEW N \in Nat, Sound(h, rank, N), h.active # 0
    PROVE  Written(WriteAckHistory(h), h, rank, N)
<1>1. Slotted(h, rank, N) /\ h.active \in Nat /\ h \in Shape
  BY ActiveFacts DEF Sound, Slotted
<1>2. PICK F, L \in Nat : Ranged(h, rank, F, L) /\ N - HistorySize < F /\ L <= N
  BY DEF Sound
<1>3. /\ F \in Nat \ {0} /\ L \in Nat /\ F <= L /\ L - F < HistorySize
      /\ HistorySize \in Nat \ {0}
      /\ \A k \in ValidSlots(h) : /\ k \in Slots /\ rank[k] \in Int
                                  /\ F <= rank[k] /\ rank[k] <= L
  BY <1>1, <1>2, RangeTypes
<1>4. /\ h.first = F % HistorySize /\ rank[F % HistorySize] = F
      /\ LastIndex(h) = L % HistorySize /\ rank[L % HistorySize] = L
      /\ IsValid(h, L % HistorySize)
  <2>1. h.last = (L + 1) % HistorySize /\ L \in Int
    BY <1>2, <1>3 DEF Ranged
  <2> QED BY <1>2, <2>1, LastSlot DEF Ranged
<1>5. F % HistorySize \in Slots /\ L % HistorySize \in Slots
      /\ F % SeqSpan \in SeqNums /\ L % SeqSpan \in SeqNums
  BY <1>3, SlotFacts
<1>6. h.el[h.first].seq = F % SeqSpan /\ h.el[LastIndex(h)].seq = L % SeqSpan
  BY <1>1, <1>4, <1>5 DEF Slotted
<1>7. SeqDist(F % SeqSpan, L % SeqSpan) = L - F
  <2>1. 0 <= L - F /\ L - F < SeqSpan /\ F \in Int /\ L \in Int
    BY <1>3, ConstantFacts
  <2> QED BY <2>1, SeqDistance
<1>8. PICK g : g = GetForAck(h, LastIndex(h)).h
  OBVIOUS
<1>9. Sound(g, rank, N) /\ ValidSlots(g) \subseteq ValidSlots(h)
  <2>1. LastIndex(h) \in ValidSlots(h)
    BY <1>4, <1>5 DEF ValidSlots
  <2> QED BY <1>8, <2>1, GetForAckSound
<1>10. PICK w : w = AckWalk(g, h.first, L % SeqSpan)
  OBVIOUS
<1>11. /\ Sound(w.h, rank, N) /\ ValidSlots(w.h) \subseteq ValidSlots(h)
       /\ w.bits \subseteq Distances(h, L % SeqSpan)
  <2>1. h.first \in Slots
    BY <1>1, ShapeFacts
  <2>2. w \in Walking(h, rank, N, L % SeqSpan)
    BY <1>9, <1>10, <2>1, AckWalkSound
  <2> QED BY <2>2 DEF Walking
<1>12. PICK V : V = {rank[i] : i \in ValidSlots(h)}
  OBVIOUS
<1>13. V \subseteq F .. L /\ L \in V /\ V \in SUBSET Nat
  <2>1. L % HistorySize \in ValidSlots(h)
    BY <1>4, <1>5 DEF ValidSlots
  <2> QED BY <1>3, <1>4, <1>12, <2>1
<1>14. PICK y : y = WriteAckHistory(h)
  OBVIOUS
<1>15. y = IF L - F = 0
           THEN [h |-> g, ack |-> RangeAck(L % SeqSpan, L % SeqSpan)]
           ELSE IF L - F = h.active - 1
           THEN [h |-> w.h, ack |-> RangeAck(F % SeqSpan, L % SeqSpan)]
           ELSE [h |-> w.h, ack |-> BitsAck(L % SeqSpan, BitmapBits(L - F),
                                            w.bits \cap (1 .. BitmapBits(L - F)))]
  BY <1>6, <1>7, <1>8, <1>10, <1>14 DEF WriteAckHistory
<1>16. ASSUME NEW a \in SeqNums, NEW b \in SeqNums
       PROVE  /\ RangeAck(a, b) \in Ack /\ RangeAck(a, b).kind = "range"
              /\ RangeAck(a, b).first = a /\ RangeAck(a, b).last = b
  BY DEF RangeAck, Ack
<1>17. CASE L - F = 0
  <2>1. L = F
    BY <1>3, <1>17
  <2>2. y.h = g /\ y.ack = RangeAck(F % SeqSpan, L % SeqSpan)
    BY <1>15, <1>17, <2>1
  <2>3. F .. L \subseteq V
    BY <1>3, <1>13, <2>1
  <2>4. Claims(y.ack, L, F, V)
    BY <1>3, <1>5, <1>13, <1>16, <2>2, <2>3 DEF Claims
  <2> QED BY <1>2, <1>9, <1>12, <1>14, <2>2, <2>4 DEF Written
<1>18. CASE L - F # 0 /\ L - F = h.active - 1
  <2>1. y.h = w.h /\ y.ack = RangeAck(F % SeqSpan, L % SeqSpan)
    BY <1>15, <1>18
  <2>2. h.active = L - F + 1
    BY <1>1, <1>3, <1>18
  <2>3. F .. L \subseteq V
    BY <1>1, <1>2, <1>12, <2>2, FullRange
  <2>4. Claims(y.ack, L, F, V)
    BY <1>3, <1>5, <1>13, <1>16, <2>1, <2>3 DEF Claims
  <2> QED BY <1>2, <1>11, <1>12, <1>14, <2>1, <2>4 DEF Written
<1>19. CASE L - F # 0 /\ L - F # h.active - 1
  <2>1. PICK n, b : n = BitmapBits(L - F) /\ b = w.bits \cap (1 .. n)
    OBVIOUS
  <2>2. y.h = w.h /\ y.ack = BitsAck(L % SeqSpan, n, b)
    BY <1>15, <1>19, <2>1
  <2>3. n \in Nat
    <3>1. L - F \in Nat
      BY <1>3
    <3> QED BY <2>1, <3>1, BitmapFacts
  <2>4. \A d \in b : d \in 1 .. SeqSpan /\ \E v \in V : d = L - v
    <3>1. \A d \in Distances(h, L % SeqSpan) : d \in 1 .. SeqSpan /\ \E v \in V : d = L - v
      BY <1>1, <1>2, <1>12, DistanceFacts
    <3> QED BY <1>11, <2>1, <3>1
  <2>5. y.ack \in Ack /\ y.ack.kind = "bits" /\ y.ack.last = L % SeqSpan /\ y.ack.bits = b
    <3>1. 0 \in SeqNums
      BY ConstantFacts DEF SeqNums
    <3> QED BY <1>5, <2>2, <2>3, <2>4, <3>1 DEF BitsAck, Ack
  <2>6. Claims(y.ack, L, F, V)
    BY <1>3, <1>13, <2>4, <2>5 DEF Claims
  <2> QED BY <1>2, <1>11, <1>12, <1>14, <2>2, <2>6 DEF Written
<1> QED BY <1>17, <1>18, <1>19

-----------------------------------------------------------------------------
(* The inductive invariant.                                                *)

\* The sender is less than half of the sequence space ahead of what it keeps and
\* of the newest arrival.
Near ==
    /\ lastSent - newest <= MaxAhead
    /\ \A r \in unacked : lastSent - r <= MaxAhead

\* Of the ranks the history holds, those the sender still keeps arrived.
Held(h, rank, N, un, arr) ==
    /\ Sound(h, rank, N)
    /\ \A i \in ValidSlots(h) : rank[i] \in un => rank[i] \in arr

\* An ACK frame in flight claims ranks of which those the sender still keeps
\* arrived, and it is recent enough for the sender to tell which ranks it means.
Trusted(ack, upTo, un, arr) ==
    ack.kind = "keepalive" \/
    \E A, B \in Nat, V \in SUBSET Nat :
        /\ Claims(ack, A, B, V) /\ A <= upTo /\ upTo - B <= 2 * Half - 2
        /\ V \cap un \subseteq arr

IndInv ==
    /\ lastSent \in 1 .. MaxDatagram /\ newest \in 1 .. lastSent
    /\ unacked \subseteq 2 .. lastSent /\ arrived \subseteq unacked
    /\ acks \in Seq(Ack)
    /\ Near
    /\ \E rank : Held(history, rank, newest, unacked, arrived)
    /\ \A k \in 1 .. Len(acks) : Trusted(acks[k], lastSent, unacked, arrived)

LEMMA BoundFacts ==
    /\ MaxDatagram \in Nat \ {0} /\ MaxAhead \in Nat \ {0} /\ MaxAhead <= Half - 1
    /\ MaxLate \in Nat /\ MaxLate <= HistorySize - 1 /\ 2 <= Half
BY DatagramHistoryAssumption, ConstantFacts DEF Half

\* What the sender drops because of a frame arrived.
LEMMA TrustedFacts ==
    ASSUME NEW ack, NEW upTo \in Nat, NEW un \in SUBSET (2 .. upTo), NEW arr,
           Trusted(ack, upTo, un, arr), NEW r \in un, upTo - r <= MaxAhead,
           IsAcked(ack, r % SeqSpan)
    PROVE  r \in arr
<1>1. ack.kind # "keepalive"
  BY DEF IsAcked
<1>2. PICK A, B \in Nat, V \in SUBSET Nat :
          /\ Claims(ack, A, B, V) /\ A <= upTo /\ upTo - B <= 2 * Half - 2
          /\ V \cap un \subseteq arr
  BY <1>1 DEF Trusted
<1>3. r \in Nat /\ r <= upTo
  OBVIOUS
<1>4. r - B < SeqSpan /\ A - r < Half
  BY <1>2, <1>3, ConstantFacts, BoundFacts
<1>5. r \in V
  BY <1>2, <1>3, <1>4, AckedFacts
<1> QED BY <1>2, <1>5

\* The claims of a frame stay trusted while the sender goes on.
LEMMA TrustedKept ==
    ASSUME NEW ack, NEW upTo \in Nat, NEW un, NEW arr, Trusted(ack, upTo, un, arr),
           NEW un2, NEW arr2, un2 \subseteq un, arr \cap un2 \subseteq arr2
    PROVE  Trusted(ack, upTo, un2, arr2)
<1>1. CASE ack.kind = "keepalive"
  BY <1>1 DEF Trusted
<1>2. CASE ack.kind # "keepalive"
  <2>1. PICK A, B \in Nat, V \in SUBSET Nat :
            /\ Claims(ack, A, B, V) /\ A <= upTo /\ upTo - B <= 2 * Half - 2
            /\ V \cap un \subseteq arr
    BY <1>2 DEF Trusted
  <2>2. V \cap un2 \subseteq arr2
    BY <2>1
  <2> QED BY <2>1, <2>2 DEF Trusted
<1> QED BY <1>1, <1>2

LEMMA TrustedSent ==
    ASSUME NEW ack, NEW upTo \in Nat, NEW un, NEW arr, Trusted(ack, upTo, un, arr),
           ack.kind # "keepalive" =>
               SeqDist(ack.last, (upTo + 1) % SeqSpan) < SeqSpan \div 2
    PROVE  Trusted(ack, upTo + 1, un \cup {upTo + 1}, arr)
<1>1. CASE ack.kind = "keepalive"
  BY <1>1 DEF Trusted
<1>2. CASE ack.kind # "keepalive"
  <2>1. PICK A, B \in Nat, V \in SUBSET Nat :
            /\ Claims(ack, A, B, V) /\ A <= upTo /\ upTo - B <= 2 * Half - 2
            /\ V \cap un \subseteq arr
    BY <1>2 DEF Trusted
  <2>2. /\ ack.last = A % SeqSpan /\ A - B < HistorySize /\ V \subseteq B .. A /\ B <= A
    BY <2>1 DEF Claims
  <2>3. PICK s : s = upTo + 1
    OBVIOUS
  <2>4. 0 <= s - A /\ s - A < SeqSpan /\ A \in Int /\ s \in Int
    BY <2>1, <2>2, <2>3, ConstantFacts
  <2>5. SeqDist(A % SeqSpan, s % SeqSpan) = s - A
    BY <2>4, SeqDistance
  <2>6. s - A < Half
    BY <1>2, <2>2, <2>3, <2>5 DEF Half
  <2>7. A <= s /\ s - B <= 2 * Half - 2
    BY <2>1, <2>2, <2>3, <2>4, <2>6, ConstantFacts
  <2>8. s \notin V
    BY <2>1, <2>2, <2>3
  <2>9. V \cap (un \cup {s}) \subseteq arr
    BY <2>1, <2>8
  <2> QED BY <2>1, <2>3, <2>7, <2>9 DEF Trusted
<1> QED BY <1>1, <1>2

\* The new history has no used slot.
\* Nothing arrived yet.
LEMMA NewHistorySound ==
    ASSUME 2 <= Half, NEW rank, rank = [i \in Slots |-> 0]
    PROVE  Sound(NewHistory, rank, 1) /\ ValidSlots(NewHistory) = {} /\ NewHistory.active = 0
<1>1. NewHistory \in Shape /\ rank \in Ranks /\ \A i \in Slots : rank[i] = 0
  BY ConstantFacts DEF NewHistory, Shape, Ranks, Slots, SeqNums
<1>2. \A i \in Slots : NewHistory.el[i].seq = 0 /\ ~IsValid(NewHistory, i)
  BY DEF NewHistory, IsValid
<1>3. ValidSlots(NewHistory) = {} /\ NewHistory.active = 0
  BY <1>2 DEF ValidSlots, NewHistory
<1>4. 0 % SeqSpan = 0
  BY ConstantFacts
<1>5. Slotted(NewHistory, rank, 1)
  <2>1. 1 - Half < 0
    BY ConstantFacts
  <2>2. Cardinality({}) = 0
    BY FS_EmptySet
  <2> QED BY <1>1, <1>2, <1>3, <1>4, <2>1, <2>2 DEF Slotted
<1> QED BY <1>3, <1>5 DEF Sound

LEMMA InitInv == ASSUME Init PROVE IndInv
<1>1. PICK rank : rank = [i \in Slots |-> 0]
  OBVIOUS
<1>2. Sound(NewHistory, rank, 1) /\ ValidSlots(NewHistory) = {}
  BY <1>1, BoundFacts, NewHistorySound
<1>3. Held(NewHistory, rank, 1, {}, {})
  BY <1>2 DEF Held
<1>4. \E x : Held(history, x, newest, unacked, arrived)
  BY <1>3 DEF Init
<1>5. acks \in Seq(Ack) /\ Len(acks) = 0
  BY DEF Init
<1>6. lastSent \in 1 .. MaxDatagram /\ newest \in 1 .. lastSent
      /\ unacked \subseteq 2 .. lastSent /\ arrived \subseteq unacked /\ Near
  BY BoundFacts DEF Init, Near
<1> QED BY <1>4, <1>5, <1>6 DEF IndInv

LEMMA SendInv == ASSUME IndInv, Send PROVE IndInv'
<1>1. /\ lastSent < MaxDatagram /\ lastSent + 1 - newest <= MaxAhead
      /\ unacked # {} => lastSent + 1 - OldestUnacked <= MaxAhead
      /\ \A k \in 1 .. Len(acks) : acks[k].kind # "keepalive" =>
            SeqDist(acks[k].last, (lastSent + 1) % SeqSpan) < SeqSpan \div 2
      /\ lastSent' = lastSent + 1 /\ unacked' = unacked \cup {lastSent + 1}
      /\ UNCHANGED <<newest, arrived, history, acks>>
  BY DEF Send
<1>2. /\ lastSent \in 1 .. MaxDatagram /\ newest \in 1 .. lastSent
      /\ unacked \subseteq 2 .. lastSent /\ arrived \subseteq unacked
      /\ acks \in Seq(Ack) /\ Near
      /\ \A k \in 1 .. Len(acks) : Trusted(acks[k], lastSent, unacked, arrived)
  BY DEF IndInv
<1>3. lastSent \in Nat /\ lastSent >= 1 /\ newest \in Nat
  BY <1>2, BoundFacts
<1>4. /\ lastSent' \in 1 .. MaxDatagram /\ newest' \in 1 .. lastSent'
      /\ unacked' \subseteq 2 .. lastSent' /\ arrived' \subseteq unacked' /\ acks' \in Seq(Ack)
  BY <1>1, <1>2, <1>3, BoundFacts
<1>5. Near'
  <2>1. ASSUME NEW r \in unacked' PROVE lastSent' - r <= MaxAhead
    <3>1. CASE r = lastSent + 1
      BY <1>1, <1>3, <3>1, BoundFacts
    <3>2. CASE r \in unacked
      <4>1. unacked \in SUBSET Nat /\ unacked # {}
        BY <1>2, <1>3, <3>2
      <4>2. \E t \in unacked : \A u \in unacked : t <= u
        BY <4>1, LeastOf
      <4>3. OldestUnacked \in unacked /\ OldestUnacked <= r
        BY <3>2, <4>2 DEF OldestUnacked
      <4>4. lastSent + 1 - OldestUnacked <= MaxAhead /\ OldestUnacked \in Nat /\ r \in Nat
        BY <1>1, <3>2, <4>1, <4>3
      <4> QED BY <1>1, <1>3, <4>3, <4>4, BoundFacts
    <3> QED BY <1>1, <3>1, <3>2
  <2>2. lastSent' - newest' <= MaxAhead
    <3>1. lastSent' = lastSent + 1 /\ newest' = newest /\ lastSent + 1 - newest <= MaxAhead
      BY <1>1
    <3> QED BY <1>3, <3>1, BoundFacts
  <2> QED BY <2>1, <2>2 DEF Near
<1>6. \E rank : Held(history', rank, newest', unacked', arrived')
  <2>1. PICK rank : Held(history, rank, newest, unacked, arrived)
    BY DEF IndInv
  <2>2. ASSUME NEW i \in ValidSlots(history) PROVE rank[i] # lastSent + 1
    <3>1. rank[i] \in Int /\ rank[i] <= newest
      BY <2>1 DEF Held, Sound, Slotted, Ranks, ValidSlots
    <3> QED BY <1>2, <1>3, <3>1
  <2>3. Held(history, rank, newest, unacked \cup {lastSent + 1}, arrived)
    BY <2>1, <2>2 DEF Held
  <2> QED BY <1>1, <2>3
<1>7. ASSUME NEW k \in 1 .. Len(acks)
      PROVE  Trusted(acks[k], lastSent + 1, unacked \cup {lastSent + 1}, arrived)
  <2>1. PICK a : a = acks[k]
    OBVIOUS
  <2>2. /\ Trusted(a, lastSent, unacked, arrived)
        /\ a.kind # "keepalive" =>
               SeqDist(a.last, (lastSent + 1) % SeqSpan) < SeqSpan \div 2
    BY <1>1, <1>2, <2>1
  <2>3. Trusted(a, lastSent + 1, unacked \cup {lastSent + 1}, arrived)
    BY ONLY <1>3, <2>2, TrustedSent
  <2> QED BY <2>1, <2>3
<1>8. \A k \in 1 .. Len(acks') : Trusted(acks'[k], lastSent', unacked', arrived')
  BY <1>1, <1>7
<1> QED BY <1>4, <1>5, <1>6, <1>8 DEF IndInv

\* The network delivers only what the ring can tell from its slots.
LEMMA DeliverableFacts ==
    ASSUME IndInv, NEW r \in 2 .. lastSent, Deliverable(r), NEW rank,
           Sound(history, rank, newest)
    PROVE  Arriving(history, rank, newest, r)
<1>1. /\ lastSent \in Nat /\ newest \in Nat /\ lastSent - newest <= MaxAhead
      /\ r \in Nat \ {0} /\ r <= lastSent
  BY BoundFacts DEF IndInv, Near
<1>2. newest - HistorySize < r
  <2>1. r + MaxLate >= newest
    BY DEF Deliverable
  <2> QED BY <1>1, <2>1, BoundFacts, ConstantFacts
<1>3. Slotted(history, rank, newest)
  BY DEF Sound
<1>4. ASSUME NEW j \in Slots PROVE r - rank[j] < Half
  <2>1. /\ rank[j] \in Int /\ rank[j] <= newest /\ newest - Half < rank[j]
        /\ history.el[j].seq = rank[j] % SeqSpan
    BY <1>3 DEF Slotted, Ranks
  <2>2. CASE r <= newest
    BY <1>1, <2>1, <2>2, ConstantFacts
  <2>3. CASE newest < r
    <3>1. SeqDist(rank[j] % SeqSpan, r % SeqSpan) < Half
      BY <1>1, <2>1, <2>3 DEF Deliverable, Half
    <3>2. 0 <= r - rank[j] /\ r - rank[j] < SeqSpan /\ r \in Int
      BY <1>1, <2>1, <2>3, BoundFacts, ConstantFacts
    <3>3. SeqDist(rank[j] % SeqSpan, r % SeqSpan) = r - rank[j]
      BY <2>1, <3>2, SeqDistance
    <3> QED BY <3>1, <3>3
  <2> QED BY <1>1, <2>2, <2>3
<1> QED BY <1>1, <1>2, <1>3, <1>4 DEF Arriving

LEMMA ArriveInv == ASSUME IndInv, NEW r \in 2 .. lastSent, Arrive(r) PROVE IndInv'
<1>1. /\ Deliverable(r) /\ history' = Insert(history, r % SeqSpan)
      /\ newest' = Newest(newest, r) /\ arrived' = arrived \cup ({r} \cap unacked)
      /\ lastSent' = lastSent /\ unacked' = unacked /\ acks' = acks
  BY DEF Arrive, Newest
<1>2. /\ lastSent \in 1 .. MaxDatagram /\ newest \in 1 .. lastSent
      /\ unacked \subseteq 2 .. lastSent /\ arrived \subseteq unacked
      /\ acks \in Seq(Ack) /\ Near
      /\ \A k \in 1 .. Len(acks) : Trusted(acks[k], lastSent, unacked, arrived)
  BY DEF IndInv
<1>3. lastSent \in Nat /\ newest \in Nat /\ r \in Nat
  BY <1>2, BoundFacts
<1>4. PICK rank : Held(history, rank, newest, unacked, arrived)
  BY DEF IndInv
<1>5. Arriving(history, rank, newest, r) /\ Sound(history, rank, newest)
  BY <1>1, <1>4, DeliverableFacts DEF Held
<1>6. newest' \in Nat /\ newest <= newest' /\ newest' \in 1 .. lastSent'
  <2>1. CASE r > newest
    BY <1>1, <1>2, <1>3, <2>1 DEF Newest
  <2>2. CASE ~(r > newest)
    BY <1>1, <1>2, <1>3, <2>2 DEF Newest
  <2> QED BY <2>1, <2>2
<1>7. \E rank2 : Held(history', rank2, newest', unacked', arrived')
  <2>1. history.active # 0 => ~SeqLess(r % SeqSpan, history.el[history.first].seq)
    BY <1>1 DEF Deliverable
  <2>2. PICK rank2 : Entered(Insert(history, r % SeqSpan), rank2, history, rank, newest, r)
    BY <1>3, <1>5, <2>1, InsertSound
  <2>3. /\ Sound(history', rank2, newest')
        /\ \A i \in ValidSlots(history') :
              rank2[i] = r \/ (i \in ValidSlots(history) /\ rank2[i] = rank[i])
    BY <1>1, <2>2 DEF Entered
  <2>4. ASSUME NEW i \in ValidSlots(history'), rank2[i] \in unacked'
        PROVE  rank2[i] \in arrived'
    <3>1. CASE rank2[i] = r
      BY <1>1, <2>4, <3>1
    <3>2. CASE i \in ValidSlots(history) /\ rank2[i] = rank[i]
      <4>1. rank[i] \in arrived
        BY <1>1, <1>4, <2>4, <3>2 DEF Held
      <4> QED BY <1>1, <3>2, <4>1
    <3> QED BY <2>3, <3>1, <3>2
  <2> QED BY <2>3, <2>4 DEF Held
<1>8. Near'
  <2>1. lastSent - newest <= MaxAhead /\ \A s \in unacked : lastSent - s <= MaxAhead
    BY <1>2 DEF Near
  <2>2. lastSent - newest' <= MaxAhead
    <3>1. PICK n : n = newest'
      OBVIOUS
    <3>2. n \in Nat /\ newest <= n /\ lastSent - newest <= MaxAhead
      BY <1>6, <2>1, <3>1
    <3>3. lastSent - n <= MaxAhead
      BY ONLY <1>3, <3>2, BoundFacts
    <3> QED BY <3>1, <3>3
  <2> QED BY <1>1, <2>1, <2>2 DEF Near
<1>9. ASSUME NEW k \in 1 .. Len(acks) PROVE Trusted(acks[k], lastSent, unacked, arrived')
  <2>1. Trusted(acks[k], lastSent, unacked, arrived)
    BY <1>2
  <2>2. arrived \cap unacked \subseteq arrived' /\ unacked \subseteq unacked
    BY <1>1
  <2> QED BY <1>3, <2>1, <2>2, TrustedKept
<1>10. \A k \in 1 .. Len(acks') : Trusted(acks'[k], lastSent', unacked', arrived')
  BY <1>1, <1>9
<1>11. /\ lastSent' \in 1 .. MaxDatagram /\ acks' \in Seq(Ack)
       /\ unacked' \subseteq 2 .. lastSent' /\ arrived' \subseteq unacked'
  BY <1>1, <1>2
<1> QED BY <1>6, <1>7, <1>8, <1>10, <1>11 DEF IndInv

LEMMA SendAckInv == ASSUME IndInv, SendAck PROVE IndInv'
<1>1. PICK w : w = WriteAckHistory(history)
  OBVIOUS
<1>2. /\ history' = w.h /\ acks' = Append(acks, w.ack)
      /\ lastSent' = lastSent /\ unacked' = unacked /\ newest' = newest /\ arrived' = arrived
  BY <1>1 DEF SendAck
<1>3. /\ lastSent \in 1 .. MaxDatagram /\ newest \in 1 .. lastSent
      /\ unacked \subseteq 2 .. lastSent /\ arrived \subseteq unacked
      /\ acks \in Seq(Ack) /\ Near
      /\ \A k \in 1 .. Len(acks) : Trusted(acks[k], lastSent, unacked, arrived)
  BY DEF IndInv
<1>4. lastSent \in Nat /\ newest \in Nat
  BY <1>3, BoundFacts
<1>5. PICK rank : Held(history, rank, newest, unacked, arrived)
  BY DEF IndInv
<1>6. Sound(history, rank, newest)
      /\ \A i \in ValidSlots(history) : rank[i] \in unacked => rank[i] \in arrived
  BY <1>5 DEF Held
<1>7. /\ Held(w.h, rank, newest, unacked, arrived)
      /\ w.ack \in Ack /\ Trusted(w.ack, lastSent, unacked, arrived)
  <2>1. CASE history.active = 0
    <3>1. w.h = history /\ w.ack = KeepAlive
      BY <1>1, <2>1 DEF WriteAckHistory
    <3>2. KeepAlive \in Ack /\ KeepAlive.kind = "keepalive"
      BY ConstantFacts DEF KeepAlive, Ack, SeqNums
    <3> QED BY <1>5, <3>1, <3>2 DEF Trusted
  <2>2. CASE history.active # 0
    <3>1. PICK V : V = {rank[i] : i \in ValidSlots(history)}
      OBVIOUS
    <3>2. /\ Sound(w.h, rank, newest) /\ ValidSlots(w.h) \subseteq ValidSlots(history)
          /\ \E A, B \in Nat : /\ Claims(w.ack, A, B, V)
                               /\ newest - HistorySize < B /\ A <= newest
      <4>1. Written(WriteAckHistory(history), history, rank, newest)
        BY <1>4, <1>6, <2>2, WriteAckSound
      <4> QED BY <1>1, <3>1, <4>1 DEF Written
    <3>3. PICK A, B \in Nat : /\ Claims(w.ack, A, B, V)
                              /\ newest - HistorySize < B /\ A <= newest
      BY <3>2
    <3>4. V \cap unacked \subseteq arrived
      BY <1>6, <3>1
    <3>5. w.ack \in Ack /\ V \in SUBSET Nat
      BY <3>3 DEF Claims
    <3>6. A <= lastSent /\ lastSent - B <= 2 * Half - 2
      <4>1. lastSent - newest <= MaxAhead /\ newest <= lastSent
        BY <1>3, <1>4 DEF Near
      <4> QED BY <1>4, <3>3, <4>1, BoundFacts, ConstantFacts
    <3>7. Trusted(w.ack, lastSent, unacked, arrived)
      BY <3>3, <3>4, <3>5, <3>6 DEF Trusted
    <3>8. Held(w.h, rank, newest, unacked, arrived)
      BY <1>6, <3>2 DEF Held
    <3> QED BY <3>5, <3>7, <3>8
  <2> QED BY <2>1, <2>2
<1>8. /\ acks' \in Seq(Ack) /\ Len(acks') = Len(acks) + 1 /\ Len(acks) \in Nat
      /\ \A k \in 1 .. Len(acks) : acks'[k] = acks[k]
      /\ acks'[Len(acks) + 1] = w.ack
  BY <1>2, <1>3, <1>7, AppendProperties
<1>9. \A k \in 1 .. Len(acks') : Trusted(acks'[k], lastSent, unacked, arrived)
  <2> SUFFICES ASSUME NEW k \in 1 .. Len(acks')
               PROVE  Trusted(acks'[k], lastSent, unacked, arrived)
    OBVIOUS
  <2>1. k = Len(acks) + 1 \/ k \in 1 .. Len(acks)
    BY <1>8
  <2> QED BY <1>3, <1>7, <1>8, <2>1
<1>10. Near'
  BY <1>2, <1>3 DEF Near
<1>11. \E x : Held(history', x, newest', unacked', arrived')
  BY <1>2, <1>7
<1>12. \A k \in 1 .. Len(acks') : Trusted(acks'[k], lastSent', unacked', arrived')
  BY <1>2, <1>9
<1> QED BY <1>2, <1>3, <1>8, <1>10, <1>11, <1>12 DEF IndInv

\* A step after which the sender keeps less and the frames are those in flight,
\* or all but the first.
LEMMA PruneInv ==
    ASSUME IndInv, unacked' \subseteq unacked, arrived' = arrived \cap unacked',
           acks' = acks \/ (acks # << >> /\ acks' = Tail(acks)),
           lastSent' = lastSent, newest' = newest, history' = history
    PROVE  IndInv'
<1>1. /\ lastSent \in 1 .. MaxDatagram /\ newest \in 1 .. lastSent
      /\ unacked \subseteq 2 .. lastSent /\ arrived \subseteq unacked
      /\ acks \in Seq(Ack) /\ Near
      /\ \A k \in 1 .. Len(acks) : Trusted(acks[k], lastSent, unacked, arrived)
  BY DEF IndInv
<1>2. lastSent \in Nat
  BY <1>1, BoundFacts
<1>3. acks' \in Seq(Ack) /\ \A k \in 1 .. Len(acks') : \E j \in 1 .. Len(acks) : acks'[k] = acks[j]
  <2>1. CASE acks' = acks
    BY <1>1, <2>1
  <2>2. CASE acks # << >> /\ acks' = Tail(acks)
    <3>1. /\ Tail(acks) \in Seq(Ack) /\ Len(Tail(acks)) = Len(acks) - 1 /\ Len(acks) \in Nat
          /\ \A k \in 1 .. Len(Tail(acks)) : Tail(acks)[k] = acks[k + 1]
      BY <1>1, <2>2, HeadTailProperties
    <3>2. \A k \in 1 .. Len(Tail(acks)) : k + 1 \in 1 .. Len(acks)
      BY <3>1
    <3> QED BY <2>2, <3>1, <3>2
  <2> QED BY <2>1, <2>2
<1>4. ASSUME NEW k \in 1 .. Len(acks') PROVE Trusted(acks'[k], lastSent, unacked', arrived')
  <2>1. PICK j \in 1 .. Len(acks) : acks'[k] = acks[j]
    BY <1>3
  <2>2. Trusted(acks[j], lastSent, unacked, arrived)
    BY <1>1
  <2>3. arrived \cap unacked' \subseteq arrived' /\ unacked' \subseteq unacked
    OBVIOUS
  <2>4. Trusted(acks[j], lastSent, unacked', arrived')
    BY <1>2, <2>2, <2>3, TrustedKept
  <2> QED BY <2>1, <2>4
<1>5. Near'
  <2>1. \A r \in unacked' : r \in unacked
    OBVIOUS
  <2> QED BY <1>1, <2>1 DEF Near
<1>6. \E x : Held(history', x, newest', unacked', arrived')
  <2>1. PICK rank : Held(history, rank, newest, unacked, arrived)
    BY DEF IndInv
  <2>2. Held(history, rank, newest, unacked', arrived')
    BY <2>1 DEF Held
  <2> QED BY <2>2
<1>7. \A k \in 1 .. Len(acks') : Trusted(acks'[k], lastSent', unacked', arrived')
  BY <1>4
<1>8. /\ unacked' \subseteq 2 .. lastSent' /\ arrived' \subseteq unacked'
      /\ lastSent' \in 1 .. MaxDatagram /\ newest' \in 1 .. lastSent'
  BY <1>1
<1> QED BY <1>3, <1>5, <1>6, <1>7, <1>8 DEF IndInv

LEMMA NextInv == ASSUME IndInv, [Next]_vars PROVE IndInv'
<1>1. CASE Send
  BY <1>1, SendInv
<1>2. ASSUME NEW r \in 2 .. lastSent, Arrive(r) PROVE IndInv'
  BY <1>2, ArriveInv
<1>3. CASE SendAck
  BY <1>3, SendAckInv
<1>4. CASE ReceiveAck
  <2>1. /\ acks # << >> /\ unacked' = {r \in unacked : ~IsAcked(Head(acks), r % SeqSpan)}
        /\ arrived' = arrived \cap unacked' /\ acks' = Tail(acks)
        /\ lastSent' = lastSent /\ newest' = newest /\ history' = history
    BY <1>4 DEF ReceiveAck
  <2>2. unacked' \subseteq unacked
    BY <2>1
  <2> QED BY <2>1, <2>2, PruneInv
<1>5. CASE LoseAck
  <2>1. /\ acks # << >> /\ acks' = Tail(acks) /\ unacked' = unacked /\ arrived' = arrived
        /\ lastSent' = lastSent /\ newest' = newest /\ history' = history
    BY <1>5 DEF LoseAck
  <2>2. unacked' \subseteq unacked /\ arrived' = arrived \cap unacked'
    BY <2>1 DEF IndInv
  <2> QED BY <2>1, <2>2, PruneInv
<1>6. CASE Expire
  <2>1. /\ unacked' = unacked \ {OldestUnacked} /\ arrived' = arrived \cap unacked'
        /\ acks' = acks /\ lastSent' = lastSent /\ newest' = newest /\ history' = history
    BY <1>6 DEF Expire
  <2>2. unacked' \subseteq unacked
    BY <2>1
  <2> QED BY <2>1, <2>2, PruneInv
<1>7. CASE UNCHANGED vars
  <2>1. /\ acks' = acks /\ unacked' = unacked /\ arrived' = arrived
        /\ lastSent' = lastSent /\ newest' = newest /\ history' = history
    BY <1>7 DEF vars
  <2>2. unacked' \subseteq unacked /\ arrived' = arrived \cap unacked'
    BY <2>1 DEF IndInv
  <2> QED BY <2>1, <2>2, PruneInv
<1> QED BY <1>1, <1>2, <1>3, <1>4, <1>5, <1>6, <1>7 DEF Next

\* The inductive invariant holds of every reachable state: the numbers in the ring
\* are those of the ranks a ghost assigns to its slots, and every ACK frame in
\* flight claims only ranks that arrived (insert, remove, get_for_ack and
\* write_ack_history keep it).
THEOREM Invariance == Spec => []IndInv
<1>1. Init => IndInv
  BY InitInv
<1>2. IndInv /\ [Next]_vars => IndInv'
  BY NextInv
<1> QED BY <1>1, <1>2, PTL DEF Spec

-----------------------------------------------------------------------------
(* What follows from it.                                                   *)

LEMMA SoundHistory ==
    ASSUME NEW h, NEW rank, NEW N \in Nat, Sound(h, rank, N) PROVE h \in History
<1>1. h \in Shape /\ h.active = Cardinality(ValidSlots(h))
  BY DEF Sound, Slotted
<1>2. IsFiniteSet(Slots) /\ Cardinality(Slots) = HistorySize
  <2>1. 0 \in Int /\ HistorySize - 1 \in Int /\ ~(0 > HistorySize - 1)
        /\ HistorySize - 1 - 0 + 1 = HistorySize
    BY ConstantFacts
  <2> QED BY <2>1, FS_Interval DEF Slots
<1>3. ValidSlots(h) \in SUBSET Slots
  BY DEF ValidSlots
<1>4. Cardinality(ValidSlots(h)) <= HistorySize /\ Cardinality(ValidSlots(h)) \in Nat
  BY <1>2, <1>3, FS_Subset, ValidFinite
<1>5. h.active \in 0 .. HistorySize
  BY <1>1, <1>4, ConstantFacts
<1> QED BY <1>1, <1>5 DEF Shape, History

\* Every variable stays in its type; num_active_elements never leaves
\* 0 .. HistorySize, so that remove's decrement of a usize never underflows.
THEOREM TypeCorrect == Spec => []TypeOK
<1>1. IndInv => TypeOK
  <2> SUFFICES ASSUME IndInv PROVE TypeOK
    OBVIOUS
  <2>1. /\ lastSent \in 1 .. MaxDatagram /\ newest \in 1 .. lastSent
        /\ unacked \subseteq 2 .. lastSent /\ arrived \subseteq unacked /\ acks \in Seq(Ack)
    BY DEF IndInv
  <2>2. newest \in Nat
    BY <2>1
  <2>3. PICK rank : Held(history, rank, newest, unacked, arrived)
    BY DEF IndInv
  <2>4. history \in History
    BY <2>2, <2>3, SoundHistory DEF Held
  <2>5. \A i \in 1 .. Len(acks) : acks[i] \in Ack
    BY <2>1
  <2> QED BY <2>1, <2>4, <2>5 DEF TypeOK
<1> QED BY <1>1, Invariance, PTL

\* The offset of a used slot from the first one is that of its rank.
LEMMA OffsetFacts ==
    ASSUME NEW F \in Nat, NEW p \in Nat, F <= p, p - F < HistorySize
    PROVE  ((p % HistorySize) - (F % HistorySize)) % HistorySize = p - F
<1>1. HistorySize \in Nat \ {0} /\ F \in Int /\ p \in Int
  BY ConstantFacts
<1>2. ((p % HistorySize) - (F % HistorySize)) % HistorySize = (p - F) % HistorySize
  BY <1>1, ResidueDiff
<1>3. PICK d : d = p - F
  OBVIOUS
<1>4. d \in Int /\ 0 <= d /\ d < HistorySize
  BY <1>1, <1>3
<1>5. d % HistorySize = d
  BY <1>1, <1>4, ResidueSmall
<1> QED BY <1>2, <1>3, <1>5

\* num_active_elements counts the used slots, first and last delimit them and the
\* sequence numbers grow with the slots along the range: what the two loops of
\* remove and the gap test of write_ack_history rest on.
THEOREM RangeInOrder == Spec => []RangeDelimits
<1>1. IndInv => RangeDelimits
  <2> SUFFICES ASSUME IndInv PROVE RangeDelimits
    OBVIOUS
  <2>1. PICK rank : Held(history, rank, newest, unacked, arrived)
    BY DEF IndInv
  <2>2. newest \in Nat /\ Sound(history, rank, newest)
    BY <2>1 DEF IndInv, Held
  <2>3. PICK h : h = history
    OBVIOUS
  <2>4. Sound(h, rank, newest) /\ Slotted(h, rank, newest)
    BY <2>2, <2>3 DEF Sound
  <2>5. h.active = Cardinality(ValidSlots(h))
    BY <2>4 DEF Slotted
  <2>6. ASSUME h.active # 0
        PROVE  /\ IsValid(h, LastIndex(h))
               /\ \A i \in ValidSlots(h) :
                     SeqDist(h.el[i].seq, h.el[LastIndex(h)].seq)
                         = ((LastIndex(h) - h.first) % HistorySize)
                           - ((i - h.first) % HistorySize)
    <3>1. PICK F, L \in Nat : Ranged(h, rank, F, L)
      BY <2>4, <2>6 DEF Sound
    <3>2. /\ F \in Nat \ {0} /\ L \in Nat /\ F <= L /\ L - F < HistorySize
          /\ \A k \in ValidSlots(h) : /\ k \in Slots /\ rank[k] \in Int
                                      /\ rank[k] % HistorySize = k
                                      /\ F <= rank[k] /\ rank[k] <= L
      BY <2>2, <2>4, <3>1, RangeTypes
    <3>3. /\ h.first = F % HistorySize /\ LastIndex(h) = L % HistorySize
          /\ rank[L % HistorySize] = L /\ IsValid(h, L % HistorySize)
      <4>1. h.last = (L + 1) % HistorySize /\ L \in Int
        BY <3>1, <3>2 DEF Ranged
      <4> QED BY <3>1, <4>1, LastSlot DEF Ranged
    <3>4. h.el[LastIndex(h)].seq = L % SeqSpan
      <4>1. L % HistorySize \in Slots
        BY <3>2, SlotFacts
      <4> QED BY <2>4, <3>3, <4>1 DEF Slotted
    <3>5. (LastIndex(h) - h.first) % HistorySize = L - F
      BY <3>2, <3>3, OffsetFacts
    <3>6. ASSUME NEW i \in ValidSlots(h)
          PROVE  SeqDist(h.el[i].seq, h.el[LastIndex(h)].seq)
                     = ((LastIndex(h) - h.first) % HistorySize) - ((i - h.first) % HistorySize)
      <4>1. PICK p : p = rank[i]
        OBVIOUS
      <4>2. /\ p \in Nat /\ F <= p /\ p <= L /\ p - F < HistorySize /\ p % HistorySize = i
            /\ i \in Slots
        BY <3>2, <4>1, ConstantFacts
      <4>3. h.el[i].seq = p % SeqSpan
        BY <2>4, <4>1, <4>2 DEF Slotted
      <4>4. (i - h.first) % HistorySize = p - F
        BY <3>2, <3>3, <4>2, OffsetFacts
      <4>5. 0 <= L - p /\ L - p < SeqSpan /\ L \in Int /\ p \in Int
        BY <3>2, <4>2, ConstantFacts
      <4>6. SeqDist(p % SeqSpan, L % SeqSpan) = L - p
        BY <4>5, SeqDistance
      <4>7. L - p = (L - F) - (p - F)
        BY <3>2, <4>2
      <4> QED BY <3>4, <3>5, <4>3, <4>4, <4>6, <4>7
    <3> QED BY <3>3, <3>6
  <2> QED BY <2>3, <2>5, <2>6 DEF RangeDelimits
<1> QED BY <1>1, Invariance, PTL

\* No ACK frame takes a datagram from send_datagrams that did not arrive:
\* apply_ack_data_to_send_queue reads from a range or a bitmap only what
\* write_ack_history found in the ring, whatever was lost, repeated or late and
\* wherever the sequence numbers wrapped.
THEOREM AcksAreTrue == Spec => AckSound
<1>1. ASSUME IndInv, ReceiveAck PROVE unacked \ unacked' \subseteq arrived
  <2>1. /\ acks # << >> /\ unacked' = {r \in unacked : ~IsAcked(Head(acks), r % SeqSpan)}
    BY <1>1 DEF ReceiveAck
  <2>2. /\ lastSent \in 1 .. MaxDatagram /\ unacked \subseteq 2 .. lastSent
        /\ acks \in Seq(Ack)
        /\ \A r \in unacked : lastSent - r <= MaxAhead
        /\ \A k \in 1 .. Len(acks) : Trusted(acks[k], lastSent, unacked, arrived)
    BY <1>1 DEF IndInv, Near
  <2>3. Trusted(Head(acks), lastSent, unacked, arrived)
    <3>1. 1 \in 1 .. Len(acks) /\ Head(acks) = acks[1]
      BY <2>1, <2>2
    <3> QED BY <2>2, <3>1
  <2>4. ASSUME NEW r \in unacked, IsAcked(Head(acks), r % SeqSpan) PROVE r \in arrived
    <3>1. lastSent \in Nat /\ unacked \in SUBSET (2 .. lastSent) /\ lastSent - r <= MaxAhead
      BY <2>2, BoundFacts
    <3> QED BY <2>3, <2>4, <3>1, TrustedFacts
  <2> QED BY <2>1, <2>4
<1>2. IndInv /\ [Next]_vars => [ReceiveAck => unacked \ unacked' \subseteq arrived]_vars
  BY <1>1
<1> QED BY <1>2, Invariance, PTL DEF Spec, AckSound

-----------------------------------------------------------------------------
(* The carrier link: what is in its queues.                                *)

Members(q) == {q[i] : i \in 1 .. Len(q)}

LEMMA MemberFacts ==
    ASSUME NEW T, NEW q \in Seq(T)
    PROVE  /\ Len(q) \in Nat /\ Members(q) \subseteq T
           /\ \A i \in 1 .. Len(q) : q[i] \in T /\ q[i] \in Members(q)
<1>1. Len(q) \in Nat /\ \A i \in 1 .. Len(q) : q[i] \in T
  BY LenProperties, ElementOfSeq
<1> QED BY <1>1 DEF Members

LEMMA MembersOfNone == Members(<< >>) = {} /\ \A T : << >> \in Seq(T)
<1>1. Len(<< >>) = 0 /\ \A T : << >> \in Seq(T)
  BY EmptySeq
<1> QED BY <1>1 DEF Members

LEMMA MembersOfConcat ==
    ASSUME NEW T, NEW p \in Seq(T), NEW q \in Seq(T)
    PROVE  p \o q \in Seq(T) /\ Members(p \o q) = Members(p) \cup Members(q)
<1>1. /\ p \o q \in Seq(T) /\ Len(p \o q) = Len(p) + Len(q)
      /\ \A i \in 1 .. Len(p) + Len(q) :
            (p \o q)[i] = IF i <= Len(p) THEN p[i] ELSE q[i - Len(p)]
  BY ConcatProperties
<1>2. Len(p) \in Nat /\ Len(q) \in Nat
  BY MemberFacts
<1>3. Members(p \o q) \subseteq Members(p) \cup Members(q)
  <2>1. ASSUME NEW i \in 1 .. Len(p) + Len(q) PROVE (p \o q)[i] \in Members(p) \cup Members(q)
    <3>1. CASE i <= Len(p)
      BY <1>1, <3>1 DEF Members
    <3>2. CASE ~(i <= Len(p))
      <4>1. i - Len(p) \in 1 .. Len(q)
        BY <1>2, <3>2
      <4> QED BY <1>1, <3>2, <4>1 DEF Members
    <3> QED BY <3>1, <3>2
  <2> QED BY <1>1, <2>1 DEF Members
<1>4. Members(p) \subseteq Members(p \o q)
  <2>1. ASSUME NEW i \in 1 .. Len(p) PROVE p[i] \in Members(p \o q)
    <3>1. i \in 1 .. Len(p) + Len(q) /\ i <= Len(p)
      BY <1>2
    <3>2. (p \o q)[i] = p[i] /\ i \in 1 .. Len(p \o q)
      BY <1>1, <3>1
    <3> QED BY <3>2 DEF Members
  <2> QED BY <2>1 DEF Members
<1>5. Members(q) \subseteq Members(p \o q)
  <2>1. ASSUME NEW i \in 1 .. Len(q) PROVE q[i] \in Members(p \o q)
    <3>1. PICK j : j = Len(p) + i
      OBVIOUS
    <3>2. j \in 1 .. Len(p) + Len(q) /\ ~(j <= Len(p)) /\ j - Len(p) = i
      BY <1>2, <3>1
    <3>3. (p \o q)[j] = q[i] /\ j \in 1 .. Len(p \o q)
      BY <1>1, <3>2
    <3> QED BY <3>3 DEF Members
  <2> QED BY <2>1 DEF Members
<1> QED BY <1>1, <1>3, <1>4, <1>5

LEMMA MembersOfAppend ==
    ASSUME NEW T, NEW q \in Seq(T), NEW e \in T
    PROVE  /\ Append(q, e) \in Seq(T) /\ Members(Append(q, e)) = Members(q) \cup {e}
           /\ Len(Append(q, e)) = Len(q) + 1 /\ Append(q, e)[Len(q) + 1] = e
<1>1. /\ Append(q, e) \in Seq(T) /\ Len(Append(q, e)) = Len(q) + 1
      /\ \A i \in 1 .. Len(q) : Append(q, e)[i] = q[i]
      /\ Append(q, e)[Len(q) + 1] = e /\ Len(q) \in Nat
  BY AppendProperties, MemberFacts
<1>2. PICK s, n : s = Append(q, e) /\ n = Len(q)
  OBVIOUS
<1>3. /\ Len(s) = n + 1 /\ n \in Nat /\ s[n + 1] = e
      /\ \A i \in 1 .. n : s[i] = q[i]
  BY <1>1, <1>2
<1>4. 1 .. n + 1 = 1 .. n \cup {n + 1}
  BY <1>3
<1>5. Members(s) = Members(q) \cup {e}
  BY <1>2, <1>3, <1>4 DEF Members
<1> QED BY <1>1, <1>2, <1>5

LEMMA MembersOfSub ==
    ASSUME NEW T, NEW q \in Seq(T), NEW a \in Nat \ {0}, NEW b \in Int, b <= Len(q)
    PROVE  /\ SubSeq(q, a, b) \in Seq(T) /\ Members(SubSeq(q, a, b)) \subseteq Members(q)
           /\ \A i \in a .. b : q[i] \in Members(SubSeq(q, a, b))
           /\ \A i \in 1 .. Len(SubSeq(q, a, b)) :
                  a + i - 1 \in 1 .. Len(q) /\ SubSeq(q, a, b)[i] = q[a + i - 1]
           /\ Len(SubSeq(q, a, b)) = IF a <= b THEN b - a + 1 ELSE 0
<1>1. Len(q) \in Nat /\ \A i \in 1 .. Len(q) : q[i] \in T /\ q[i] \in Members(q)
  BY MemberFacts
<1>2. \A i \in a .. b : i \in 1 .. Len(q)
  BY <1>1
<1>3. PICK s : s = SubSeq(q, a, b)
  OBVIOUS
<1>4. /\ s \in Seq(T) /\ Len(s) = IF a <= b THEN b - a + 1 ELSE 0
      /\ \A i \in 1 .. b - a + 1 : s[i] = q[a + i - 1]
  <2>1. a \in Int /\ b \in Int /\ \A i \in a .. b : q[i] \in T
    BY <1>1, <1>2
  <2> QED BY <1>3, <2>1, SubSeqProperties
<1>5. \A i \in 1 .. Len(s) : a + i - 1 \in 1 .. Len(q) /\ s[i] = q[a + i - 1]
  <2>1. ASSUME NEW i \in 1 .. Len(s) PROVE a + i - 1 \in 1 .. Len(q) /\ s[i] = q[a + i - 1]
    <3>1. i \in 1 .. b - a + 1 /\ a + i - 1 \in a .. b
      BY <1>4
    <3> QED BY <1>2, <1>4, <3>1
  <2> QED BY <2>1
<1>6. ASSUME NEW i \in a .. b PROVE q[i] \in Members(s)
  <2>1. PICK j : j = i - a + 1
    OBVIOUS
  <2>2. j \in 1 .. b - a + 1 /\ a <= b /\ a + j - 1 = i
    BY <2>1
  <2>3. s[j] = q[i] /\ j \in 1 .. Len(s)
    BY <1>4, <2>2
  <2> QED BY <2>3 DEF Members
<1>7. Members(s) \subseteq Members(q)
  BY <1>1, <1>5 DEF Members
<1> QED BY <1>3, <1>4, <1>5, <1>6, <1>7

LEMMA MembersOfTail ==
    ASSUME NEW T, NEW q \in Seq(T), q # << >>
    PROVE  /\ Head(q) \in T /\ Tail(q) \in Seq(T) /\ Len(Tail(q)) = Len(q) - 1
           /\ Head(q) = q[1] /\ 1 \in 1 .. Len(q)
           /\ \A i \in 1 .. Len(Tail(q)) : i + 1 \in 1 .. Len(q) /\ Tail(q)[i] = q[i + 1]
           /\ Members(Tail(q)) \subseteq Members(q)
<1>1. /\ Head(q) \in T /\ Tail(q) \in Seq(T) /\ Len(Tail(q)) = Len(q) - 1
      /\ \A i \in 1 .. Len(Tail(q)) : Tail(q)[i] = q[i + 1]
  BY HeadTailProperties
<1>2. Len(q) \in Nat \ {0}
  BY EmptySeq
<1>3. \A i \in 1 .. Len(Tail(q)) : i + 1 \in 1 .. Len(q)
  BY <1>1, <1>2
<1>4. Head(q) = q[1]
  OBVIOUS
<1> QED BY <1>1, <1>2, <1>3, <1>4 DEF Members

\* A sequence given element by element.
LEMMA MembersOfFunction ==
    ASSUME NEW T, NEW n \in Nat, NEW f \in [1 .. n -> T]
    PROVE  f \in Seq(T) /\ Len(f) = n /\ Members(f) = {f[i] : i \in 1 .. n}
<1>1. f \in Seq(T) /\ Len(f) = n
  OBVIOUS
<1> QED BY <1>1 DEF Members

\* The loop of Filtered at element n.
Filter(s, q, kept, n) == IF n \in kept THEN Append(s, q[n]) ELSE s

LEMMA FilteredLoop ==
    ASSUME NEW T, NEW q \in Seq(T), NEW kept
    PROVE  \E w : /\ w[0] = << >> /\ Filtered(q, kept) = w[Len(q)]
                  /\ \A n \in 1 .. Len(q) : w[n] = Filter(w[n - 1], q, kept, n)
<1> DEFINE S == Seq(T)
           N == Len(q)
           G == [e \in (1 .. N) \X S |-> Filter(e[2], q, kept, e[1])]
           a == << >>
<1>1. N \in Nat /\ a \in S
  BY MemberFacts, MembersOfNone
<1>2. \A n \in 1 .. N : \A s \in S : Filter(s, q, kept, n) \in S
  BY MemberFacts, MembersOfAppend DEF Filter
<1> HIDE DEF a, S
<1>3. /\ G \in [(1 .. N) \X S -> S]
      /\ \A n \in 1 .. N : \A s \in S : G[<<n, s>>] = Filter(s, q, kept, n)
  BY <1>2
<1> HIDE DEF G, N
<1>4. PICK x : IsRun(x, N, S, G, a)
  BY <1>1, <1>3, RunExists
<1>5. x = [n \in 0 .. N |-> IF n = 0 THEN a
                            ELSE IF n \in kept THEN Append(x[n - 1], q[n]) ELSE x[n - 1]]
  <2>1. x \in [0 .. N -> S] /\ x[0] = a /\ \A n \in 1 .. N : x[n] = G[<<n, x[n - 1]>>]
    BY <1>4 DEF IsRun
  <2>2. \A n \in 1 .. N : n - 1 \in 0 .. N /\ x[n - 1] \in S
    BY <1>1, <2>1
  <2>3. \A n \in 1 .. N : x[n] = Filter(x[n - 1], q, kept, n)
    BY <1>3, <2>1, <2>2
  <2>4. \A n \in 0 .. N : n # 0 => n \in 1 .. N
    BY <1>1
  <2>5. \A n \in 0 .. N : x[n] = IF n = 0 THEN a
                                 ELSE IF n \in kept THEN Append(x[n - 1], q[n]) ELSE x[n - 1]
    BY <2>1, <2>3, <2>4 DEF Filter
  <2> QED BY <2>1, <2>5
<1> DEFINE W == CHOOSE w : w = [n \in 0 .. N |->
                                  IF n = 0 THEN a
                                  ELSE IF n \in kept THEN Append(w[n - 1], q[n]) ELSE w[n - 1]]
<1>6. W = [n \in 0 .. N |-> IF n = 0 THEN a
                            ELSE IF n \in kept THEN Append(W[n - 1], q[n]) ELSE W[n - 1]]
  BY ZenonT(30), <1>5
<1>7. Filtered(q, kept) = W[N]
  BY DEF Filtered, a, N
<1> HIDE DEF W
<1>8. \A n \in 0 .. N : W[n] = IF n = 0 THEN a
                               ELSE IF n \in kept THEN Append(W[n - 1], q[n]) ELSE W[n - 1]
  BY <1>6
<1>9. \A n \in 1 .. N : n \in 0 .. N /\ n # 0
  BY <1>1
<1>10. W[0] = a /\ \A n \in 1 .. N : W[n] = Filter(W[n - 1], q, kept, n)
  BY <1>1, <1>8, <1>9 DEF Filter
<1> QED BY <1>7, <1>10 DEF a, N

\* Filtered keeps exactly the elements at the positions in kept.
LEMMA FilteredFacts ==
    ASSUME NEW T, NEW q \in Seq(T), NEW kept
    PROVE  /\ Filtered(q, kept) \in Seq(T)
           /\ Members(Filtered(q, kept)) = {q[i] : i \in kept \cap (1 .. Len(q))}
<1>1. PICK w : /\ w[0] = << >> /\ Filtered(q, kept) = w[Len(q)]
               /\ \A n \in 1 .. Len(q) : w[n] = Filter(w[n - 1], q, kept, n)
  BY FilteredLoop
<1>2. Len(q) \in Nat /\ \A i \in 1 .. Len(q) : q[i] \in T
  BY MemberFacts
<1> DEFINE Good == {n \in Nat : w[n] \in Seq(T)
                                /\ Members(w[n]) = {q[i] : i \in kept \cap (1 .. n)}}
<1>3. 0 \in Good
  <2>1. w[0] \in Seq(T) /\ Members(w[0]) = {}
    BY <1>1, MembersOfNone
  <2>2. kept \cap (1 .. 0) = {}
    OBVIOUS
  <2>3. {q[i] : i \in kept \cap (1 .. 0)} = {}
    BY <2>2
  <2> QED BY <2>1, <2>3
<1>4. ASSUME NEW n \in 0 .. Len(q) - 1, n \in Good PROVE n + 1 \in Good
  <2>1. /\ n + 1 \in 1 .. Len(q) /\ (n + 1) - 1 = n /\ n + 1 \in Nat
        /\ 1 .. n + 1 = 1 .. n \cup {n + 1} /\ q[n + 1] \in T
    BY <1>2
  <2>2. w[n] \in Seq(T) /\ Members(w[n]) = {q[i] : i \in kept \cap (1 .. n)}
    BY <1>4
  <2>3. w[n + 1] = Filter(w[n], q, kept, n + 1)
    BY <1>1, <2>1
  <2>4. CASE n + 1 \in kept
    <3>1. w[n + 1] \in Seq(T) /\ Members(w[n + 1]) = Members(w[n]) \cup {q[n + 1]}
      BY <2>1, <2>2, <2>3, <2>4, MembersOfAppend DEF Filter
    <3>2. Members(w[n + 1]) = {q[i] : i \in kept \cap (1 .. n + 1)}
      BY <2>1, <2>2, <2>4, <3>1
    <3> QED BY <2>1, <3>1, <3>2
  <2>5. CASE n + 1 \notin kept
    <3>1. w[n + 1] = w[n]
      BY <2>3, <2>5 DEF Filter
    <3>2. kept \cap (1 .. n + 1) = kept \cap (1 .. n)
      BY <2>1, <2>5
    <3> QED BY <2>1, <2>2, <3>1, <3>2
  <2> QED BY <2>4, <2>5
<1> HIDE DEF Good
<1>5. Len(q) \in Good
  <2>1. Len(q) \in 0 .. Len(q)
    BY <1>2
  <2> QED BY <1>2, <1>3, <1>4, <2>1, InductionTo
<1> QED BY <1>1, <1>5 DEF Good

-----------------------------------------------------------------------------
(* The frames of a queue and their ranks.                                  *)

Frames == [reliable : BOOLEAN, relSeq : SeqNums, numChunks : Nat \ {0}, rank : Nat]

\* A datagram of reliable and other frames.
Dgrams == [seq : SeqNums, frames : Seq(Frames)]

\* What next_ready returns: one unreliable frame, or the chunks of a reliable message.
Messages == {m \in Seq(Frames) : m # << >> /\ (Head(m).reliable \/ Len(m) = 1)}

\* The ranks of the messages, and of the datagrams, of a queue.
RanksIn(qs) == UNION {FrameRanks(m) : m \in Members(qs)}
RanksKept(ds) == UNION {FrameRanks(ds[i].frames) : i \in 1 .. Len(ds)}

\* The frames of the datagrams ds.
FramesOf(ds) == UNION {Members(d.frames) : d \in Members(ds)}

LEMMA RankFacts ==
    ASSUME NEW q PROVE FrameRanks(q) = {f.rank : f \in {e \in Members(q) : e.reliable}}
BY DEF FrameRanks, Members

LEMMA KeptFacts ==
    ASSUME NEW ds
    PROVE  \A r : r \in RanksKept(ds) <=> \E d \in Members(ds) : r \in FrameRanks(d.frames)
BY DEF RanksKept, Members

LEMMA RanksOfNone == FrameRanks(<< >>) = {} /\ RanksIn(<< >>) = {} /\ RanksKept(<< >>) = {}
BY RankFacts, KeptFacts, MembersOfNone DEF RanksIn

LEMMA RanksOfConcat ==
    ASSUME NEW p \in Seq(Frames), NEW q \in Seq(Frames)
    PROVE  p \o q \in Seq(Frames) /\ FrameRanks(p \o q) = FrameRanks(p) \cup FrameRanks(q)
<1>1. p \o q \in Seq(Frames) /\ Members(p \o q) = Members(p) \cup Members(q)
  BY MembersOfConcat
<1> QED BY <1>1, RankFacts

LEMMA RanksWithin ==
    ASSUME NEW p, NEW q, Members(p) \subseteq Members(q)
    PROVE  FrameRanks(p) \subseteq FrameRanks(q)
BY RankFacts

\* A queue cut in two loses no frame.
LEMMA RanksOfCut ==
    ASSUME NEW q \in Seq(Frames), NEW n \in 0 .. Len(q)
    PROVE  /\ SubSeq(q, 1, n) \in Seq(Frames) /\ SubSeq(q, n + 1, Len(q)) \in Seq(Frames)
           /\ FrameRanks(q) \subseteq
                 FrameRanks(SubSeq(q, 1, n)) \cup FrameRanks(SubSeq(q, n + 1, Len(q)))
<1>1. Len(q) \in Nat /\ n \in Nat /\ n <= Len(q)
  BY MemberFacts
<1>2. SubSeq(q, 1, n) \in Seq(Frames) /\ \A i \in 1 .. n : q[i] \in Members(SubSeq(q, 1, n))
  BY <1>1, MembersOfSub
<1>3. /\ SubSeq(q, n + 1, Len(q)) \in Seq(Frames)
      /\ \A i \in n + 1 .. Len(q) : q[i] \in Members(SubSeq(q, n + 1, Len(q)))
  <2>1. n + 1 \in Nat \ {0} /\ Len(q) \in Int /\ Len(q) <= Len(q)
    BY <1>1
  <2> QED BY <2>1, MembersOfSub
<1>4. \A i \in 1 .. Len(q) : i \in 1 .. n \/ i \in n + 1 .. Len(q)
  BY <1>1
<1>5. Members(q) \subseteq Members(SubSeq(q, 1, n)) \cup Members(SubSeq(q, n + 1, Len(q)))
  BY <1>2, <1>3, <1>4 DEF Members
<1> QED BY <1>2, <1>3, <1>5, RankFacts

\* to_resend keeps the reliable frames.
LEMMA RanksOfReliables ==
    ASSUME NEW q \in Seq(Frames)
    PROVE  /\ Reliables(q) \in Seq(Frames) /\ FrameRanks(Reliables(q)) = FrameRanks(q)
           /\ Members(Reliables(q)) \subseteq Members(q)
<1>1. PICK kept : kept = {i \in 1 .. Len(q) : q[i].reliable}
  OBVIOUS
<1>2. /\ Reliables(q) \in Seq(Frames)
      /\ Members(Reliables(q)) = {q[i] : i \in kept \cap (1 .. Len(q))}
  BY <1>1, FilteredFacts DEF Reliables
<1>3. {e \in Members(Reliables(q)) : e.reliable} = {e \in Members(q) : e.reliable}
  BY <1>1, <1>2 DEF Members
<1>4. Members(Reliables(q)) \subseteq Members(q)
  BY <1>2 DEF Members
<1> QED BY <1>2, <1>3, <1>4, RankFacts

-----------------------------------------------------------------------------
(* The datagrams made of a queue.                                          *)

\* Whenever the loop ends the frames of the queue, and no others, are in the datagrams
\* so far or still queued.
Divided(q, ds) ==
    /\ ds \in Seq(Seq(Frames)) /\ \A i \in 1 .. Len(ds) : Members(ds[i]) \subseteq Members(q)
    /\ \A n \in 0 .. Len(ds) :
          /\ SubSeq(q, n * Capacity + 1, Len(q)) \in Seq(Frames)
          /\ Members(SubSeq(q, n * Capacity + 1, Len(q))) \subseteq Members(q)
          /\ FrameRanks(q) \subseteq FrameRanks(SubSeq(q, n * Capacity + 1, Len(q)))
                                       \cup UNION {FrameRanks(ds[i]) : i \in 1 .. n}

LEMMA DatagramsFacts ==
    ASSUME NEW q \in Seq(Frames), NEW due \in BOOLEAN
    PROVE  Divided(q, Datagrams(q, due))
<1> DEFINE N == Len(q)
           M == (N + Capacity - 1) \div Capacity
           ds == Datagrams(q, due)
<1>1. Capacity \in Nat \ {0} /\ N \in Nat
  BY CarrierLinkAssumption, MemberFacts
<1>2. \A n \in Nat : n * Capacity \in Nat
  BY <1>1
<1>3. \A n \in Nat :
          /\ SubSeq(q, n * Capacity + 1, N) \in Seq(Frames)
          /\ Members(SubSeq(q, n * Capacity + 1, N)) \subseteq Members(q)
          /\ \A p \in n * Capacity + 1 .. N : q[p] \in Members(SubSeq(q, n * Capacity + 1, N))
  <2>1. ASSUME NEW a \in Nat
        PROVE  /\ SubSeq(q, a + 1, N) \in Seq(Frames)
               /\ Members(SubSeq(q, a + 1, N)) \subseteq Members(q)
               /\ \A p \in a + 1 .. N : q[p] \in Members(SubSeq(q, a + 1, N))
    <3>1. a + 1 \in Nat \ {0} /\ N \in Int /\ N <= Len(q)
      BY <1>1
    <3> QED BY <3>1, MembersOfSub
  <2> QED BY <1>2, <2>1
<1>4. CASE q = << >>
  <2>1. FrameRanks(q) = {}
    BY <1>4, RanksOfNone
  <2>2. << >> \in Seq(Frames) /\ << >> \in Seq(Seq(Frames)) /\ << << >> >> \in Seq(Seq(Frames))
    BY MembersOfNone
  <2>3. /\ ds \in Seq(Seq(Frames)) /\ Len(ds) \in Nat
        /\ \A i \in 1 .. Len(ds) : Members(ds[i]) \subseteq Members(q)
    <3>1. ds \in Seq(Seq(Frames)) /\ Len(ds) \in Nat
      BY <1>4, <2>2, MemberFacts DEF Datagrams
    <3>2. \A i \in 1 .. Len(ds) : ds[i] = << >>
      BY <1>4 DEF Datagrams
    <3> QED BY <3>1, <3>2, MembersOfNone
  <2> QED BY <1>3, <2>1, <2>3 DEF Divided
<1>5. CASE q # << >>
  <2>1. ds = [i \in 1 .. M |-> SubSeq(q, (i - 1) * Capacity + 1, Min2(i * Capacity, N))]
    BY <1>5 DEF Datagrams
  <2>2. M \in Nat
    <3>1. PICK x : x = N + Capacity - 1
      OBVIOUS
    <3>2. x \in Nat
      BY <1>1, <3>1
    <3>3. x \div Capacity \in Nat
      BY <1>1, <3>2
    <3> QED BY <3>1, <3>3
  <2> HIDE DEF M
  <2>3. ASSUME NEW i \in 1 .. M
        PROVE  /\ ds[i] = SubSeq(q, (i - 1) * Capacity + 1, Min2(i * Capacity, N))
               /\ ds[i] \in Seq(Frames) /\ Members(ds[i]) \subseteq Members(q)
               /\ \A p \in 1 .. N : (i - 1) * Capacity < p /\ p <= i * Capacity
                                    => q[p] \in Members(ds[i])
    <3>1. PICK a, b : a = (i - 1) * Capacity /\ b = i * Capacity
      OBVIOUS
    <3>2. a \in Nat /\ b \in Nat
      <4>1. i - 1 \in Nat /\ i \in Nat
        BY <2>2
      <4> QED BY <1>2, <3>1, <4>1
    <3>3. PICK c : c = Min2(b, N)
      OBVIOUS
    <3>4. c \in Int /\ c <= Len(q) /\ \A p \in 1 .. N : p <= b => p <= c
      BY <1>1, <3>2, <3>3 DEF Min2
    <3>5. ds[i] = SubSeq(q, a + 1, c)
      BY <2>1, <3>1, <3>3
    <3>6. a + 1 \in Nat \ {0}
      BY <3>2
    <3>7. /\ SubSeq(q, a + 1, c) \in Seq(Frames)
          /\ Members(SubSeq(q, a + 1, c)) \subseteq Members(q)
          /\ \A p \in a + 1 .. c : q[p] \in Members(SubSeq(q, a + 1, c))
      BY <3>4, <3>6, MembersOfSub
    <3>8. \A p \in 1 .. N : a < p /\ p <= b => p \in a + 1 .. c
      BY <1>1, <3>2, <3>4
    <3> QED BY <3>1, <3>3, <3>5, <3>7, <3>8
  <2>4. ds \in Seq(Seq(Frames)) /\ Len(ds) = M
    <3>1. ds = [i \in 1 .. M |-> ds[i]]
      BY <2>1
    <3>2. ds \in [1 .. M -> Seq(Frames)]
      BY <2>3, <3>1
    <3> QED BY <2>2, <3>2, MembersOfFunction
  <2>5. ASSUME NEW n \in 0 .. M, NEW p \in 1 .. N, ~(p \in n * Capacity + 1 .. N)
        PROVE  \E i \in 1 .. n : q[p] \in Members(ds[i])
    <3>1. PICK j, s : j = (p - 1) \div Capacity /\ s = (p - 1) % Capacity
      OBVIOUS
    <3>2. p - 1 = Capacity * j + s /\ s \in 0 .. Capacity - 1 /\ j \in Int /\ p - 1 \in Nat
      <4>1. p - 1 \in Int /\ p - 1 \in Nat
        BY <1>1
      <4> QED BY <1>1, <3>1, <4>1, Division
    <3>3. j \in Nat
      <4>1. PICK x : x = p - 1
        OBVIOUS
      <4>2. x \in Nat /\ x \div Capacity \in Nat
        BY <1>1, <3>2, <4>1
      <4> QED BY <3>1, <4>1, <4>2
    <3>4. j + 1 <= n
      <4> SUFFICES ASSUME n <= j PROVE FALSE
        BY <2>2, <3>3
      <4>1. PICK k : k = j - n
        OBVIOUS
      <4>2. k \in Nat /\ n \in Nat /\ j = n + k
        BY <2>2, <3>3, <4>1
      <4>3. Capacity * j = n * Capacity + Capacity * k /\ Capacity * k \in Nat /\ n * Capacity \in Nat
        BY <1>1, <4>2
      <4>4. Capacity * j + 1 <= p
        BY <1>1, <3>2, <3>3
      <4>5. n * Capacity + 1 <= p
        BY <1>1, <3>2, <4>3
      <4> QED BY <1>1, <2>5, <4>3, <4>5
    <3>5. PICK i : i = j + 1
      OBVIOUS
    <3>6. i \in 1 .. n /\ i \in 1 .. M /\ i - 1 = j
      BY <2>2, <3>3, <3>4, <3>5
    <3>7. (i - 1) * Capacity < p /\ p <= i * Capacity
      <4>1. (i - 1) * Capacity = Capacity * j /\ i * Capacity = Capacity * j + Capacity
            /\ Capacity * j \in Int
        BY <1>1, <3>3, <3>5, <3>6
      <4> QED BY <1>1, <3>2, <4>1
    <3> QED BY <2>3, <3>6, <3>7
  <2>6. ASSUME NEW n \in 0 .. M
        PROVE  FrameRanks(q) \subseteq
                 FrameRanks(SubSeq(q, n * Capacity + 1, N))
                   \cup UNION {FrameRanks(ds[i]) : i \in 1 .. n}
    <3>1. n \in Nat
      BY <2>2
    <3>2. PICK x : x = SubSeq(q, n * Capacity + 1, N)
      OBVIOUS
    <3>3. ASSUME NEW e \in Members(q)
          PROVE  e \in Members(x) \/ \E i \in 1 .. n : e \in Members(ds[i])
      <4>1. PICK p \in 1 .. N : e = q[p]
        BY DEF Members
      <4> QED BY <1>3, <2>5, <3>1, <3>2, <4>1
    <3>4. ASSUME NEW r \in FrameRanks(q)
          PROVE  r \in FrameRanks(x) \/ \E i \in 1 .. n : r \in FrameRanks(ds[i])
      <4>1. PICK e \in Members(q) : e.reliable /\ r = e.rank
        BY RankFacts
      <4> QED BY <3>3, <4>1, RankFacts
    <3> QED BY <3>2, <3>4
  <2>7. \A n \in 0 .. M : n \in Nat
    BY <2>2
  <2> QED BY <1>3, <2>3, <2>4, <2>6, <2>7 DEF Divided
<1> QED BY <1>4, <1>5

-----------------------------------------------------------------------------
(* The frames of datagrams that time out go back to the queue.             *)

\* The frames of the datagram i go in front.
PutBack(s, i) == sendDgrams[i].frames \o s

LEMMA ResentLoop ==
    ASSUME toSend \in Seq(Frames), sendDgrams \in Seq(Dgrams), NEW n \in 0 .. Len(sendDgrams)
    PROVE  \E w : /\ w[0] = toSend /\ Resent(n) = w[n]
                  /\ \A i \in 1 .. n : w[i] = PutBack(w[i - 1], i)
<1> DEFINE S == Seq(Frames)
           G == [e \in (1 .. n) \X S |-> sendDgrams[e[1]].frames \o e[2]]
<1>1. n \in Nat /\ \A i \in 1 .. n : sendDgrams[i] \in Dgrams
  BY MemberFacts
<1>2. \A i \in 1 .. n : \A s \in S : sendDgrams[i].frames \o s \in S
  BY <1>1, MembersOfConcat DEF Dgrams
<1> HIDE DEF S
<1>3. /\ G \in [(1 .. n) \X S -> S]
      /\ \A i \in 1 .. n : \A s \in S : G[<<i, s>>] = sendDgrams[i].frames \o s
  BY <1>2
<1> HIDE DEF G
<1>4. PICK x : IsRun(x, n, S, G, toSend)
  BY <1>1, <1>3, RunExists DEF S
<1>5. x = [i \in 0 .. n |-> IF i = 0 THEN toSend ELSE sendDgrams[i].frames \o x[i - 1]]
  <2>1. x \in [0 .. n -> S] /\ x[0] = toSend /\ \A i \in 1 .. n : x[i] = G[<<i, x[i - 1]>>]
    BY <1>4 DEF IsRun
  <2>2. \A i \in 1 .. n : i - 1 \in 0 .. n /\ x[i - 1] \in S
    BY <1>1, <2>1
  <2>3. \A i \in 0 .. n : i # 0 => i \in 1 .. n
    BY <1>1
  <2>4. \A i \in 0 .. n : x[i] = IF i = 0 THEN toSend ELSE sendDgrams[i].frames \o x[i - 1]
    BY <1>3, <2>1, <2>2, <2>3
  <2> QED BY <2>1, <2>4
<1> DEFINE W == CHOOSE w : w = [i \in 0 .. n |-> IF i = 0 THEN toSend
                                                 ELSE sendDgrams[i].frames \o w[i - 1]]
<1>6. W = [i \in 0 .. n |-> IF i = 0 THEN toSend ELSE sendDgrams[i].frames \o W[i - 1]]
  BY ZenonT(30), <1>5
<1>7. Resent(n) = W[n]
  BY DEF Resent
<1> HIDE DEF W
<1>8. \A i \in 0 .. n : W[i] = IF i = 0 THEN toSend ELSE sendDgrams[i].frames \o W[i - 1]
  BY <1>6
<1>9. \A i \in 0 .. n : W[i] = IF i = 0 THEN toSend ELSE PutBack(W[i - 1], i)
  BY <1>8 DEF PutBack
<1>10. \A i \in 1 .. n : i \in 0 .. n /\ i # 0
  BY <1>1
<1>11. 0 \in 0 .. n
  BY <1>1
<1>12. W[0] = toSend /\ \A i \in 1 .. n : W[i] = PutBack(W[i - 1], i)
  BY <1>9, <1>10, <1>11
<1> QED BY <1>7, <1>12

\* process_resends loses no frame of the queue and of the n oldest datagrams, and
\* adds none.
LEMMA ResentFacts ==
    ASSUME toSend \in Seq(Frames), sendDgrams \in Seq(Dgrams), NEW n \in 0 .. Len(sendDgrams)
    PROVE  /\ Resent(n) \in Seq(Frames)
           /\ FrameRanks(toSend) \subseteq FrameRanks(Resent(n))
           /\ \A i \in 1 .. n : FrameRanks(sendDgrams[i].frames) \subseteq FrameRanks(Resent(n))
           /\ Members(Resent(n)) \subseteq Members(toSend) \cup FramesOf(sendDgrams)
<1>1. PICK w : /\ w[0] = toSend /\ Resent(n) = w[n]
               /\ \A i \in 1 .. n : w[i] = PutBack(w[i - 1], i)
  BY ResentLoop
<1>2. n \in Nat /\ \A i \in 1 .. n : sendDgrams[i].frames \in Seq(Frames)
  <2>1. n \in Nat /\ \A i \in 1 .. n : sendDgrams[i] \in Dgrams
    BY MemberFacts
  <2> QED BY <2>1 DEF Dgrams
<1> DEFINE Has(m) == /\ w[m] \in Seq(Frames) /\ FrameRanks(toSend) \subseteq FrameRanks(w[m])
                     /\ \A i \in 1 .. m : FrameRanks(sendDgrams[i].frames) \subseteq FrameRanks(w[m])
                     /\ Members(w[m]) \subseteq Members(toSend) \cup FramesOf(sendDgrams)
           Good == {m \in Nat : Has(m)}
<1>3. 0 \in Good
  <2>1. /\ w[0] \in Seq(Frames) /\ FrameRanks(toSend) \subseteq FrameRanks(w[0])
        /\ Members(w[0]) \subseteq Members(toSend) \cup FramesOf(sendDgrams)
    BY <1>1
  <2> QED BY <2>1
<1>4. ASSUME NEW m \in 0 .. n - 1, m \in Good PROVE m + 1 \in Good
  <2>1. m + 1 \in 1 .. n /\ (m + 1) - 1 = m /\ m + 1 \in Nat /\ 1 .. m + 1 = 1 .. m \cup {m + 1}
    BY <1>2
  <2>2. Has(m)
    BY <1>4
  <2>3. PICK p : p = sendDgrams[m + 1].frames
    OBVIOUS
  <2>4. w[m + 1] = p \o w[m] /\ p \in Seq(Frames)
    BY <1>1, <1>2, <2>1, <2>3 DEF PutBack
  <2>5. w[m + 1] \in Seq(Frames) /\ FrameRanks(w[m + 1]) = FrameRanks(p) \cup FrameRanks(w[m])
    BY <2>2, <2>4, RanksOfConcat
  <2>6. \A i \in 1 .. m + 1 : FrameRanks(sendDgrams[i].frames) \subseteq FrameRanks(w[m + 1])
    BY <2>1, <2>2, <2>3, <2>5
  <2>7. Members(w[m + 1]) \subseteq Members(toSend) \cup FramesOf(sendDgrams)
    <3>1. m + 1 \in 1 .. Len(sendDgrams)
      BY <2>1, MemberFacts
    <3>2. Members(w[m + 1]) = Members(p) \cup Members(w[m])
      BY <2>2, <2>4, MembersOfConcat
    <3>3. Members(p) \subseteq FramesOf(sendDgrams)
      BY <2>3, <3>1 DEF FramesOf, Members
    <3> QED BY <2>2, <3>2, <3>3
  <2>8. Has(m + 1)
    BY <2>2, <2>5, <2>6, <2>7
  <2> QED BY <2>1, <2>8
<1> HIDE DEF Good
<1>5. n \in Good
  <2>1. n \in 0 .. n
    BY <1>2
  <2> QED BY <1>2, <1>3, <1>4, <2>1, InductionTo
<1> QED BY <1>1, <1>5 DEF Good

-----------------------------------------------------------------------------
(* Drain.                                                                  *)

LEMMA MessageFacts ==
    ASSUME NEW m \in Messages
    PROVE  m \in Seq(Frames) /\ (m[1].reliable \/ FrameRanks(m) = {})
<1>1. m \in Seq(Frames) /\ m # << >> /\ (Head(m).reliable \/ Len(m) = 1)
  BY DEF Messages
<1>2. Head(m) = m[1]
  BY <1>1, MembersOfTail
<1>3. CASE ~m[1].reliable
  <2>1. Members(m) = {m[1]}
    BY <1>1, <1>2, <1>3 DEF Members
  <2> QED BY <1>1, <1>3, <2>1, RankFacts
<1> QED BY <1>1, <1>2, <1>3

\* next_ready takes at least one frame and no more than there are.
LEMMA TakenFrames ==
    ASSUME NEW q \in Seq(Frames), NEW last, HeadReady(q, last)
    PROVE  /\ FramesTaken(q) \in 1 .. Len(q) /\ q[FramesTaken(q)].relSeq \in SeqNums
           /\ SubSeq(q, 1, FramesTaken(q)) \in Messages
<1>1. q # << >> /\ (Head(q).reliable => ReliableReady(q, last))
  BY DEF HeadReady
<1>2. /\ Head(q) \in Frames /\ Head(q) = q[1] /\ Len(q) \in Nat /\ 1 \in 1 .. Len(q)
      /\ \A i \in 1 .. Len(q) : q[i] \in Frames
  BY <1>1, MembersOfTail, MemberFacts
<1>3. PICK k : k = FramesTaken(q)
  OBVIOUS
<1>4. k \in 1 .. Len(q) /\ (Head(q).reliable \/ k = 1)
  <2>1. CASE Head(q).reliable /\ Head(q).numChunks > 1
    <3>1. k = Head(q).numChunks
      BY <1>3, <2>1 DEF FramesTaken
    <3>2. k <= Len(q)
      BY <1>1, <2>1, <3>1 DEF ReliableReady, ChunksReady
    <3>3. k \in Nat \ {0}
      BY <1>2, <3>1 DEF Frames
    <3> QED BY <1>2, <2>1, <3>2, <3>3
  <2>2. CASE ~(Head(q).reliable /\ Head(q).numChunks > 1)
    <3>1. k = 1
      BY <1>3, <2>2 DEF FramesTaken
    <3> QED BY <1>2, <3>1
  <2> QED BY <2>1, <2>2
<1>5. PICK m : m = SubSeq(q, 1, k)
  OBVIOUS
<1>6. /\ m \in Seq(Frames) /\ Len(m) = k /\ 1 \in 1 .. Len(m)
      /\ \A i \in 1 .. Len(m) : m[i] = q[1 + i - 1]
  <2>1. 1 \in Nat \ {0} /\ k \in Int /\ k <= Len(q) /\ 1 <= k
    BY <1>2, <1>4
  <2>2. m \in Seq(Frames) /\ Len(m) = k
        /\ \A i \in 1 .. Len(m) : m[i] = q[1 + i - 1]
    <3>1. k - 1 + 1 = k
      BY <2>1
    <3> QED BY <1>5, <2>1, <3>1, MembersOfSub
  <2> QED BY <2>1, <2>2
<1>7. m # << >>
  BY <1>6, EmptySeq
<1>8. Head(m) = Head(q)
  <2>1. Head(m) = m[1] /\ m[1] = q[1 + 1 - 1] /\ 1 + 1 - 1 = 1
    BY <1>6, <1>7, MembersOfTail
  <2> QED BY <1>2, <2>1
<1>9. m \in Messages
  BY <1>4, <1>6, <1>7, <1>8 DEF Messages
<1>10. q[k].relSeq \in SeqNums
  BY <1>2, <1>4 DEF Frames
<1> QED BY <1>3, <1>4, <1>5, <1>9, <1>10

Draining == [staging : Seq(Frames), last : SeqNums, out : Seq(Messages)]

\* What drain is left with and has taken.
RanksDrained(r) == FrameRanks(r.staging) \cup RanksIn(r.out)

LEMMA DrainNextFacts ==
    ASSUME NEW r \in Draining
    PROVE  DrainNext(r) \in Draining /\ RanksDrained(r) \subseteq RanksDrained(DrainNext(r))
<1>1. r.staging \in Seq(Frames) /\ r.last \in SeqNums /\ r.out \in Seq(Messages)
  BY DEF Draining
<1>2. CASE HeadReady(r.staging, r.last)
  <2>1. PICK q, k : q = r.staging /\ k = FramesTaken(q)
    OBVIOUS
  <2>2. PICK m, s : m = SubSeq(q, 1, k) /\ s = SubSeq(q, k + 1, Len(q))
    OBVIOUS
  <2>3. q \in Seq(Frames) /\ k \in 1 .. Len(q) /\ q[k].relSeq \in SeqNums /\ m \in Messages
    BY <1>1, <1>2, <2>1, <2>2, TakenFrames
  <2>4. k \in 0 .. Len(q)
    BY <2>3
  <2>5. s \in Seq(Frames) /\ FrameRanks(q) \subseteq FrameRanks(m) \cup FrameRanks(s)
    BY <2>2, <2>3, <2>4, RanksOfCut
  <2>6. PICK l, o : l = LastAfter(q, r.last) /\ o = Append(r.out, m)
    OBVIOUS
  <2>7. l \in SeqNums
    BY <1>1, <2>1, <2>3, <2>6 DEF LastAfter
  <2>8. o \in Seq(Messages) /\ Members(o) = Members(r.out) \cup {m}
    BY <1>1, <2>3, <2>6, MembersOfAppend
  <2>9. RanksIn(o) = RanksIn(r.out) \cup FrameRanks(m)
    BY <2>8 DEF RanksIn
  <2>10. DrainNext(r) = [staging |-> s, last |-> l, out |-> o]
    BY <1>2, <2>1, <2>2, <2>6 DEF DrainNext, StagingAfter
  <2>11. PICK d : d = [staging |-> s, last |-> l, out |-> o]
    OBVIOUS
  <2>12. d \in Draining /\ d.staging = s /\ d.out = o
    BY <2>5, <2>7, <2>8, <2>11 DEF Draining
  <2>13. RanksDrained(r) \subseteq RanksDrained(d)
    BY <2>1, <2>5, <2>9, <2>12 DEF RanksDrained
  <2> QED BY <2>10, <2>11, <2>12, <2>13
<1>3. CASE ~HeadReady(r.staging, r.last)
  <2>1. DrainNext(r) = r
    BY <1>3 DEF DrainNext
  <2> QED BY <2>1
<1> QED BY <1>2, <1>3

\* What next_ready keeps up is true when drain ends.
LEMMA DrainedIn ==
    ASSUME NEW q \in Seq(Frames), NEW last, NEW T,
           [staging |-> q, last |-> last, out |-> << >>] \in T,
           \A r \in T : DrainNext(r) \in T
    PROVE  Drained(q, last) \in T
<1> DEFINE N == Len(q)
           a == [staging |-> q, last |-> last, out |-> << >>]
           G == [r \in T |-> DrainNext(r)]
<1>1. N \in Nat
  BY MemberFacts
<1>2. a \in T
  OBVIOUS
<1>3. \A r \in T : DrainNext(r) \in T
  OBVIOUS
<1> HIDE DEF a
<1>4. G \in [T -> T] /\ \A r \in T : G[r] = DrainNext(r)
  BY <1>3
<1> HIDE DEF G, N
<1>5. PICK x : IsLoop(x, N, T, G, a)
  BY <1>1, <1>2, <1>4, LoopExists
<1>6. x = [n \in 0 .. N |-> IF n = 0 THEN a ELSE DrainNext(x[n - 1])]
  <2>1. x \in [0 .. N -> T] /\ x[0] = a /\ \A n \in 1 .. N : x[n] = G[x[n - 1]]
    BY <1>5 DEF IsLoop
  <2>2. \A n \in 1 .. N : n - 1 \in 0 .. N /\ x[n - 1] \in T
    BY <1>1, <2>1
  <2>3. \A n \in 0 .. N : n # 0 => n \in 1 .. N
    BY <1>1
  <2>4. \A n \in 0 .. N : x[n] = IF n = 0 THEN a ELSE DrainNext(x[n - 1])
    BY <1>4, <2>1, <2>2, <2>3
  <2> QED BY <2>1, <2>4
<1> DEFINE W == CHOOSE w : w = [n \in 0 .. N |-> IF n = 0 THEN a ELSE DrainNext(w[n - 1])]
<1>7. W = [n \in 0 .. N |-> IF n = 0 THEN a ELSE DrainNext(W[n - 1])]
  BY ZenonT(30), <1>6
<1>8. Drained(q, last) = W[N]
  BY DEF Drained, a, N
<1> HIDE DEF W
<1>9. W[0] = a /\ \A n \in 0 .. N - 1 : W[n + 1] = DrainNext(W[n])
  <2>1. \A n \in 0 .. N : W[n] = IF n = 0 THEN a ELSE DrainNext(W[n - 1])
    BY <1>7
  <2>2. \A n \in 0 .. N - 1 : n + 1 \in 0 .. N /\ n + 1 # 0 /\ (n + 1) - 1 = n
    BY <1>1
  <2> QED BY <1>1, <2>1, <2>2
<1> DEFINE Good == {n \in Nat : W[n] \in T}
<1>10. 0 \in Good
  BY <1>2, <1>9
<1>11. \A n \in 0 .. N - 1 : n \in Good => n + 1 \in Good
  BY <1>1, <1>3, <1>9
<1> HIDE DEF Good
<1>12. N \in Good
  <2>1. N \in 0 .. N
    BY <1>1
  <2> QED BY <1>1, <1>10, <1>11, <2>1, InductionTo
<1> QED BY <1>8, <1>12 DEF Good

\* Drain loses no frame.
LEMMA DrainedFacts ==
    ASSUME NEW q \in Seq(Frames), NEW last \in SeqNums
    PROVE  /\ Drained(q, last) \in Draining
           /\ FrameRanks(q) \subseteq RanksDrained(Drained(q, last))
<1>1. PICK T : T = {r \in Draining : FrameRanks(q) \subseteq RanksDrained(r)}
  OBVIOUS
<1>2. [staging |-> q, last |-> last, out |-> << >>] \in T
  <2>1. PICK a : a = [staging |-> q, last |-> last, out |-> << >>]
    OBVIOUS
  <2>2. a \in Draining /\ a.staging = q
    BY <2>1, MembersOfNone DEF Draining
  <2> QED BY <1>1, <2>1, <2>2 DEF RanksDrained
<1>3. \A r \in T : DrainNext(r) \in T
  BY <1>1, DrainNextFacts
<1>4. Drained(q, last) \in T
  BY <1>2, <1>3, DrainedIn
<1> QED BY <1>1, <1>4

-----------------------------------------------------------------------------
(* The inductive invariant of the link.                                    *)

\* The number of a rank less than half of the sequence space behind D.
Current(s, D) == \E x \in Nat : x <= D /\ D - x < Half /\ s = x % SeqSpan

\* What the sender keeps of the datagram with rank v is at the peer.
Arrived(v, ds, peer) ==
    \A d \in Members(ds) : d.seq = v % SeqSpan => FrameRanks(d.frames) \subseteq peer

\* A datagram in flight holds what is kept of it for a resend.
SameFrames(ns, ds) ==
    \A e \in Members(ns) : \A d \in Members(ds) :
        e.seq = d.seq => FrameRanks(d.frames) \subseteq FrameRanks(e.frames)

\* The datagrams in flight have the ranks nr, in the order they were sent.
InFlight(ns, nr, D, N) ==
    /\ nr \in Seq(Nat) /\ Len(nr) = Len(ns)
    /\ \A j \in 1 .. Len(ns) :
          ns[j].seq = nr[j] % SeqSpan /\ N < nr[j] /\ nr[j] <= D /\ D - nr[j] < Half
    /\ \A i, j \in 1 .. Len(ns) : i < j => nr[i] < nr[j]

\* The peer's ring holds ranks that arrived.
Remembered(h, rank, N, D, ds, peer) ==
    /\ Sound(h, rank, N)
    /\ \A i \in Slots : D - rank[i] < Half
    /\ \A i \in ValidSlots(h) : Arrived(rank[i], ds, peer)

\* An ACK frame in flight claims ranks that arrived.
Claimed(ack, D, ds, peer) ==
    ack.kind = "keepalive" \/
    \E A, B \in Nat, V \in SUBSET Nat :
        /\ Claims(ack, A, B, V) /\ A <= D /\ D - A < Half
        /\ \A v \in V : Arrived(v, ds, peer)

\* dgramSeq is the number of rank D and N the newest rank that arrived.
LinkNumbers(D, N, rank, nr) ==
    /\ dgramSeq = D % SeqSpan /\ N <= D
    /\ InFlight(net, nr, D, N)
    /\ Remembered(peerHistory, rank, N, D, sendDgrams, AtPeer)
    /\ \A d \in Members(sendDgrams) : Current(d.seq, D)
    /\ \A ack \in Members(ackNet) : Claimed(ack, D, sendDgrams, AtPeer)

LinkTypes ==
    /\ sendRel \in SeqNums /\ sent \in Seq(Seq(Nat)) /\ NumFrames \in Nat
    /\ toSend \in Seq(Frames) /\ sendDgrams \in Seq(Dgrams) /\ net \in Seq(Dgrams)
    /\ staging \in Seq(Frames) /\ receivedRel \in SeqNums
    /\ toReceive \in Seq(Messages) /\ received \in Seq(Seq(Nat))
    /\ ackNet \in Seq(Ack)

LinkInv ==
    /\ LinkTypes
    /\ RetainedUntilReceived
    /\ SameFrames(net, sendDgrams)
    /\ \E D, N \in Nat : \E rank, nr : LinkNumbers(D, N, rank, nr)

LEMMA AtPeerFacts ==
    /\ AtPeer = FrameRanks(staging) \cup RanksIn(toReceive)
                  \cup UNION {Members(m) : m \in Members(received)}
    /\ AtPeer' = FrameRanks(staging') \cup RanksIn(toReceive')
                   \cup UNION {Members(m) : m \in Members(received')}
<1>1. AtPeer = FrameRanks(staging) \cup RanksIn(toReceive)
                  \cup UNION {Members(m) : m \in Members(received)}
  BY DEF AtPeer, RanksIn, Members
<1>2. AtPeer' = FrameRanks(staging') \cup RanksIn(toReceive')
                   \cup UNION {Members(m) : m \in Members(received')}
  BY DEF AtPeer, RanksIn, Members
<1> QED BY <1>1, <1>2

LEMMA AtSenderFacts ==
    /\ AtSender = FrameRanks(toSend) \cup RanksKept(sendDgrams)
    /\ AtSender' = FrameRanks(toSend') \cup RanksKept(sendDgrams')
<1>1. AtSender = FrameRanks(toSend) \cup RanksKept(sendDgrams)
  BY DEF AtSender, RanksKept
<1>2. AtSender' = FrameRanks(toSend') \cup RanksKept(sendDgrams')
  BY DEF AtSender, RanksKept
<1> QED BY <1>1, <1>2

-----------------------------------------------------------------------------
(* The sender goes on to number datagrams, the peer keeps what it has.     *)

\* Of ds2 what is not of ds has one of the k numbers after D.
Extends(ds2, ds, D, k) ==
    \A d \in Members(ds2) : d \in Members(ds) \/ \E i \in 1 .. k : d.seq = (D + i) % SeqSpan

\* Numbers less than the sequence space apart.
LEMMA OneRank ==
    ASSUME NEW a \in Int, NEW b \in Int, a - b < SeqSpan, b - a < SeqSpan,
           a % SeqSpan = b % SeqSpan
    PROVE  a = b
BY ConstantFacts, ResidueWindow

LEMMA ArrivedKept ==
    ASSUME NEW v \in Int, NEW D \in Nat, NEW k \in Nat, v <= D, D + k - v < SeqSpan,
           NEW ds, NEW ds2, NEW peer, NEW peer2, Arrived(v, ds, peer),
           Extends(ds2, ds, D, k), peer \subseteq peer2
    PROVE  Arrived(v, ds2, peer2)
<1> SUFFICES ASSUME NEW d \in Members(ds2), d.seq = v % SeqSpan
             PROVE  FrameRanks(d.frames) \subseteq peer2
  BY DEF Arrived
<1>1. CASE d \in Members(ds)
  BY <1>1 DEF Arrived
<1>2. CASE d \notin Members(ds)
  <2>1. PICK i \in 1 .. k : d.seq = (D + i) % SeqSpan
    BY <1>2 DEF Extends
  <2>2. PICK a : a = D + i
    OBVIOUS
  <2>3. a \in Int /\ a - v < SeqSpan /\ v - a < SeqSpan /\ a % SeqSpan = v % SeqSpan /\ a # v
    BY <2>1, <2>2, ConstantFacts
  <2> QED BY <2>3, OneRank
<1> QED BY <1>1, <1>2

LEMMA RememberedKept ==
    ASSUME NEW h, NEW rank, NEW N \in Nat, NEW D \in Nat, NEW k \in Nat, N <= D,
           NEW ds, NEW ds2, NEW peer, NEW peer2, Remembered(h, rank, N, D, ds, peer),
           Extends(ds2, ds, D, k), peer \subseteq peer2,
           NEW D2, D2 = D + k, \A i \in Slots : D + k - rank[i] < Half
    PROVE  Remembered(h, rank, N, D2, ds2, peer2)
<1>1. Sound(h, rank, N) /\ \A i \in Slots : rank[i] \in Int /\ rank[i] <= N
  BY DEF Remembered, Sound, Slotted, Ranks
<1>2. \A i \in Slots : D2 - rank[i] < Half
  <2>1. ASSUME NEW i \in Slots PROVE D2 - rank[i] < Half
    BY <1>1
  <2> QED BY <2>1
<1>3. ASSUME NEW i \in ValidSlots(h) PROVE Arrived(rank[i], ds2, peer2)
  <2>1. i \in Slots /\ Arrived(rank[i], ds, peer)
    BY DEF Remembered, ValidSlots
  <2>2. PICK v : v = rank[i]
    OBVIOUS
  <2>3. v \in Int /\ v <= D /\ D + k - v < SeqSpan /\ Arrived(v, ds, peer)
    BY <1>1, <2>1, <2>2, ConstantFacts
  <2>4. Arrived(v, ds2, peer2)
    BY <2>3, ArrivedKept
  <2> QED BY <2>2, <2>4
<1> QED BY <1>1, <1>2, <1>3 DEF Remembered

LEMMA ClaimedKept ==
    ASSUME NEW ack, NEW D \in Nat, NEW k \in Nat,
           NEW ds, NEW ds2, NEW peer, NEW peer2, Claimed(ack, D, ds, peer),
           Extends(ds2, ds, D, k), peer \subseteq peer2, NEW D2, D2 = D + k,
           k = 0 \/ (ack.kind # "keepalive" => SeqDist(ack.last, D % SeqSpan) + k < Half)
    PROVE  Claimed(ack, D2, ds2, peer2)
<1>1. CASE ack.kind = "keepalive"
  BY <1>1 DEF Claimed
<1>2. CASE ack.kind # "keepalive"
  <2>1. PICK A, B \in Nat, V \in SUBSET Nat :
            /\ Claims(ack, A, B, V) /\ A <= D /\ D - A < Half
            /\ \A v \in V : Arrived(v, ds, peer)
    BY <1>2 DEF Claimed
  <2>2. ack.last = A % SeqSpan /\ A - B < HistorySize /\ V \subseteq B .. A
    BY <2>1 DEF Claims
  <2>3. D + k - A < Half
    <3>1. CASE k = 0
      BY <2>1, <3>1
    <3>2. CASE k # 0
      <4>1. SeqDist(A % SeqSpan, D % SeqSpan) = D - A
        <5>1. 0 <= D - A /\ D - A < SeqSpan /\ A \in Int /\ D \in Int
          BY <2>1, ConstantFacts
        <5> QED BY <5>1, SeqDistance
      <4> QED BY <1>2, <2>1, <2>2, <3>2, <4>1
    <3> QED BY <3>1, <3>2
  <2>4. ASSUME NEW v \in V PROVE Arrived(v, ds2, peer2)
    <3>1. v \in Int /\ B <= v /\ v <= A /\ Arrived(v, ds, peer)
      BY <2>1, <2>2
    <3>2. v <= D /\ D + k - v < SeqSpan
      BY <2>1, <2>2, <2>3, <3>1, ConstantFacts
    <3> QED BY <3>1, <3>2, ArrivedKept
  <2>5. A <= D2 /\ D2 - A < Half
    BY <2>1, <2>3
  <2> QED BY <2>1, <2>4, <2>5 DEF Claimed
<1> QED BY <1>1, <1>2

\* A datagram that an ACK frame in flight takes out arrived.
LEMMA AckedArrived ==
    ASSUME NEW ack, NEW D \in Nat, NEW ds, NEW peer, Claimed(ack, D, ds, peer),
           NEW d \in Members(ds), Current(d.seq, D), IsAcked(ack, d.seq)
    PROVE  FrameRanks(d.frames) \subseteq peer
<1>1. ack.kind # "keepalive"
  BY DEF IsAcked
<1>2. PICK A, B \in Nat, V \in SUBSET Nat :
          /\ Claims(ack, A, B, V) /\ A <= D /\ D - A < Half
          /\ \A v \in V : Arrived(v, ds, peer)
  BY <1>1 DEF Claimed
<1>3. PICK x \in Nat : x <= D /\ D - x < Half /\ d.seq = x % SeqSpan
  BY DEF Current
<1>4. A - B < HistorySize
  BY <1>2 DEF Claims
<1>5. x - B < SeqSpan /\ A - x < Half
  BY <1>2, <1>3, <1>4, ConstantFacts
<1>6. IsAcked(ack, x % SeqSpan)
  BY <1>3
<1>7. x \in V
  BY <1>2, <1>5, <1>6, AckedFacts
<1> QED BY <1>2, <1>3, <1>7 DEF Arrived

-----------------------------------------------------------------------------
(* send_pending_data.                                                      *)

LEMMA NumberedFacts ==
    ASSUME NEW D \in Nat, dgramSeq = D % SeqSpan, NEW ds \in Seq(Seq(Frames)),
           NEW n \in 0 .. Len(ds)
    PROVE  /\ Numbered(ds, n) \in Seq(Dgrams) /\ Len(Numbered(ds, n)) = n
           /\ \A i \in 1 .. n : /\ Numbered(ds, n)[i].seq = (D + i) % SeqSpan
                                /\ Numbered(ds, n)[i].frames = ds[i]
           /\ Recorded(ds, n) \in Seq(Dgrams) /\ Len(Recorded(ds, n)) = n
           /\ \A i \in 1 .. n : /\ Recorded(ds, n)[i].seq = (D + i) % SeqSpan
                                /\ FrameRanks(Recorded(ds, n)[i].frames) = FrameRanks(ds[i])
                                /\ Members(Recorded(ds, n)[i].frames) \subseteq Members(ds[i])
<1>1. n \in Nat /\ \A i \in 1 .. n : ds[i] \in Seq(Frames)
  BY MemberFacts
<1>2. \A i \in 1 .. n : (dgramSeq + i) % SeqSpan = (D + i) % SeqSpan
                        /\ (D + i) % SeqSpan \in SeqNums
  <2>1. ASSUME NEW i \in 1 .. n
        PROVE  (dgramSeq + i) % SeqSpan = (D + i) % SeqSpan /\ (D + i) % SeqSpan \in SeqNums
    <3>1. i \in Int /\ D \in Int /\ D + i \in Int
      BY <1>1
    <3>2. ((D % SeqSpan) + i) % SeqSpan = (D + i) % SeqSpan
      BY <3>1, ConstantFacts, ResidueStep
    <3> QED BY <3>1, <3>2, SlotFacts
  <2> QED BY <2>1
<1>3. PICK p, q : p = Numbered(ds, n) /\ q = Recorded(ds, n)
  OBVIOUS
<1>4. p = [i \in 1 .. n |-> [seq |-> (dgramSeq + i) % SeqSpan, frames |-> ds[i]]]
  BY <1>3 DEF Numbered
<1>5. \A i \in 1 .. n : p[i] = [seq |-> (D + i) % SeqSpan, frames |-> ds[i]]
  BY <1>2, <1>4
<1>6. \A i \in 1 .. n : /\ Reliables(ds[i]) \in Seq(Frames)
                        /\ FrameRanks(Reliables(ds[i])) = FrameRanks(ds[i])
                        /\ Members(Reliables(ds[i])) \subseteq Members(ds[i])
  BY <1>1, RanksOfReliables
<1>7. q = [i \in 1 .. n |-> [p[i] EXCEPT !.frames = Reliables(p[i].frames)]]
  BY <1>3 DEF Recorded
<1>8. ASSUME NEW i \in 1 .. n
      PROVE  /\ p[i] \in Dgrams /\ p[i].seq = (D + i) % SeqSpan /\ p[i].frames = ds[i]
             /\ q[i] \in Dgrams /\ q[i].seq = (D + i) % SeqSpan
             /\ FrameRanks(q[i].frames) = FrameRanks(ds[i])
             /\ Members(q[i].frames) \subseteq Members(ds[i])
  <2>1. PICK s, f, g : s = (D + i) % SeqSpan /\ f = ds[i] /\ g = Reliables(f)
    OBVIOUS
  <2>2. /\ s \in SeqNums /\ f \in Seq(Frames) /\ g \in Seq(Frames)
        /\ FrameRanks(g) = FrameRanks(f) /\ Members(g) \subseteq Members(f)
    BY <1>1, <1>2, <1>6, <2>1
  <2>3. p[i] = [seq |-> s, frames |-> f]
    BY <1>5, <2>1
  <2>4. p[i].frames = f /\ p[i].seq = s
    BY <2>3
  <2>5. q[i] = [p[i] EXCEPT !.frames = Reliables(p[i].frames)]
    BY <1>7
  <2>6. Reliables(p[i].frames) = g
    BY <2>1, <2>4
  <2>7. q[i] = [p[i] EXCEPT !.frames = g]
    BY <2>5, <2>6
  <2>8. q[i] = [seq |-> s, frames |-> g]
    BY <2>3, <2>7
  <2>9. [seq |-> s, frames |-> f] \in Dgrams /\ [seq |-> s, frames |-> g] \in Dgrams
    BY <2>2 DEF Dgrams
  <2> QED BY <2>1, <2>2, <2>3, <2>4, <2>8, <2>9
<1>9. p \in Seq(Dgrams) /\ Len(p) = n
  <2>1. p = [i \in 1 .. n |-> p[i]]
    BY <1>4
  <2>2. p \in [1 .. n -> Dgrams]
    BY <1>8, <2>1
  <2> QED BY <1>1, <2>2, MembersOfFunction
<1>10. q \in Seq(Dgrams) /\ Len(q) = n
  <2>1. q = [i \in 1 .. n |-> q[i]]
    BY <1>7
  <2>2. q \in [1 .. n -> Dgrams]
    BY <1>8, <2>1
  <2> QED BY <1>1, <2>2, MembersOfFunction
<1> QED BY <1>3, <1>8, <1>9, <1>10

\* A number in use keeps its distance.
LEMMA InUse ==
    ASSUME NEW D \in Nat, NEW k \in Nat, NEW x \in Int, x <= D, D - x < Half,
           SeqDist(x % SeqSpan, D % SeqSpan) + k < Half
    PROVE  D + k - x < Half
<1>1. SeqDist(x % SeqSpan, D % SeqSpan) = D - x
  <2>1. 0 <= D - x /\ D - x < SeqSpan /\ D \in Int
    BY ConstantFacts
  <2> QED BY <2>1, SeqDistance
<1> QED BY <1>1

\* The ranks of the datagrams in flight when more are written.
LEMMA InFlightMore ==
    ASSUME NEW ns \in Seq(Dgrams), NEW nr, NEW D \in Nat, NEW N \in Nat, N <= D,
           InFlight(ns, nr, D, N), NEW more \in Seq(Dgrams), NEW k \in Nat, Len(more) <= k,
           k < Half, \A i \in 1 .. Len(more) : more[i].seq = (D + i) % SeqSpan,
           \A j \in 1 .. Len(ns) : D + k - nr[j] < Half, NEW D2, D2 = D + k
    PROVE  \E nr2 : InFlight(ns \o more, nr2, D2, N)
<1>1. PICK m, l : m = Len(more) /\ l = Len(ns)
  OBVIOUS
<1>2. m \in Nat /\ l \in Nat /\ m <= k
  BY <1>1, MemberFacts
<1>3. /\ nr \in Seq(Nat) /\ Len(nr) = l
      /\ \A j \in 1 .. l :
            ns[j].seq = nr[j] % SeqSpan /\ N < nr[j] /\ nr[j] <= D /\ D + k - nr[j] < Half
            /\ nr[j] \in Nat
      /\ \A i, j \in 1 .. l : i < j => nr[i] < nr[j]
  BY <1>1, MemberFacts DEF InFlight
<1>4. PICK mr : mr = [i \in 1 .. m |-> D + i]
  OBVIOUS
<1>5. mr \in Seq(Nat) /\ Len(mr) = m /\ \A i \in 1 .. m : mr[i] = D + i
  <2>1. mr \in [1 .. m -> Nat]
    BY <1>2, <1>4
  <2> QED BY <1>2, <1>4, <2>1, MembersOfFunction
<1>6. PICK x, s : x = nr \o mr /\ s = ns \o more
  OBVIOUS
<1>7. /\ x \in Seq(Nat) /\ Len(x) = l + m
      /\ \A i \in 1 .. l + m : x[i] = IF i <= l THEN nr[i] ELSE mr[i - l]
  BY <1>3, <1>5, <1>6, ConcatProperties
<1>8. /\ Len(s) = l + m
      /\ \A i \in 1 .. l + m : s[i] = IF i <= l THEN ns[i] ELSE more[i - l]
  BY <1>1, <1>6, ConcatProperties
<1>9. ASSUME NEW i \in 1 .. l + m
      PROVE  \/ i \in 1 .. l /\ x[i] = nr[i] /\ s[i] = ns[i]
             \/ ~(i <= l) /\ i - l \in 1 .. m /\ x[i] = D + (i - l) /\ s[i] = more[i - l]
  <2>1. CASE i <= l
    BY <1>2, <1>7, <1>8, <2>1
  <2>2. CASE ~(i <= l)
    <3>1. i - l \in 1 .. m
      BY <1>2, <2>2
    <3> QED BY <1>5, <1>7, <1>8, <2>2, <3>1
  <2> QED BY <2>1, <2>2
<1>10. ASSUME NEW i \in 1 .. l + m
       PROVE  s[i].seq = x[i] % SeqSpan /\ N < x[i] /\ x[i] <= D2 /\ D2 - x[i] < Half
  <2>1. CASE i \in 1 .. l /\ x[i] = nr[i] /\ s[i] = ns[i]
    <3>1. PICK y : y = nr[i]
      OBVIOUS
    <3>2. /\ y \in Nat /\ N < y /\ y <= D /\ D + k - y < Half
          /\ s[i].seq = y % SeqSpan /\ x[i] = y
      BY <1>3, <2>1, <3>1
    <3> QED BY <3>2
  <2>2. CASE i - l \in 1 .. m /\ x[i] = D + (i - l) /\ s[i] = more[i - l]
    <3>1. PICK j, y : j = i - l /\ y = D + j
      OBVIOUS
    <3>2. j \in 1 .. m /\ x[i] = y /\ s[i].seq = y % SeqSpan
      BY <1>1, <2>2, <3>1
    <3>3. N < y /\ y <= D2 /\ D2 - y < Half
      BY <1>2, <3>1, <3>2, ConstantFacts
    <3> QED BY <3>2, <3>3
  <2> QED BY <1>9, <2>1, <2>2
<1>11. ASSUME NEW i \in 1 .. l + m, NEW j \in 1 .. l + m, i < j PROVE x[i] < x[j]
  <2>1. CASE i <= l /\ j <= l
    <3>1. i \in 1 .. l /\ j \in 1 .. l
      BY <1>2, <2>1
    <3> QED BY <1>3, <1>9, <1>11, <3>1
  <2>2. CASE i <= l /\ ~(j <= l)
    <3>1. PICK y : y = nr[i]
      OBVIOUS
    <3>2. i \in 1 .. l /\ j - l \in 1 .. m
      BY <1>2, <2>2
    <3>3. y \in Nat /\ y <= D
      BY <1>3, <3>1, <3>2
    <3>4. x[i] = y
      BY <1>9, <2>2, <3>1
    <3>5. x[j] = D + (j - l)
      BY <1>9, <2>2
    <3>6. y < D + (j - l)
      BY <1>2, <3>2, <3>3
    <3> QED BY <3>4, <3>5, <3>6
  <2>3. CASE ~(i <= l)
    <3>1. ~(j <= l)
      BY <1>2, <1>11, <2>3
    <3>2. x[i] = D + (i - l) /\ x[j] = D + (j - l)
      BY <1>9, <2>3, <3>1
    <3> QED BY <1>2, <1>11, <3>2
  <2> QED BY <2>1, <2>2, <2>3
<1>12. InFlight(s, x, D2, N)
  <2>1. Len(x) = Len(s) /\ Len(s) = l + m
    BY <1>7, <1>8
  <2> QED BY <1>7, <1>10, <1>11, <2>1 DEF InFlight
<1> QED BY <1>6, <1>12

\* What send_pending_data does with the queue q and the datagrams ds0: w of the
\* datagrams are written, k recorded.
SendPending(q, ds0, ds, w, k) ==
    /\ w \in Nat /\ k \in Nat /\ w <= k /\ k <= Len(ds)
    /\ InTime(NumbersInUse(ds0), k)
    /\ net' = net \o Numbered(ds, w)
    /\ sendDgrams' = ds0 \o Recorded(ds, k)
    /\ dgramSeq' = (dgramSeq + k) % SeqSpan
    /\ toSend' = SubSeq(q, k * Capacity + 1, Len(q))

LEMMA SendPendingFacts ==
    ASSUME NEW q \in Seq(Frames), NEW ds0, NEW due \in BOOLEAN, SendPendingData(q, ds0, due)
    PROVE  \E w, k : SendPending(q, ds0, Datagrams(q, due), w, k)
<1>1. PICK ds, used : ds = Datagrams(q, due) /\ used = NumbersInUse(ds0)
  OBVIOUS
<1>2. Len(ds) \in Nat
  <2>1. ds \in Seq(Seq(Frames))
    BY <1>1, DatagramsFacts DEF Divided
  <2> QED BY <2>1, MemberFacts
<1>3. PICK w \in 0 .. Len(ds) :
          LET k == Min2(w + 1, Len(ds))
          IN  /\ w < Len(ds) => MayLose
              /\ InTime(used, k)
              /\ losses' = IF w < Len(ds) THEN losses + 1 ELSE losses
              /\ net' = net \o Numbered(ds, w)
              /\ sendDgrams' = ds0 \o Recorded(ds, k)
              /\ dgramSeq' = (dgramSeq + k) % SeqSpan
              /\ toSend' = SubSeq(q, k * Capacity + 1, Len(q))
  BY <1>1 DEF SendPendingData
<1>4. PICK k : k = Min2(w + 1, Len(ds))
  OBVIOUS
<1>5. /\ InTime(used, k) /\ net' = net \o Numbered(ds, w)
      /\ sendDgrams' = ds0 \o Recorded(ds, k) /\ dgramSeq' = (dgramSeq + k) % SeqSpan
      /\ toSend' = SubSeq(q, k * Capacity + 1, Len(q))
  BY <1>3, <1>4
<1>6. w \in Nat /\ k \in Nat /\ w <= k /\ k <= Len(ds)
  BY <1>2, <1>4 DEF Min2
<1> QED BY <1>1, <1>5, <1>6 DEF SendPending

\* The datagrams ds have the numbers after D.
Consecutive(ds, D) == \A i \in 1 .. Len(ds) : ds[i].seq = (D + i) % SeqSpan

\* Those of ds are less than half of the sequence space old after k more.
Timely(ds, D, k) ==
    \A d \in Members(ds) : \E x \in Nat : x <= D /\ D + k - x < Half /\ d.seq = x % SeqSpan

\* Both have the same reliable frames.
SameRanks(ds, more) ==
    \A i \in 1 .. Len(more) : FrameRanks(ds[i].frames) = FrameRanks(more[i].frames)

\* What the numbers in use are after k more.
LEMMA InTimeFacts ==
    ASSUME NEW D \in Nat, NEW N \in Nat, NEW rank, NEW nr, LinkNumbers(D, N, rank, nr),
           NEW k \in Nat, NEW ds0, InTime(NumbersInUse(ds0), k),
           Members(ds0) \subseteq Members(sendDgrams)
    PROVE  /\ k < Half
           /\ Timely(ds0, D, k) /\ Timely(net, D, k)
           /\ \A j \in 1 .. Len(net) : D + k - nr[j] < Half
           /\ \A i \in Slots : D + k - rank[i] < Half
           /\ \A ack \in Members(ackNet) :
                 ack.kind # "keepalive" => SeqDist(ack.last, D % SeqSpan) + k < Half
<1>1. dgramSeq = D % SeqSpan
  BY DEF LinkNumbers
<1>2. ASSUME NEW s \in NumbersInUse(ds0) PROVE SeqDist(s, D % SeqSpan) + k < Half
  BY <1>1 DEF InTime, Half
<1>3. ASSUME NEW d \in Members(ds0)
      PROVE  \E x \in Nat : x <= D /\ D + k - x < Half /\ d.seq = x % SeqSpan
  <2>1. PICK x \in Nat : x <= D /\ D - x < Half /\ d.seq = x % SeqSpan
    BY DEF LinkNumbers, Current
  <2>2. d.seq \in NumbersInUse(ds0)
    BY DEF NumbersInUse, Members
  <2>3. SeqDist(x % SeqSpan, D % SeqSpan) + k < Half
    BY <1>2, <2>1, <2>2
  <2>4. D + k - x < Half
    <3>1. x \in Int
      OBVIOUS
    <3> QED BY <2>1, <2>3, <3>1, InUse
  <2> QED BY <2>1, <2>4
<1>4. ASSUME NEW j \in 1 .. Len(net)
      PROVE  /\ nr[j] \in Nat /\ nr[j] <= D /\ D + k - nr[j] < Half
             /\ net[j].seq = nr[j] % SeqSpan
  <2>1. PICK x : x = nr[j]
    OBVIOUS
  <2>2. x \in Nat /\ net[j].seq = x % SeqSpan /\ x <= D /\ D - x < Half
    BY <2>1, MemberFacts DEF LinkNumbers, InFlight
  <2>3. net[j].seq \in NumbersInUse(ds0)
    BY DEF NumbersInUse
  <2>4. SeqDist(x % SeqSpan, D % SeqSpan) + k < Half
    BY <1>2, <2>2, <2>3
  <2>5. D + k - x < Half
    <3>1. x \in Int
      BY <2>2
    <3> QED BY <2>2, <2>4, <3>1, InUse
  <2> QED BY <2>1, <2>2, <2>5
<1>5. ASSUME NEW i \in Slots PROVE D + k - rank[i] < Half /\ rank[i] \in Int /\ rank[i] <= D
  <2>1. PICK x : x = rank[i]
    OBVIOUS
  <2>2. Slotted(peerHistory, rank, N) /\ D - x < Half /\ N <= D
    BY <2>1 DEF LinkNumbers, Remembered, Sound
  <2>3. x \in Int /\ peerHistory.el[i].seq = x % SeqSpan /\ x <= N
    BY <2>1, <2>2 DEF Slotted, Ranks
  <2>4. peerHistory.el[i].seq \in NumbersInUse(ds0)
    BY DEF NumbersInUse
  <2>5. SeqDist(x % SeqSpan, D % SeqSpan) + k < Half
    BY <1>2, <2>3, <2>4
  <2>6. x <= D
    BY <2>2, <2>3
  <2>7. D + k - x < Half
    BY <2>2, <2>3, <2>5, <2>6, InUse
  <2> QED BY <2>1, <2>3, <2>6, <2>7
<1>6. ASSUME NEW ack \in Members(ackNet), ack.kind # "keepalive"
      PROVE  SeqDist(ack.last, D % SeqSpan) + k < Half
  <2>1. PICK j \in 1 .. Len(ackNet) : ack = ackNet[j]
    BY DEF Members
  <2>2. ack.last \in NumbersInUse(ds0)
    BY <1>6, <2>1 DEF NumbersInUse
  <2> QED BY <1>2, <2>2
<1>7. k < Half
  <2>1. 0 \in Slots
    BY ConstantFacts DEF Slots
  <2>2. PICK x : x = rank[0]
    OBVIOUS
  <2>3. D + k - x < Half /\ x \in Int /\ x <= D
    BY <1>5, <2>1, <2>2
  <2> QED BY <2>3, ConstantFacts
<1>8. Timely(net, D, k)
  <2>1. ASSUME NEW d \in Members(net)
        PROVE  \E x \in Nat : x <= D /\ D + k - x < Half /\ d.seq = x % SeqSpan
    <3>1. PICK j \in 1 .. Len(net) : d = net[j]
      BY DEF Members
    <3> QED BY <1>4, <3>1
  <2> QED BY <2>1 DEF Timely
<1>9. Timely(ds0, D, k)
  BY <1>3 DEF Timely
<1> QED BY <1>4, <1>5, <1>6, <1>7, <1>8, <1>9

\* The datagrams in flight and those kept after k more were numbered.
LEMMA SameFramesKept ==
    ASSUME NEW D \in Nat, NEW ns \in Seq(Dgrams), NEW ds, NEW ds0 \in Seq(Dgrams),
           NEW k \in Nat, k < Half, Timely(ns, D, k), Timely(ds0, D, k),
           SameFrames(ns, ds), Members(ds0) \subseteq Members(ds),
           NEW more \in Seq(Dgrams), NEW kept \in Seq(Dgrams), Len(more) <= k, Len(kept) = k,
           Consecutive(more, D), Consecutive(kept, D), SameRanks(kept, more)
    PROVE  SameFrames(ns \o more, ds0 \o kept)
<1>1. Members(ns \o more) = Members(ns) \cup Members(more)
      /\ Members(ds0 \o kept) = Members(ds0) \cup Members(kept)
  BY MembersOfConcat
<1>2. Len(more) \in Nat
  BY MemberFacts
<1>3. /\ \A e \in Members(ns) \cup Members(ds0) :
            \E x \in Nat : x <= D /\ D + k - x < Half /\ e.seq = x % SeqSpan
      /\ \A i \in 1 .. Len(more) : more[i].seq = (D + i) % SeqSpan
      /\ \A i \in 1 .. k : kept[i].seq = (D + i) % SeqSpan
  BY DEF Timely, Consecutive
<1>4. ASSUME NEW x \in Nat, x <= D, D + k - x < Half, NEW i \in 1 .. k
      PROVE  x % SeqSpan # (D + i) % SeqSpan
  <2>1. PICK a : a = D + i
    OBVIOUS
  <2>2. a \in Int /\ x \in Int /\ a - x < SeqSpan /\ x - a < SeqSpan /\ a # x
    BY <1>4, <2>1, ConstantFacts
  <2> QED BY <2>1, <2>2, OneRank
<1> SUFFICES ASSUME NEW e \in Members(ns \o more), NEW d \in Members(ds0 \o kept),
                    e.seq = d.seq
             PROVE  FrameRanks(d.frames) \subseteq FrameRanks(e.frames)
  BY DEF SameFrames
<1>5. CASE e \in Members(ns) /\ d \in Members(ds0)
  BY <1>5 DEF SameFrames
<1>6. CASE e \in Members(ns) /\ d \in Members(kept)
  <2>1. PICK i \in 1 .. k : d = kept[i]
    BY <1>6 DEF Members
  <2> QED BY <1>3, <1>4, <1>6, <2>1
<1>7. CASE e \in Members(more) /\ d \in Members(ds0)
  <2>1. PICK i \in 1 .. Len(more) : e = more[i]
    BY <1>7 DEF Members
  <2>2. i \in 1 .. k
    BY <1>2
  <2> QED BY <1>3, <1>4, <1>7, <2>1, <2>2
<1>8. CASE e \in Members(more) /\ d \in Members(kept)
  <2>1. PICK i \in 1 .. Len(more) : e = more[i]
    BY <1>8 DEF Members
  <2>2. PICK j \in 1 .. k : d = kept[j]
    BY <1>8 DEF Members
  <2>3. PICK a, b : a = D + i /\ b = D + j
    OBVIOUS
  <2>4. a \in Int /\ b \in Int /\ a - b < SeqSpan /\ b - a < SeqSpan
    BY <1>2, <2>3, ConstantFacts
  <2>5. a % SeqSpan = b % SeqSpan
    BY <1>3, <2>1, <2>2, <2>3
  <2>6. a = b
    BY <2>4, <2>5, OneRank
  <2>7. i = j
    <3>1. i \in Int /\ j \in Int /\ D + i = D + j
      BY <1>2, <2>1, <2>2, <2>3, <2>6
    <3> QED BY <3>1
  <2> QED BY <2>1, <2>2, <2>7 DEF SameRanks
<1> QED BY <1>1, <1>5, <1>6, <1>7, <1>8

LEMMA SendPendingInv ==
    ASSUME LinkInv, NEW q \in Seq(Frames), NEW ds0 \in Seq(Dgrams), NEW due \in BOOLEAN,
           Members(ds0) \subseteq Members(sendDgrams), SendPendingData(q, ds0, due),
           UNCHANGED <<peerVars, ackNet>>,
           sendRel' \in SeqNums, sent' \in Seq(Seq(Nat)), NumFrames' \in Nat,
           1 .. NumFrames' \subseteq FrameRanks(q) \cup RanksKept(ds0) \cup AtPeer
    PROVE  LinkInv'
<1>1. /\ LinkTypes /\ SameFrames(net, sendDgrams)
      /\ \E D, N \in Nat : \E rank, nr : LinkNumbers(D, N, rank, nr)
  BY DEF LinkInv
<1>2. PICK D \in Nat, N \in Nat : \E rank, nr : LinkNumbers(D, N, rank, nr)
  BY <1>1
<1>3. PICK rank, nr : LinkNumbers(D, N, rank, nr)
  BY <1>2
<1>4. /\ dgramSeq = D % SeqSpan /\ N <= D /\ InFlight(net, nr, D, N)
      /\ Remembered(peerHistory, rank, N, D, sendDgrams, AtPeer)
      /\ \A ack \in Members(ackNet) : Claimed(ack, D, sendDgrams, AtPeer)
  BY <1>3 DEF LinkNumbers
<1>5. /\ net \in Seq(Dgrams) /\ sendDgrams \in Seq(Dgrams) /\ staging \in Seq(Frames)
      /\ receivedRel \in SeqNums /\ toReceive \in Seq(Messages) /\ received \in Seq(Seq(Nat))
      /\ ackNet \in Seq(Ack)
  BY <1>1 DEF LinkTypes
<1>6. PICK ds : ds = Datagrams(q, due)
  OBVIOUS
<1>7. /\ ds \in Seq(Seq(Frames))
      /\ \A n \in 0 .. Len(ds) :
            /\ SubSeq(q, n * Capacity + 1, Len(q)) \in Seq(Frames)
            /\ FrameRanks(q) \subseteq FrameRanks(SubSeq(q, n * Capacity + 1, Len(q)))
                                         \cup UNION {FrameRanks(ds[i]) : i \in 1 .. n}
  <2>1. Divided(q, ds)
    BY <1>6, DatagramsFacts
  <2> QED BY <2>1 DEF Divided
<1>8. PICK w, k : SendPending(q, ds0, ds, w, k)
  BY <1>6, SendPendingFacts
<1>9. PICK more, kept : more = Numbered(ds, w) /\ kept = Recorded(ds, k)
  OBVIOUS
<1>10. /\ w \in Nat /\ k \in Nat /\ w <= k /\ k <= Len(ds)
       /\ InTime(NumbersInUse(ds0), k)
       /\ net' = net \o more /\ sendDgrams' = ds0 \o kept
       /\ dgramSeq' = (dgramSeq + k) % SeqSpan
       /\ toSend' = SubSeq(q, k * Capacity + 1, Len(q))
  BY <1>8, <1>9 DEF SendPending
<1>11. w \in 0 .. Len(ds) /\ k \in 0 .. Len(ds)
  BY <1>7, <1>10, MemberFacts
<1>12. /\ more \in Seq(Dgrams) /\ Len(more) = w
       /\ \A i \in 1 .. w : more[i].seq = (D + i) % SeqSpan /\ more[i].frames = ds[i]
  BY <1>4, <1>7, <1>9, <1>11, NumberedFacts
<1>13. /\ kept \in Seq(Dgrams) /\ Len(kept) = k
       /\ \A i \in 1 .. k : /\ kept[i].seq = (D + i) % SeqSpan
                            /\ FrameRanks(kept[i].frames) = FrameRanks(ds[i])
  BY <1>4, <1>7, <1>9, <1>11, NumberedFacts
<1>14. /\ k < Half
       /\ Timely(ds0, D, k) /\ Timely(net, D, k)
       /\ \A j \in 1 .. Len(net) : D + k - nr[j] < Half
       /\ \A i \in Slots : D + k - rank[i] < Half
       /\ \A ack \in Members(ackNet) :
             ack.kind # "keepalive" => SeqDist(ack.last, D % SeqSpan) + k < Half
  BY <1>3, <1>10, InTimeFacts
<1>15. PICK D2 : D2 = D + k
  OBVIOUS
<1>16. D2 \in Nat /\ dgramSeq' = D2 % SeqSpan /\ N <= D2
  <2>1. ((D % SeqSpan) + k) % SeqSpan = (D + k) % SeqSpan
    <3>1. D \in Int /\ k \in Int
      BY <1>10
    <3> QED BY <3>1, ConstantFacts, ResidueStep
  <2> QED BY <1>4, <1>10, <1>15, <2>1
<1>17. PICK nr2 : InFlight(net \o more, nr2, D2, N)
  <2>1. Len(more) <= k /\ \A i \in 1 .. Len(more) : more[i].seq = (D + i) % SeqSpan
    BY <1>10, <1>12
  <2> QED BY <1>4, <1>5, <1>10, <1>12, <1>14, <1>15, <2>1, InFlightMore
<1>18. Members(sendDgrams') = Members(ds0) \cup Members(kept) /\ sendDgrams' \in Seq(Dgrams)
  BY <1>10, <1>13, MembersOfConcat
<1>19. PICK ds2, peer : ds2 = sendDgrams' /\ peer = AtPeer
  OBVIOUS
<1>20. Extends(ds2, sendDgrams, D, k)
  <2>1. ASSUME NEW d \in Members(kept) PROVE \E i \in 1 .. k : d.seq = (D + i) % SeqSpan
    <3>1. PICK i \in 1 .. Len(kept) : d = kept[i]
      BY DEF Members
    <3> QED BY <1>13, <3>1
  <2> QED BY <1>18, <1>19, <2>1 DEF Extends
<1>21. AtPeer' = peer
  BY <1>19, AtPeerFacts DEF peerVars
<1>22. peerHistory' = peerHistory /\ ackNet' = ackNet
  BY DEF peerVars
<1>23. Remembered(peerHistory, rank, N, D2, ds2, peer)
  BY <1>4, <1>10, <1>14, <1>15, <1>19, <1>20, RememberedKept
<1>24. \A ack \in Members(ackNet) : Claimed(ack, D2, ds2, peer)
  BY <1>4, <1>10, <1>14, <1>15, <1>19, <1>20, ClaimedKept
<1>25. \A d \in Members(ds2) : Current(d.seq, D2)
  <2>1. ASSUME NEW d \in Members(ds0) PROVE Current(d.seq, D2)
    <3>1. PICK x \in Nat : x <= D /\ D + k - x < Half /\ d.seq = x % SeqSpan
      BY <1>14 DEF Timely
    <3>2. x <= D2 /\ D2 - x < Half
      BY <1>10, <1>15, <3>1
    <3> QED BY <3>1, <3>2 DEF Current
  <2>2. ASSUME NEW d \in Members(kept) PROVE Current(d.seq, D2)
    <3>1. PICK i \in 1 .. Len(kept) : d = kept[i]
      BY DEF Members
    <3>2. PICK x : x = D + i
      OBVIOUS
    <3>3. i \in 1 .. k /\ x \in Nat /\ x <= D2 /\ D2 - x < Half
      BY <1>10, <1>13, <1>14, <1>15, <3>1, <3>2, ConstantFacts
    <3>4. d.seq = x % SeqSpan
      BY <1>13, <3>1, <3>2, <3>3
    <3> QED BY <3>3, <3>4 DEF Current
  <2> QED BY <1>18, <1>19, <2>1, <2>2
<1>26. LinkNumbers(D2, N, rank, nr2)'
  BY <1>10, <1>16, <1>17, <1>19, <1>21, <1>22, <1>23, <1>24, <1>25 DEF LinkNumbers
<1>27. SameFrames(net', sendDgrams')
  <2>1. Len(more) <= k /\ \A i \in 1 .. Len(more) : i \in 1 .. k /\ i \in 1 .. w
    BY <1>10, <1>12
  <2>2. Consecutive(more, D) /\ Consecutive(kept, D) /\ SameRanks(kept, more)
    BY <1>12, <1>13, <2>1 DEF Consecutive, SameRanks
  <2>3. PICK ds1, ns : ds1 = sendDgrams /\ ns = net
    OBVIOUS
  <2>4. /\ ns \in Seq(Dgrams) /\ SameFrames(ns, ds1) /\ Members(ds0) \subseteq Members(ds1)
        /\ Timely(ns, D, k) /\ Timely(ds0, D, k)
    BY <1>1, <1>5, <1>14, <2>3
  <2>5. SameFrames(ns \o more, ds0 \o kept)
    BY <1>10, <1>12, <1>13, <1>14, <2>1, <2>2, <2>4, SameFramesKept
  <2> QED BY <1>10, <2>3, <2>5
<1>28. RetainedUntilReceived'
  <2>1. toSend' \in Seq(Frames)
        /\ FrameRanks(q) \subseteq FrameRanks(toSend')
                                     \cup UNION {FrameRanks(ds[i]) : i \in 1 .. k}
    BY <1>7, <1>10, <1>11
  <2>2. RanksKept(ds0) \subseteq RanksKept(sendDgrams')
    BY <1>18, KeptFacts
  <2>3. ASSUME NEW i \in 1 .. k PROVE FrameRanks(ds[i]) \subseteq RanksKept(sendDgrams')
    <3>1. kept[i] \in Members(sendDgrams') /\ FrameRanks(kept[i].frames) = FrameRanks(ds[i])
      BY <1>13, <1>18 DEF Members
    <3> QED BY <3>1, KeptFacts
  <2>4. FrameRanks(q) \cup RanksKept(ds0) \subseteq AtSender'
    BY <2>1, <2>2, <2>3, AtSenderFacts
  <2>5. 1 .. NumFrames' \subseteq AtSender' \cup AtPeer'
    BY <1>19, <1>21, <2>4
  <2> QED BY <2>5 DEF RetainedUntilReceived
<1>29. LinkTypes'
  <2>1. toSend' \in Seq(Frames)
    BY <1>7, <1>10, <1>11
  <2>2. net' \in Seq(Dgrams)
    BY <1>5, <1>10, <1>12, MembersOfConcat
  <2>3. /\ staging' \in Seq(Frames) /\ receivedRel' \in SeqNums
        /\ toReceive' \in Seq(Messages) /\ received' \in Seq(Seq(Nat)) /\ ackNet' \in Seq(Ack)
    BY <1>5 DEF peerVars
  <2> QED BY <1>18, <2>1, <2>2, <2>3 DEF LinkTypes
<1>30. \E E, M \in Nat : \E r, s : LinkNumbers(E, M, r, s)'
  BY <1>16, <1>26
<1> QED BY <1>27, <1>28, <1>29, <1>30 DEF LinkInv

LEMMA LinkFacts ==
    ASSUME LinkInv
    PROVE  /\ sendRel \in SeqNums /\ sent \in Seq(Seq(Nat)) /\ NumFrames \in Nat
           /\ toSend \in Seq(Frames) /\ sendDgrams \in Seq(Dgrams)
           /\ 1 .. NumFrames \subseteq FrameRanks(toSend) \cup RanksKept(sendDgrams) \cup AtPeer
<1>1. LinkTypes /\ 1 .. NumFrames \subseteq AtSender \cup AtPeer
  BY DEF LinkInv, RetainedUntilReceived
<1>2. AtSender = FrameRanks(toSend) \cup RanksKept(sendDgrams)
  BY AtSenderFacts
<1> QED BY <1>1, <1>2 DEF LinkTypes

LEMMA SendReliableInv ==
    ASSUME LinkInv, NEW n \in 1 .. MaxChunks, SendReliable(n)
    PROVE  LinkInv'
<1>1. /\ sendRel \in SeqNums /\ sent \in Seq(Seq(Nat)) /\ NumFrames \in Nat
      /\ toSend \in Seq(Frames) /\ sendDgrams \in Seq(Dgrams)
      /\ 1 .. NumFrames \subseteq FrameRanks(toSend) \cup RanksKept(sendDgrams) \cup AtPeer
  BY LinkFacts
<1>2. n \in Nat \ {0}
  BY CarrierLinkAssumption
<1>3. PICK due : due = FALSE
  OBVIOUS
<1>4. PICK N, p, m, f, ds0 : /\ N = NumFrames /\ p = toSend /\ ds0 = sendDgrams
                             /\ m = [i \in 1 .. n |-> NumFrames + i] /\ f = ReliableFrames(n)
  OBVIOUS
<1>5. /\ sendRel' = (sendRel + n) % SeqSpan /\ sent' = Append(sent, m)
      /\ SendPendingData(p \o f, ds0, due) /\ UNCHANGED <<peerVars, ackNet>>
  BY <1>3, <1>4 DEF SendReliable
<1>6. m \in Seq(Nat) /\ Len(m) = n /\ m[n] = N + n
  <2>1. m \in [1 .. n -> Nat]
    BY <1>1, <1>2, <1>4
  <2> QED BY <1>1, <1>2, <1>4, <2>1, MembersOfFunction
<1>7. /\ sent' \in Seq(Seq(Nat)) /\ Len(sent') = Len(sent) + 1 /\ sent'[Len(sent) + 1] = m
  BY <1>1, <1>5, <1>6, MembersOfAppend
<1>8. NumFrames' = N + n
  <2>1. sent' # << >>
    BY <1>1, <1>7, MemberFacts, EmptySeq
  <2> QED BY <1>6, <1>7, <2>1 DEF NumFrames
<1>9. sendRel' \in SeqNums
  <2>1. sendRel + n \in Int
    BY <1>1, <1>2, ConstantFacts DEF SeqNums
  <2> QED BY <1>5, <2>1, SlotFacts
<1>10. ASSUME NEW i \in 1 .. n
       PROVE  f[i] \in Frames /\ f[i].reliable /\ f[i].rank = N + i
  <2>1. PICK s, c, r : s = (sendRel + i) % SeqSpan /\ c = n - i + 1 /\ r = N + i
    OBVIOUS
  <2>2. f[i] = [reliable |-> TRUE, relSeq |-> s, numChunks |-> c, rank |-> r]
    BY <1>4, <2>1 DEF ReliableFrames
  <2>3. s \in SeqNums
    <3>1. sendRel + i \in Int
      BY <1>1, <1>2, ConstantFacts DEF SeqNums
    <3> QED BY <2>1, <3>1, SlotFacts
  <2>4. c \in Nat \ {0} /\ r \in Nat
    BY <1>1, <1>2, <1>4, <2>1
  <2> QED BY <2>1, <2>2, <2>3, <2>4 DEF Frames
<1>11. f \in Seq(Frames) /\ Len(f) = n /\ Members(f) = {f[i] : i \in 1 .. n}
  <2>1. f = [i \in 1 .. n |-> f[i]]
    BY <1>4 DEF ReliableFrames
  <2>2. f \in [1 .. n -> Frames]
    BY <1>10, <2>1
  <2> QED BY <1>2, <2>2, MembersOfFunction
<1>12. ASSUME NEW r \in N + 1 .. N + n PROVE r \in FrameRanks(f)
  <2>1. PICK i : i = r - N
    OBVIOUS
  <2>2. i \in 1 .. n /\ N + i = r
    BY <1>1, <1>2, <1>4, <2>1
  <2>3. f[i] \in Members(f) /\ f[i].reliable /\ f[i].rank = r
    BY <1>10, <1>11, <2>2
  <2> QED BY <2>3, RankFacts
<1>13. PICK q : q = p \o f
  OBVIOUS
<1>14. q \in Seq(Frames) /\ FrameRanks(q) = FrameRanks(p) \cup FrameRanks(f)
  BY <1>1, <1>4, <1>11, <1>13, RanksOfConcat
<1>15. 1 .. NumFrames' \subseteq FrameRanks(q) \cup RanksKept(ds0) \cup AtPeer
  <2>1. \A r \in 1 .. N + n : r \in 1 .. N \/ r \in N + 1 .. N + n
    BY <1>1, <1>2, <1>4
  <2> QED BY <1>1, <1>4, <1>8, <1>12, <1>14, <2>1
<1>16. NumFrames' \in Nat
  BY <1>1, <1>2, <1>4, <1>8
<1>17. ds0 \in Seq(Dgrams) /\ Members(ds0) \subseteq Members(sendDgrams) /\ due \in BOOLEAN
  BY <1>1, <1>3, <1>4
<1>18. SendPendingData(q, ds0, due)
  BY <1>5, <1>13
<1> QED BY <1>5, <1>7, <1>9, <1>14, <1>15, <1>16, <1>17, <1>18, SendPendingInv

LEMMA SendUnreliableInv == ASSUME LinkInv, SendUnreliable PROVE LinkInv'
<1>1. /\ sendRel \in SeqNums /\ sent \in Seq(Seq(Nat)) /\ NumFrames \in Nat
      /\ toSend \in Seq(Frames) /\ sendDgrams \in Seq(Dgrams)
      /\ 1 .. NumFrames \subseteq FrameRanks(toSend) \cup RanksKept(sendDgrams) \cup AtPeer
  BY LinkFacts
<1>2. PICK due : due = FALSE
  OBVIOUS
<1>3. PICK f, p, ds0 : f = UnreliableFrame /\ p = toSend /\ ds0 = sendDgrams
  OBVIOUS
<1>4. f \in Frames
  BY <1>1, <1>3 DEF UnreliableFrame, Frames
<1>5. PICK q : q = Append(p, f)
  OBVIOUS
<1>6. q \in Seq(Frames) /\ Members(q) = Members(p) \cup {f}
  BY <1>1, <1>3, <1>4, <1>5, MembersOfAppend
<1>7. FrameRanks(p) \subseteq FrameRanks(q)
  BY <1>6, RanksWithin
<1>8. /\ SendPendingData(q, ds0, due) /\ UNCHANGED <<peerVars, ackNet>>
      /\ sendRel' = sendRel /\ sent' = sent
  BY <1>2, <1>3, <1>5 DEF SendUnreliable
<1>9. NumFrames' = NumFrames
  BY <1>8 DEF NumFrames
<1>10. 1 .. NumFrames' \subseteq FrameRanks(q) \cup RanksKept(ds0) \cup AtPeer
  BY <1>1, <1>3, <1>7, <1>9
<1>11. ds0 \in Seq(Dgrams) /\ Members(ds0) \subseteq Members(sendDgrams) /\ due \in BOOLEAN
  BY <1>1, <1>2, <1>3
<1>12. sendRel' \in SeqNums /\ sent' \in Seq(Seq(Nat)) /\ NumFrames' \in Nat
  BY <1>1, <1>8, <1>9
<1> QED BY <1>6, <1>8, <1>10, <1>11, <1>12, SendPendingInv

\* The end of the sender's events: what timed out is queued again.
LEMMA ResendInv ==
    ASSUME LinkInv, NEW n \in 0 .. Len(sendDgrams), NEW due \in BOOLEAN,
           SendPendingData(Resent(n), SubSeq(sendDgrams, n + 1, Len(sendDgrams)), due),
           UNCHANGED <<sendRel, sent, peerVars, ackNet>>
    PROVE  LinkInv'
<1>1. /\ sendRel \in SeqNums /\ sent \in Seq(Seq(Nat)) /\ NumFrames \in Nat
      /\ toSend \in Seq(Frames) /\ sendDgrams \in Seq(Dgrams)
      /\ 1 .. NumFrames \subseteq FrameRanks(toSend) \cup RanksKept(sendDgrams) \cup AtPeer
  BY LinkFacts
<1>2. PICK q, ds, l : q = Resent(n) /\ ds = sendDgrams /\ l = Len(ds)
  OBVIOUS
<1>3. /\ q \in Seq(Frames) /\ FrameRanks(toSend) \subseteq FrameRanks(q)
      /\ \A i \in 1 .. n : FrameRanks(ds[i].frames) \subseteq FrameRanks(q)
  BY <1>1, <1>2, ResentFacts
<1>4. l \in Nat /\ n \in 0 .. l /\ ds \in Seq(Dgrams)
  BY <1>1, <1>2, MemberFacts
<1>5. PICK ds0 : ds0 = SubSeq(ds, n + 1, l)
  OBVIOUS
<1>6. /\ ds0 \in Seq(Dgrams) /\ Members(ds0) \subseteq Members(ds)
      /\ \A i \in n + 1 .. l : ds[i] \in Members(ds0)
  <2>1. n + 1 \in Nat \ {0} /\ l \in Int /\ l <= Len(ds)
    BY <1>2, <1>4
  <2> QED BY <1>4, <1>5, <2>1, MembersOfSub
<1>7. RanksKept(ds) \subseteq FrameRanks(q) \cup RanksKept(ds0)
  <2>1. ASSUME NEW d \in Members(ds)
        PROVE  FrameRanks(d.frames) \subseteq FrameRanks(q) \cup RanksKept(ds0)
    <3>1. PICK i \in 1 .. l : d = ds[i]
      BY <1>2 DEF Members
    <3>2. CASE i <= n
      <4>1. i \in 1 .. n
        BY <1>4, <3>1, <3>2
      <4> QED BY <1>3, <3>1, <4>1
    <3>3. CASE ~(i <= n)
      <4>1. i \in n + 1 .. l
        BY <1>4, <3>1, <3>3
      <4> QED BY <1>6, <3>1, <4>1, KeptFacts
    <3> QED BY <3>2, <3>3
  <2> QED BY <2>1, KeptFacts
<1>8. SendPendingData(q, ds0, due)
  BY <1>2, <1>5
<1>9. NumFrames' = NumFrames
  BY DEF NumFrames
<1>10. 1 .. NumFrames' \subseteq FrameRanks(q) \cup RanksKept(ds0) \cup AtPeer
  BY <1>1, <1>2, <1>3, <1>7, <1>9
<1>11. sendRel' \in SeqNums /\ sent' \in Seq(Seq(Nat)) /\ NumFrames' \in Nat
       /\ UNCHANGED <<peerVars, ackNet>> /\ Members(ds0) \subseteq Members(sendDgrams)
  BY <1>1, <1>2, <1>6, <1>9
<1> QED BY <1>3, <1>6, <1>8, <1>10, <1>11, SendPendingInv

LEMMA SenderHeartbeatInv == ASSUME LinkInv, SenderHeartbeat PROVE LinkInv'
<1>1. /\ sendRel \in SeqNums /\ sent \in Seq(Seq(Nat)) /\ NumFrames \in Nat
      /\ toSend \in Seq(Frames) /\ sendDgrams \in Seq(Dgrams)
      /\ 1 .. NumFrames \subseteq FrameRanks(toSend) \cup RanksKept(sendDgrams) \cup AtPeer
  BY LinkFacts
<1>2. PICK q, ds0, due : q = toSend /\ ds0 = sendDgrams /\ due = TRUE
  OBVIOUS
<1>3. /\ SendPendingData(q, ds0, due) /\ UNCHANGED <<peerVars, ackNet>>
      /\ sendRel' = sendRel /\ sent' = sent
  BY <1>2 DEF SenderHeartbeat
<1>4. NumFrames' = NumFrames
  BY <1>3 DEF NumFrames
<1>5. 1 .. NumFrames' \subseteq FrameRanks(q) \cup RanksKept(ds0) \cup AtPeer
  BY <1>1, <1>2, <1>4
<1>6. /\ q \in Seq(Frames) /\ ds0 \in Seq(Dgrams) /\ due \in BOOLEAN
      /\ Members(ds0) \subseteq Members(sendDgrams)
  BY <1>1, <1>2
<1>7. sendRel' \in SeqNums /\ sent' \in Seq(Seq(Nat)) /\ NumFrames' \in Nat
  BY <1>1, <1>3, <1>4
<1> QED BY <1>3, <1>5, <1>6, <1>7, SendPendingInv

LEMMA FinishSenderInv == ASSUME LinkInv, FinishSender PROVE LinkInv'
<1>1. PICK due : due = TRUE
  OBVIOUS
<1>2. /\ \E early \in {Early} : \E n \in 0 .. Len(sendDgrams) :
            SendPendingData(Resent(n), SubSeq(sendDgrams, n + 1, Len(sendDgrams)), due)
      /\ UNCHANGED <<sendRel, sent, peerVars, ackNet>>
  BY <1>1 DEF FinishSender
<1>3. PICK n \in 0 .. Len(sendDgrams) :
            SendPendingData(Resent(n), SubSeq(sendDgrams, n + 1, Len(sendDgrams)), due)
  BY <1>2
<1>4. due \in BOOLEAN
  BY <1>1
<1> QED BY <1>2, <1>3, <1>4, ResendInv

LEMMA SenderTimerInv == ASSUME LinkInv, SenderTimer PROVE LinkInv'
<1>1. PICK due : due = FALSE
  OBVIOUS
<1>2. /\ \E early \in {Early} : \E n \in 0 .. Len(sendDgrams) :
            SendPendingData(Resent(n), SubSeq(sendDgrams, n + 1, Len(sendDgrams)), due)
      /\ UNCHANGED <<sendRel, sent, peerVars, ackNet>>
  BY <1>1 DEF SenderTimer
<1>3. PICK n \in 0 .. Len(sendDgrams) :
            SendPendingData(Resent(n), SubSeq(sendDgrams, n + 1, Len(sendDgrams)), due)
  BY <1>2
<1>4. due \in BOOLEAN
  BY <1>1
<1> QED BY <1>2, <1>3, <1>4, ResendInv

LEMMA LinkInitInv == ASSUME LinkInit PROVE LinkInv
<1>1. 2 <= Half
  BY ConstantFacts, CarrierLinkAssumption
<1>2. PICK rank : rank = [i \in Slots |-> 0]
  OBVIOUS
<1>3. /\ Sound(NewHistory, rank, 1) /\ ValidSlots(NewHistory) = {}
      /\ \A i \in Slots : 1 - rank[i] < Half
  <2>1. \A i \in Slots : 1 - rank[i] < Half
    BY <1>1, <1>2, ConstantFacts
  <2> QED BY <1>1, <1>2, <2>1, NewHistorySound
<1>4. /\ sendRel = SeqMax /\ receivedRel = SeqMax /\ dgramSeq = 1 /\ peerHistory = NewHistory
      /\ sent = << >> /\ toSend = << >> /\ sendDgrams = << >> /\ net = << >>
      /\ staging = << >> /\ toReceive = << >> /\ received = << >> /\ ackNet = << >>
  BY DEF LinkInit
<1>5. Members(<< >>) = {} /\ Len(<< >>) = 0 /\ \A T : << >> \in Seq(T)
  BY MembersOfNone, EmptySeq
<1>6. NumFrames = 0 /\ SeqMax \in SeqNums
  BY <1>4, ConstantFacts DEF NumFrames, SeqMax, SeqNums
<1>7. LinkTypes
  <2>1. 0 \in Nat
    OBVIOUS
  <2> QED BY <1>4, <1>5, <1>6, <2>1 DEF LinkTypes
<1>8. RetainedUntilReceived
  <2>1. 1 .. 0 = {}
    OBVIOUS
  <2> QED BY <1>6, <2>1 DEF RetainedUntilReceived
<1>9. SameFrames(net, sendDgrams)
  BY <1>4, <1>5 DEF SameFrames
<1>10. PICK nr : nr = << >>
  OBVIOUS
<1>11. InFlight(net, nr, 1, 1)
  <2>1. nr \in Seq(Nat) /\ Len(nr) = 0 /\ Len(net) = 0 /\ 1 .. 0 = {}
    BY <1>4, <1>5, <1>10
  <2> QED BY <2>1 DEF InFlight
<1>12. Remembered(peerHistory, rank, 1, 1, sendDgrams, AtPeer)
  BY <1>3, <1>4 DEF Remembered
<1>13. 1 = 1 % SeqSpan
  BY ConstantFacts, CarrierLinkAssumption
<1>14. LinkNumbers(1, 1, rank, nr)
  BY <1>4, <1>5, <1>11, <1>12, <1>13 DEF LinkNumbers
<1>15. \E D, N \in Nat : \E r, s : LinkNumbers(D, N, r, s)
  <2>1. 1 \in Nat
    OBVIOUS
  <2> QED BY <1>14, <2>1
<1> QED BY <1>7, <1>8, <1>9, <1>15 DEF LinkInv

-----------------------------------------------------------------------------
(* The steps that number no datagram.                                      *)

\* The first datagram in flight has arrived or is lost.
LEMMA InFlightTail ==
    ASSUME NEW ns \in Seq(Dgrams), ns # << >>, NEW nr, NEW D, NEW N, InFlight(ns, nr, D, N)
    PROVE  /\ InFlight(Tail(ns), Tail(nr), D, N) /\ InFlight(Tail(ns), Tail(nr), D, nr[1])
           /\ nr[1] \in Nat /\ N < nr[1] /\ nr[1] <= D /\ D - nr[1] < Half
           /\ Head(ns).seq = nr[1] % SeqSpan
<1>1. /\ nr \in Seq(Nat) /\ Len(nr) = Len(ns)
      /\ \A j \in 1 .. Len(ns) :
            ns[j].seq = nr[j] % SeqSpan /\ N < nr[j] /\ nr[j] <= D /\ D - nr[j] < Half
      /\ \A i, j \in 1 .. Len(ns) : i < j => nr[i] < nr[j]
  BY DEF InFlight
<1>2. /\ 1 \in 1 .. Len(ns) /\ Head(ns) = ns[1] /\ Len(Tail(ns)) = Len(ns) - 1
      /\ \A i \in 1 .. Len(Tail(ns)) : i + 1 \in 1 .. Len(ns) /\ Tail(ns)[i] = ns[i + 1]
  BY MembersOfTail
<1>3. /\ nr # << >> /\ nr[1] \in Nat
      /\ Tail(nr) \in Seq(Nat) /\ Len(Tail(nr)) = Len(Tail(ns))
      /\ \A i \in 1 .. Len(Tail(ns)) : Tail(nr)[i] = nr[i + 1]
  <2>1. nr # << >> /\ nr[1] \in Nat
    BY <1>1, <1>2, MemberFacts, EmptySeq
  <2>2. /\ Tail(nr) \in Seq(Nat) /\ Len(Tail(nr)) = Len(nr) - 1
        /\ \A i \in 1 .. Len(Tail(nr)) : Tail(nr)[i] = nr[i + 1]
    BY <1>1, <2>1, MembersOfTail
  <2> QED BY <1>1, <1>2, <2>1, <2>2
<1>4. PICK ts, tr, l : ts = Tail(ns) /\ tr = Tail(nr) /\ l = Len(Tail(ns))
  OBVIOUS
<1>5. /\ tr \in Seq(Nat) /\ Len(tr) = l /\ Len(ts) = l /\ l \in Nat
      /\ \A i \in 1 .. l : i + 1 \in 1 .. Len(ns) /\ ts[i] = ns[i + 1] /\ tr[i] = nr[i + 1]
  <2>1. Len(ns) \in Nat
    BY MemberFacts
  <2> QED BY <1>2, <1>3, <1>4, <2>1
<1>6. ASSUME NEW j \in 1 .. l
      PROVE  /\ ts[j].seq = tr[j] % SeqSpan /\ N < tr[j] /\ nr[1] < tr[j]
             /\ tr[j] <= D /\ D - tr[j] < Half
  <2>1. j + 1 \in 1 .. Len(ns) /\ ts[j] = ns[j + 1] /\ tr[j] = nr[j + 1] /\ 1 < j + 1
    BY <1>5
  <2> QED BY <1>1, <1>2, <2>1
<1>7. ASSUME NEW i \in 1 .. l, NEW j \in 1 .. l, i < j PROVE tr[i] < tr[j]
  <2>1. i + 1 \in 1 .. Len(ns) /\ j + 1 \in 1 .. Len(ns) /\ i + 1 < j + 1
    BY <1>5, <1>7
  <2> QED BY <1>1, <1>5, <2>1
<1>8. InFlight(ts, tr, D, N) /\ InFlight(ts, tr, D, nr[1])
  BY <1>5, <1>6, <1>7 DEF InFlight
<1>9. N < nr[1] /\ nr[1] <= D /\ D - nr[1] < Half /\ Head(ns).seq = nr[1] % SeqSpan
  BY <1>1, <1>2
<1> QED BY <1>3, <1>4, <1>8, <1>9

\* The sender keeps less, and of what it dropped every frame is at the peer.
LEMMA KeptLessInv ==
    ASSUME LinkInv, LinkTypes',
           NEW D \in Nat, NEW N \in Nat, NEW rank, NEW nr, LinkNumbers(D, N, rank, nr),
           NEW M \in Nat, M <= D, NEW rank2, NEW nr2, InFlight(net', nr2, D, M),
           Remembered(peerHistory', rank2, M, D, sendDgrams', AtPeer'),
           \A ack \in Members(ackNet') :
               ack \in Members(ackNet) \/ Claimed(ack, D, sendDgrams', AtPeer'),
           Members(sendDgrams') \subseteq Members(sendDgrams),
           Members(net') \subseteq Members(net), AtPeer \subseteq AtPeer',
           RanksKept(sendDgrams) \subseteq RanksKept(sendDgrams') \cup AtPeer',
           UNCHANGED <<sent, toSend, dgramSeq>>
    PROVE  LinkInv'
<1>1. /\ dgramSeq = D % SeqSpan
      /\ \A d \in Members(sendDgrams) : Current(d.seq, D)
      /\ \A ack \in Members(ackNet) : Claimed(ack, D, sendDgrams, AtPeer)
  BY DEF LinkNumbers
<1>2. PICK ds, ds2, peer, peer2 :
          /\ ds = sendDgrams /\ ds2 = sendDgrams' /\ peer = AtPeer /\ peer2 = AtPeer'
  OBVIOUS
<1>3. Extends(ds2, ds, D, 0) /\ peer \subseteq peer2
  BY <1>2 DEF Extends
<1>4. \A ack \in Members(ackNet) : Claimed(ack, D, ds2, peer2)
  <2>1. ASSUME NEW ack \in Members(ackNet) PROVE Claimed(ack, D, ds2, peer2)
    <3>1. Claimed(ack, D, ds, peer)
      BY <1>1, <1>2
    <3>2. D = D + 0 /\ 0 \in Nat
      OBVIOUS
    <3>3. PICK k : k = 0
      OBVIOUS
    <3>4. k \in Nat /\ D = D + k /\ Extends(ds2, ds, D, k) /\ k = 0
      BY <1>3, <3>2, <3>3
    <3> QED BY <1>3, <3>1, <3>4, ClaimedKept
  <2> QED BY <2>1
<1>5. \A ack \in Members(ackNet') : Claimed(ack, D, sendDgrams', AtPeer')
  BY <1>2, <1>4
<1>6. \A d \in Members(sendDgrams') : Current(d.seq, D)
  BY <1>1
<1>7. dgramSeq' = D % SeqSpan
  BY <1>1
<1>8. LinkNumbers(D, M, rank2, nr2)'
  BY <1>5, <1>6, <1>7 DEF LinkNumbers
<1>9. SameFrames(net', sendDgrams')
  BY DEF LinkInv, SameFrames
<1>10. RetainedUntilReceived'
  <2>1. NumFrames' = NumFrames
    BY DEF NumFrames
  <2>2. 1 .. NumFrames \subseteq FrameRanks(toSend) \cup RanksKept(sendDgrams) \cup AtPeer
    BY LinkFacts
  <2>3. 1 .. NumFrames' \subseteq AtSender' \cup AtPeer'
    BY <2>1, <2>2, AtSenderFacts
  <2> QED BY <2>3 DEF RetainedUntilReceived
<1> QED BY <1>8, <1>9, <1>10 DEF LinkInv

\* RememberedKept and ClaimedKept when no datagram is numbered.
LEMMA RememberedStill ==
    ASSUME NEW h, NEW rank, NEW N \in Nat, NEW D \in Nat, N <= D,
           NEW ds, NEW ds2, NEW peer, NEW peer2, Remembered(h, rank, N, D, ds, peer),
           Members(ds2) \subseteq Members(ds), peer \subseteq peer2
    PROVE  Remembered(h, rank, N, D, ds2, peer2)
BY DEF Remembered, Arrived

\* The ghosts of LinkInv.
LEMMA LinkParts ==
    ASSUME LinkInv
    PROVE  /\ LinkTypes /\ SameFrames(net, sendDgrams)
           /\ \E D, N \in Nat : \E rank, nr : LinkNumbers(D, N, rank, nr)
BY DEF LinkInv

LEMMA ReceiveAckFrameInv == ASSUME LinkInv, ReceiveAckFrame PROVE LinkInv'
<1>1. LinkTypes /\ \E D, N \in Nat : \E rank, nr : LinkNumbers(D, N, rank, nr)
  BY LinkParts
<1>2. PICK D \in Nat, N \in Nat : \E rank, nr : LinkNumbers(D, N, rank, nr)
  BY <1>1
<1>3. PICK rank, nr : LinkNumbers(D, N, rank, nr)
  BY <1>2
<1>4. PICK ds, ack, kept : /\ ds = sendDgrams /\ ack = Head(ackNet)
                           /\ kept = {i \in 1 .. Len(ds) : ~IsAcked(ack, ds[i].seq)}
  OBVIOUS
<1>5. /\ ackNet # << >> /\ ackNet' = Tail(ackNet) /\ sendDgrams' = Filtered(ds, kept)
      /\ UNCHANGED <<sendRel, sent, toSend, dgramSeq, net, peerVars>>
  BY <1>4 DEF ReceiveAckFrame
<1>6. sendDgrams \in Seq(Dgrams) /\ ackNet \in Seq(Ack)
  BY <1>1 DEF LinkTypes
<1>7. /\ sendDgrams' \in Seq(Dgrams)
      /\ Members(sendDgrams') = {ds[i] : i \in kept \cap (1 .. Len(ds))}
  <2>1. PICK left : left = Filtered(ds, kept)
    OBVIOUS
  <2>2. ds \in Seq(Dgrams)
    BY <1>4, <1>6
  <2>3. left \in Seq(Dgrams) /\ Members(left) = {ds[i] : i \in kept \cap (1 .. Len(ds))}
    BY ONLY <2>1, <2>2, FilteredFacts
  <2>4. sendDgrams' = left
    BY <1>5, <2>1
  <2> QED BY <2>3, <2>4
<1>8. Members(sendDgrams') \subseteq Members(sendDgrams)
  BY <1>4, <1>7 DEF Members
<1>9. /\ Tail(ackNet) \in Seq(Ack) /\ Members(Tail(ackNet)) \subseteq Members(ackNet)
      /\ ack \in Members(ackNet)
  BY <1>4, <1>5, <1>6, MembersOfTail DEF Members
<1>10. LinkTypes'
  <2>1. NumFrames' = NumFrames
    BY <1>5 DEF NumFrames
  <2> QED BY <1>1, <1>5, <1>7, <1>9, <2>1 DEF LinkTypes, peerVars
<1>11. AtPeer' = AtPeer
  BY <1>5, AtPeerFacts DEF peerVars
<1>12. /\ N <= D /\ InFlight(net, nr, D, N)
       /\ Remembered(peerHistory, rank, N, D, sendDgrams, AtPeer)
       /\ \A d \in Members(sendDgrams) : Current(d.seq, D)
       /\ Claimed(ack, D, sendDgrams, AtPeer)
  BY <1>3, <1>9 DEF LinkNumbers
<1>13. RanksKept(sendDgrams) \subseteq RanksKept(sendDgrams') \cup AtPeer'
  <2>1. ASSUME NEW d \in Members(sendDgrams)
        PROVE  FrameRanks(d.frames) \subseteq RanksKept(sendDgrams') \cup AtPeer'
    <3>1. PICK i \in 1 .. Len(ds) : d = ds[i]
      BY <1>4 DEF Members
    <3>2. CASE i \in kept
      <4>1. d \in Members(sendDgrams')
        BY <1>7, <3>1, <3>2
      <4> QED BY <4>1, KeptFacts
    <3>3. CASE i \notin kept
      <4>1. IsAcked(ack, d.seq)
        BY <1>4, <3>1, <3>3
      <4>2. FrameRanks(d.frames) \subseteq AtPeer
        BY <1>12, <4>1, AckedArrived
      <4> QED BY <1>11, <4>2
    <3> QED BY <3>2, <3>3
  <2> QED BY <2>1, KeptFacts
<1>14. InFlight(net', nr, D, N)
  BY <1>5, <1>12
<1>15. Remembered(peerHistory', rank, N, D, sendDgrams', AtPeer')
  <2>1. PICK ds2, peer : ds2 = sendDgrams' /\ peer = AtPeer
    OBVIOUS
  <2>2. Remembered(peerHistory, rank, N, D, ds2, peer)
    BY <1>8, <1>12, <2>1, RememberedStill
  <2> QED BY <1>5, <1>11, <2>1, <2>2 DEF peerVars
<1>16. /\ \A a \in Members(ackNet') : a \in Members(ackNet)
       /\ Members(net') \subseteq Members(net) /\ AtPeer \subseteq AtPeer'
       /\ UNCHANGED <<sent, toSend, dgramSeq>>
  BY <1>5, <1>9, <1>11
<1> QED BY <1>3, <1>8, <1>10, <1>12, <1>13, <1>14, <1>15, <1>16, KeptLessInv

\* Datagrams and ACK frames are lost, or nothing happens.
LEMMA LoseInv ==
    ASSUME LinkInv, UNCHANGED <<senderVars, peerVars>>,
           net' = net \/ (net # << >> /\ net' = Tail(net)),
           ackNet' = ackNet \/ (ackNet # << >> /\ ackNet' = Tail(ackNet))
    PROVE  LinkInv'
<1>1. LinkTypes /\ \E D, N \in Nat : \E rank, nr : LinkNumbers(D, N, rank, nr)
  BY LinkParts
<1>2. PICK D \in Nat, N \in Nat : \E rank, nr : LinkNumbers(D, N, rank, nr)
  BY <1>1
<1>3. PICK rank, nr : LinkNumbers(D, N, rank, nr)
  BY <1>2
<1>4. net \in Seq(Dgrams) /\ ackNet \in Seq(Ack)
  BY <1>1 DEF LinkTypes
<1>5. N <= D /\ InFlight(net, nr, D, N)
      /\ Remembered(peerHistory, rank, N, D, sendDgrams, AtPeer)
  BY <1>3 DEF LinkNumbers
<1>6. /\ net' \in Seq(Dgrams) /\ Members(net') \subseteq Members(net)
      /\ \E nr2 : InFlight(net', nr2, D, N)
  <2>1. CASE net' = net
    BY <1>4, <1>5, <2>1
  <2>2. CASE net # << >> /\ net' = Tail(net)
    BY <1>4, <1>5, <2>2, InFlightTail, MembersOfTail
  <2> QED BY <2>1, <2>2
<1>7. PICK nr2 : InFlight(net', nr2, D, N)
  BY <1>6
<1>8. ackNet' \in Seq(Ack) /\ Members(ackNet') \subseteq Members(ackNet)
  <2>1. CASE ackNet' = ackNet
    BY <1>4, <2>1
  <2>2. CASE ackNet # << >> /\ ackNet' = Tail(ackNet)
    BY <1>4, <2>2, MembersOfTail
  <2> QED BY <2>1, <2>2
<1>9. LinkTypes'
  <2>1. NumFrames' = NumFrames
    BY DEF NumFrames, senderVars
  <2> QED BY <1>1, <1>6, <1>8, <2>1 DEF LinkTypes, senderVars, peerVars
<1>10. AtPeer' = AtPeer /\ sendDgrams' = sendDgrams /\ peerHistory' = peerHistory
       /\ UNCHANGED <<sent, toSend, dgramSeq>>
  BY AtPeerFacts DEF senderVars, peerVars
<1>11. Remembered(peerHistory', rank, N, D, sendDgrams', AtPeer')
  BY <1>5, <1>10
<1>12. /\ \A a \in Members(ackNet') : a \in Members(ackNet)
       /\ Members(sendDgrams') \subseteq Members(sendDgrams) /\ AtPeer \subseteq AtPeer'
       /\ RanksKept(sendDgrams) \subseteq RanksKept(sendDgrams') \cup AtPeer'
  BY <1>8, <1>10
<1> QED BY <1>3, <1>5, <1>6, <1>7, <1>9, <1>10, <1>11, <1>12, KeptLessInv

\* A datagram that arrives is staged, drained or not, and stays at the peer.
LEMMA ReceiveStages ==
    ASSUME LinkTypes, Receive
    PROVE  /\ staging' \in Seq(Frames) /\ receivedRel' \in SeqNums
           /\ toReceive' \in Seq(Messages)
           /\ AtPeer \cup FrameRanks(Head(net).frames) \subseteq AtPeer'
<1>1. PICK f, fed, r, fresh :
          /\ f = Head(net).frames /\ fed = staging \o f /\ r = Drained(fed, receivedRel)
          /\ fresh = ~IsDuplicate(peerHistory, Head(net).seq)
  OBVIOUS
<1>2. /\ net # << >>
      /\ staging' = IF fresh THEN r.staging ELSE fed
      /\ receivedRel' = IF fresh THEN r.last ELSE receivedRel
      /\ toReceive' = IF fresh THEN toReceive \o r.out ELSE toReceive
      /\ received' = received
  BY <1>1 DEF Receive
<1>3. /\ staging \in Seq(Frames) /\ receivedRel \in SeqNums /\ toReceive \in Seq(Messages)
      /\ net \in Seq(Dgrams)
  BY DEF LinkTypes
<1>4. f \in Seq(Frames)
  <2>1. Head(net) \in Dgrams
    BY <1>2, <1>3, MembersOfTail
  <2> QED BY <1>1, <2>1 DEF Dgrams
<1>5. fed \in Seq(Frames) /\ FrameRanks(fed) = FrameRanks(staging) \cup FrameRanks(f)
  BY <1>1, <1>3, <1>4, RanksOfConcat
<1>6. /\ r.staging \in Seq(Frames) /\ r.last \in SeqNums /\ r.out \in Seq(Messages)
      /\ FrameRanks(fed) \subseteq FrameRanks(r.staging) \cup RanksIn(r.out)
  <2>1. r \in Draining /\ FrameRanks(fed) \subseteq RanksDrained(r)
    BY <1>1, <1>3, <1>5, DrainedFacts
  <2> QED BY <2>1 DEF Draining, RanksDrained
<1>7. /\ AtPeer = FrameRanks(staging) \cup RanksIn(toReceive)
                    \cup UNION {Members(m) : m \in Members(received)}
      /\ AtPeer' = FrameRanks(staging') \cup RanksIn(toReceive')
                     \cup UNION {Members(m) : m \in Members(received)}
  BY <1>2, AtPeerFacts
<1>8. CASE fresh
  <2>1. PICK o : o = toReceive \o r.out
    OBVIOUS
  <2>2. o \in Seq(Messages) /\ Members(o) = Members(toReceive) \cup Members(r.out)
    BY <1>3, <1>6, <2>1, MembersOfConcat
  <2>3. RanksIn(o) = RanksIn(toReceive) \cup RanksIn(r.out)
    BY <2>2 DEF RanksIn
  <2>4. staging' = r.staging /\ receivedRel' = r.last /\ toReceive' = o
    BY <1>2, <1>8, <2>1
  <2> QED BY <1>1, <1>5, <1>6, <1>7, <2>2, <2>3, <2>4
<1>9. CASE ~fresh
  BY <1>1, <1>2, <1>3, <1>5, <1>7, <1>9
<1> QED BY <1>8, <1>9

\* The newest datagram so far arrives.
LEMMA FirstArrives ==
    ASSUME NEW h, NEW rank, NEW N \in Nat, NEW D \in Nat, NEW ds, NEW peer,
           Remembered(h, rank, N, D, ds, peer), NEW r \in Nat, N < r, r <= D
    PROVE  /\ Arriving(h, rank, N, r)
           /\ h.active # 0 => ~SeqLess(r % SeqSpan, h.el[h.first].seq)
<1>1. Slotted(h, rank, N) /\ Sound(h, rank, N) /\ \A i \in Slots : D - rank[i] < Half
  BY DEF Remembered, Sound
<1>2. \A i \in Slots : rank[i] \in Int /\ rank[i] <= N /\ h.el[i].seq = rank[i] % SeqSpan
  BY <1>1 DEF Slotted, Ranks
<1>3. \A i \in Slots : r - rank[i] < Half
  BY <1>1, <1>2, ConstantFacts
<1>4. Arriving(h, rank, N, r)
  BY <1>1, <1>3, ConstantFacts DEF Arriving
<1>5. ASSUME h.active # 0 PROVE ~SeqLess(r % SeqSpan, h.el[h.first].seq)
  <2>1. PICK F, L \in Nat : Ranged(h, rank, F, L)
    BY <1>1, <1>5 DEF Sound
  <2>2. h.first = F % HistorySize /\ rank[F % HistorySize] = F /\ F \in Int
    BY <2>1 DEF Ranged
  <2>3. PICK i : i = F % HistorySize
    OBVIOUS
  <2>4. i \in Slots /\ rank[i] = F
    BY <2>2, <2>3, SlotFacts
  <2>5. h.el[h.first].seq = F % SeqSpan /\ F <= N /\ r - F < Half
    BY <1>2, <1>3, <2>2, <2>3, <2>4
  <2>6. SeqLess(r % SeqSpan, F % SeqSpan) <=> r < F
    <3>1. r \in Int /\ F \in Int /\ F - r < Half /\ r - F <= Half
      BY <2>2, <2>5, ConstantFacts
    <3> QED BY <3>1, SeqLessFacts
  <2> QED BY <2>5, <2>6
<1> QED BY <1>4, <1>5

LEMMA ReceiveInv == ASSUME LinkInv, Receive PROVE LinkInv'
<1>1. /\ LinkTypes /\ SameFrames(net, sendDgrams)
      /\ \E D, N \in Nat : \E rank, nr : LinkNumbers(D, N, rank, nr)
  BY LinkParts
<1>2. PICK D \in Nat, N \in Nat : \E rank, nr : LinkNumbers(D, N, rank, nr)
  BY <1>1
<1>3. PICK rank, nr : LinkNumbers(D, N, rank, nr)
  BY <1>2
<1>4. /\ net # << >> /\ net' = Tail(net)
      /\ peerHistory' = Insert(peerHistory, Head(net).seq)
      /\ UNCHANGED <<senderVars, received, ackNet>>
  BY DEF Receive
<1>5. /\ N <= D /\ InFlight(net, nr, D, N) /\ net \in Seq(Dgrams)
      /\ Remembered(peerHistory, rank, N, D, sendDgrams, AtPeer)
  BY <1>1, <1>3 DEF LinkNumbers, LinkTypes
<1>6. PICK r : r = nr[1]
  OBVIOUS
<1>7. /\ r \in Nat /\ N < r /\ r <= D /\ D - r < Half /\ Head(net).seq = r % SeqSpan
      /\ InFlight(net', Tail(nr), D, r)
  BY <1>4, <1>5, <1>6, InFlightTail
<1>8. PICK h, h2, ds, peer, peer2, d :
          /\ h = peerHistory /\ h2 = peerHistory' /\ ds = sendDgrams
          /\ peer = AtPeer /\ peer2 = AtPeer' /\ d = Head(net)
  OBVIOUS
<1>9. Remembered(h, rank, N, D, ds, peer) /\ h2 = Insert(h, r % SeqSpan)
  BY <1>4, <1>5, <1>7, <1>8
<1>10. PICK rank2 : Entered(h2, rank2, h, rank, N, r)
  <2>1. /\ Arriving(h, rank, N, r)
        /\ h.active # 0 => ~SeqLess(r % SeqSpan, h.el[h.first].seq)
    BY <1>7, <1>9, FirstArrives
  <2>2. Sound(h, rank, N)
    BY <1>9 DEF Remembered
  <2> QED BY <1>9, <2>1, <2>2, InsertSound
<1>11. peer \cup FrameRanks(d.frames) \subseteq peer2
  BY <1>1, <1>8, ReceiveStages
<1>12. Arrived(r, ds, peer2)
  <2>1. d \in Members(net) /\ d.seq = r % SeqSpan
    BY <1>4, <1>5, <1>7, <1>8, MembersOfTail DEF Members
  <2>2. SameFrames(net, ds)
    BY <1>1, <1>8
  <2>3. ASSUME NEW e \in Members(ds), e.seq = r % SeqSpan
        PROVE  FrameRanks(e.frames) \subseteq peer2
    BY <1>11, <2>1, <2>2, <2>3 DEF SameFrames
  <2> QED BY <2>3 DEF Arrived
<1>13. Remembered(h2, rank2, r, D, ds, peer2)
  <2>1. /\ Sound(h2, rank2, r)
        /\ \A i \in ValidSlots(h2) :
              rank2[i] = r \/ (i \in ValidSlots(h) /\ rank2[i] = rank[i])
        /\ \A i \in Slots : rank2[i] \in {rank[i], r}
    <3>1. Newest(N, r) = r
      BY <1>7 DEF Newest
    <3> QED BY <1>10, <3>1 DEF Entered
  <2>2. /\ \A i \in Slots : D - rank[i] < Half
        /\ \A i \in ValidSlots(h) : Arrived(rank[i], ds, peer)
    BY <1>9 DEF Remembered
  <2>3. \A i \in Slots : D - rank2[i] < Half
    BY <1>7, <2>1, <2>2
  <2>4. ASSUME NEW i \in ValidSlots(h2) PROVE Arrived(rank2[i], ds, peer2)
    <3>1. CASE rank2[i] = r
      BY <1>12, <3>1
    <3>2. CASE i \in ValidSlots(h) /\ rank2[i] = rank[i]
      <4>1. Arrived(rank[i], ds, peer) /\ peer \subseteq peer2
        BY <1>11, <2>2, <3>2
      <4>2. Arrived(rank[i], ds, peer2)
        BY <4>1 DEF Arrived
      <4> QED BY <3>2, <4>2
    <3> QED BY <2>1, <3>1, <3>2
  <2> QED BY <2>1, <2>3, <2>4 DEF Remembered
<1>14. Remembered(peerHistory', rank2, r, D, sendDgrams', AtPeer')
  <2>1. sendDgrams' = sendDgrams
    BY <1>4 DEF senderVars
  <2> QED BY <1>8, <1>13, <2>1
<1>15. /\ UNCHANGED <<sent, toSend, dgramSeq>> /\ AtPeer \subseteq AtPeer'
       /\ \A a \in Members(ackNet') : a \in Members(ackNet)
       /\ Members(sendDgrams') \subseteq Members(sendDgrams)
       /\ RanksKept(sendDgrams) \subseteq RanksKept(sendDgrams') \cup AtPeer'
  BY <1>4, <1>8, <1>11 DEF senderVars
<1>16. net' \in Seq(Dgrams) /\ Members(net') \subseteq Members(net)
  BY <1>4, <1>5, MembersOfTail
<1>17. LinkTypes'
  <2>1. NumFrames' = NumFrames
    BY <1>4 DEF NumFrames, senderVars
  <2>2. staging' \in Seq(Frames) /\ receivedRel' \in SeqNums /\ toReceive' \in Seq(Messages)
    BY <1>1, ReceiveStages
  <2> QED BY <1>1, <1>4, <1>16, <2>1, <2>2 DEF LinkTypes, senderVars
<1> QED BY <1>3, <1>7, <1>14, <1>15, <1>16, <1>17, KeptLessInv

\* An ACK frame claims what the ring holds.
LEMMA AckWritten ==
    ASSUME NEW h, NEW rank, NEW N \in Nat, NEW D \in Nat, N <= D, NEW ds, NEW peer,
           Remembered(h, rank, N, D, ds, peer), NEW w, w = WriteAckHistory(h)
    PROVE  /\ w.ack \in Ack /\ Claimed(w.ack, D, ds, peer)
           /\ Remembered(w.h, rank, N, D, ds, peer)
<1>1. /\ Sound(h, rank, N) /\ \A i \in Slots : D - rank[i] < Half
      /\ \A i \in ValidSlots(h) : Arrived(rank[i], ds, peer)
  BY DEF Remembered
<1>2. CASE h.active = 0
  <2>1. w.h = h /\ w.ack = KeepAlive
    BY <1>2 DEF WriteAckHistory
  <2>2. KeepAlive \in Ack /\ KeepAlive.kind = "keepalive"
    BY ConstantFacts DEF KeepAlive, Ack, SeqNums
  <2> QED BY <2>1, <2>2 DEF Claimed
<1>3. CASE h.active # 0
  <2>1. PICK V : V = {rank[i] : i \in ValidSlots(h)}
    OBVIOUS
  <2>2. /\ Sound(w.h, rank, N) /\ ValidSlots(w.h) \subseteq ValidSlots(h)
        /\ \E A, B \in Nat : Claims(w.ack, A, B, V) /\ N - HistorySize < B /\ A <= N
    <3>1. Written(WriteAckHistory(h), h, rank, N)
      BY <1>1, <1>3, WriteAckSound
    <3> QED BY <2>1, <3>1 DEF Written
  <2>3. PICK A, B \in Nat : Claims(w.ack, A, B, V) /\ A <= N
    BY <2>2
  <2>4. w.ack \in Ack /\ A \in V /\ V \in SUBSET Nat
    BY <2>3 DEF Claims
  <2>5. D - A < Half
    <3>1. PICK i \in ValidSlots(h) : A = rank[i]
      BY <2>1, <2>4
    <3>2. i \in Slots
      BY DEF ValidSlots
    <3> QED BY <1>1, <3>1, <3>2
  <2>6. \A v \in V : Arrived(v, ds, peer)
    BY <1>1, <2>1
  <2>7. A <= D
    BY <2>3
  <2>8. Claimed(w.ack, D, ds, peer)
    BY <2>3, <2>4, <2>5, <2>6, <2>7 DEF Claimed
  <2>9. Remembered(w.h, rank, N, D, ds, peer)
    BY <1>1, <2>2 DEF Remembered
  <2> QED BY <2>4, <2>8, <2>9
<1> QED BY <1>2, <1>3

\* The peer sends an ACK frame, whatever it hands to the application before.
LEMMA WriteAckInv ==
    ASSUME LinkInv, WriteAck, AtPeer \subseteq AtPeer',
           UNCHANGED <<senderVars, net, staging, receivedRel>>,
           toReceive' \in Seq(Messages), received' \in Seq(Seq(Nat))
    PROVE  LinkInv'
<1>1. LinkTypes /\ \E D, N \in Nat : \E rank, nr : LinkNumbers(D, N, rank, nr)
  BY LinkParts
<1>2. PICK D \in Nat, N \in Nat : \E rank, nr : LinkNumbers(D, N, rank, nr)
  BY <1>1
<1>3. PICK rank, nr : LinkNumbers(D, N, rank, nr)
  BY <1>2
<1>4. /\ N <= D /\ InFlight(net, nr, D, N) /\ ackNet \in Seq(Ack)
      /\ Remembered(peerHistory, rank, N, D, sendDgrams, AtPeer)
  BY <1>1, <1>3 DEF LinkNumbers, LinkTypes
<1>5. PICK w, h, ds, peer, peer2 :
          /\ w = WriteAckHistory(h) /\ h = peerHistory /\ ds = sendDgrams
          /\ peer = AtPeer /\ peer2 = AtPeer'
  OBVIOUS
<1>6. peerHistory' = w.h /\ ackNet' = Append(ackNet, w.ack)
  BY <1>5 DEF WriteAck
<1>7. sendDgrams' = ds /\ net' = net /\ UNCHANGED <<sent, toSend, dgramSeq>>
  BY <1>5 DEF senderVars
<1>8. Remembered(h, rank, N, D, ds, peer2)
  <2>1. Remembered(h, rank, N, D, ds, peer) /\ peer \subseteq peer2
    BY <1>4, <1>5
  <2> QED BY <1>4, <2>1, RememberedStill
<1>9. /\ w.ack \in Ack /\ Claimed(w.ack, D, ds, peer2)
      /\ Remembered(w.h, rank, N, D, ds, peer2)
  BY <1>4, <1>5, <1>8, AckWritten
<1>10. ackNet' \in Seq(Ack) /\ Members(ackNet') = Members(ackNet) \cup {w.ack}
  BY <1>4, <1>6, <1>9, MembersOfAppend
<1>11. \A a \in Members(ackNet') :
            a \in Members(ackNet) \/ Claimed(a, D, sendDgrams', AtPeer')
  BY <1>5, <1>7, <1>9, <1>10
<1>12. Remembered(peerHistory', rank, N, D, sendDgrams', AtPeer')
  BY <1>5, <1>6, <1>7, <1>9
<1>13. LinkTypes'
  <2>1. NumFrames' = NumFrames
    BY <1>7 DEF NumFrames
  <2> QED BY <1>1, <1>10, <2>1 DEF LinkTypes, senderVars
<1>14. /\ InFlight(net', nr, D, N) /\ Members(net') \subseteq Members(net)
       /\ Members(sendDgrams') \subseteq Members(sendDgrams)
       /\ RanksKept(sendDgrams) \subseteq RanksKept(sendDgrams') \cup AtPeer'
  BY <1>4, <1>5, <1>7
<1> QED BY <1>3, <1>4, <1>7, <1>11, <1>12, <1>13, <1>14, KeptLessInv

LEMMA PeerHeartbeatInv == ASSUME LinkInv, PeerHeartbeat PROVE LinkInv'
<1>1. /\ WriteAck /\ UNCHANGED <<senderVars, net, staging, receivedRel>>
      /\ toReceive' = toReceive /\ received' = received
  BY DEF PeerHeartbeat
<1>2. AtPeer' = AtPeer
  BY <1>1, AtPeerFacts
<1>3. toReceive' \in Seq(Messages) /\ received' \in Seq(Seq(Nat))
  BY <1>1, LinkParts DEF LinkTypes
<1> QED BY <1>1, <1>2, <1>3, WriteAckInv

\* The ranks of the messages q, as they are handed to the application.
Forwarded(q) == [k \in 1 .. Len(q) |-> [i \in 1 .. Len(q[k]) |-> q[k][i].rank]]

LEMMA ForwardedFacts ==
    ASSUME NEW q \in Seq(Messages)
    PROVE  /\ Forwarded(q) \in Seq(Seq(Nat))
           /\ RanksIn(q) \subseteq UNION {Members(m) : m \in Members(Forwarded(q))}
<1>1. PICK g, n : g = Forwarded(q) /\ n = Len(q)
  OBVIOUS
<1>2. n \in Nat /\ \A k \in 1 .. n : q[k] \in Messages
  BY <1>1, MemberFacts
<1>3. g = [k \in 1 .. n |-> [i \in 1 .. Len(q[k]) |-> q[k][i].rank]]
  BY <1>1 DEF Forwarded
<1>4. ASSUME NEW k \in 1 .. n
      PROVE  g[k] \in Seq(Nat) /\ FrameRanks(q[k]) \subseteq Members(g[k])
  <2>1. PICK m, l, t : m = q[k] /\ l = Len(m) /\ t = g[k]
    OBVIOUS
  <2>2. m \in Seq(Frames)
    BY <1>2, <2>1, MessageFacts
  <2>3. l \in Nat /\ \A i \in 1 .. l : m[i] \in Frames
    BY <2>1, <2>2, MemberFacts
  <2>4. t = [i \in 1 .. l |-> m[i].rank]
    BY <1>3, <2>1
  <2>5. t \in [1 .. l -> Nat]
    BY <2>3, <2>4 DEF Frames
  <2>6. t \in Seq(Nat) /\ Members(t) = {t[i] : i \in 1 .. l}
    BY <2>3, <2>5, MembersOfFunction
  <2>7. FrameRanks(m) \subseteq Members(t)
    BY <2>1, <2>4, <2>6 DEF FrameRanks
  <2> QED BY <2>1, <2>6, <2>7
<1>5. g \in Seq(Seq(Nat)) /\ Members(g) = {g[k] : k \in 1 .. n}
  <2>1. g = [k \in 1 .. n |-> g[k]]
    BY <1>3
  <2>2. g \in [1 .. n -> Seq(Nat)]
    BY <1>4, <2>1
  <2> QED BY <1>2, <2>2, MembersOfFunction
<1>6. ASSUME NEW m \in Members(q)
      PROVE  FrameRanks(m) \subseteq UNION {Members(t) : t \in Members(g)}
  <2>1. PICK k \in 1 .. n : m = q[k]
    BY <1>1 DEF Members
  <2>2. g[k] \in Members(g) /\ FrameRanks(m) \subseteq Members(g[k])
    BY <1>4, <1>5, <2>1
  <2> QED BY <2>2
<1>7. RanksIn(q) \subseteq UNION {Members(m) : m \in Members(g)}
  BY <1>6 DEF RanksIn
<1> QED BY <1>1, <1>5, <1>7

LEMMA FinishPeerInv == ASSUME LinkInv, FinishPeer PROVE LinkInv'
<1>1. PICK kept, reliable :
          /\ kept = {i \in 1 .. Len(toReceive) : toReceive[i][1].reliable}
          /\ reliable = Filtered(toReceive, kept)
  OBVIOUS
<1>2. /\ WriteAck /\ UNCHANGED <<senderVars, net, staging, receivedRel>>
      /\ toReceive' = << >> /\ received' = received \o Forwarded(reliable)
  BY <1>1 DEF FinishPeer, Forwarded
<1>3. toReceive \in Seq(Messages) /\ received \in Seq(Seq(Nat))
  BY LinkParts DEF LinkTypes
<1>4. PICK q : q = toReceive
  OBVIOUS
<1>5. /\ reliable \in Seq(Messages)
      /\ Members(reliable) = {q[i] : i \in kept \cap (1 .. Len(q))}
  <2>1. reliable = Filtered(q, kept) /\ q \in Seq(Messages)
    BY <1>1, <1>3, <1>4
  <2> QED BY ONLY <2>1, FilteredFacts
<1>6. RanksIn(toReceive) \subseteq RanksIn(reliable)
  <2>1. ASSUME NEW m \in Members(q) PROVE FrameRanks(m) \subseteq RanksIn(reliable)
    <3>1. PICK i \in 1 .. Len(q) : m = q[i]
      BY DEF Members
    <3>2. m \in Messages
      BY <1>3, <1>4, MemberFacts
    <3>3. CASE m[1].reliable
      <4>1. m \in Members(reliable)
        BY <1>1, <1>4, <1>5, <3>1, <3>3
      <4> QED BY <4>1 DEF RanksIn
    <3>4. CASE ~m[1].reliable
      BY <3>2, <3>4, MessageFacts
    <3> QED BY <3>3, <3>4
  <2> QED BY <1>4, <2>1 DEF RanksIn
<1>7. PICK g, rcv : g = Forwarded(reliable) /\ rcv = received \o g
  OBVIOUS
<1>8. /\ g \in Seq(Seq(Nat))
      /\ RanksIn(reliable) \subseteq UNION {Members(m) : m \in Members(g)}
  BY <1>5, <1>7, ForwardedFacts
<1>9. rcv \in Seq(Seq(Nat)) /\ Members(rcv) = Members(received) \cup Members(g)
  BY <1>3, <1>7, <1>8, MembersOfConcat
<1>10. received' = rcv /\ staging' = staging
  BY <1>2, <1>7
<1>11. AtPeer \subseteq AtPeer'
  <2>1. /\ AtPeer = FrameRanks(staging) \cup RanksIn(toReceive)
                      \cup UNION {Members(m) : m \in Members(received)}
        /\ FrameRanks(staging) \cup UNION {Members(m) : m \in Members(rcv)} \subseteq AtPeer'
    BY <1>10, AtPeerFacts
  <2> QED BY <1>6, <1>8, <1>9, <2>1
<1>12. toReceive' \in Seq(Messages) /\ received' \in Seq(Seq(Nat))
  BY <1>2, <1>9, <1>10, MembersOfNone
<1> QED BY <1>2, <1>11, <1>12, WriteAckInv

LEMMA LinkNextInv == ASSUME LinkInv, [LinkNext]_linkVars PROVE LinkInv'
<1>1. ASSUME NEW n \in 1 .. MaxChunks, SendReliable(n) PROVE LinkInv'
  BY <1>1, SendReliableInv
<1>2. CASE SendUnreliable
  BY <1>2, SendUnreliableInv
<1>3. CASE ReceiveAckFrame
  BY <1>3, ReceiveAckFrameInv
<1>4. CASE FinishSender
  BY <1>4, FinishSenderInv
<1>5. CASE SenderTimer
  BY <1>5, SenderTimerInv
<1>6. CASE SenderHeartbeat
  BY <1>6, SenderHeartbeatInv
<1>7. CASE Receive
  BY <1>7, ReceiveInv
<1>8. CASE FinishPeer
  BY <1>8, FinishPeerInv
<1>9. CASE PeerHeartbeat
  BY <1>9, PeerHeartbeatInv
<1>10. CASE LoseDatagram
  BY <1>10, LoseInv DEF LoseDatagram
<1>11. CASE LoseAckFrame
  BY <1>11, LoseInv DEF LoseAckFrame
<1>12. CASE UNCHANGED linkVars
  BY <1>12, LoseInv DEF linkVars
<1> QED BY <1>1, <1>2, <1>3, <1>4, <1>5, <1>6, <1>7, <1>8, <1>9, <1>10, <1>11, <1>12
        DEF LinkNext

\* The inductive invariant of the link: what the sender keeps of a datagram is at the
\* peer as soon as the ring of the peer, or an ACK frame on its way back, has the
\* datagram's number (datagram_history.rs, connection_state.rs), and until then the
\* datagram in flight still carries it.
THEOREM LinkInvariance == LinkSpec => []LinkInv
<1>1. LinkInit => LinkInv
  BY LinkInitInv
<1>2. LinkInv /\ [LinkNext]_linkVars => LinkInv'
  BY LinkNextInv
<1> QED BY <1>1, <1>2, PTL DEF LinkSpec

\* A reliable frame queued by queue_message is in to_send, in send_datagrams or at
\* the peer, whatever is lost, times out or fails to be written, for every size of the
\* sequence space, the ring, a datagram and the queues: read_ack_data drops no datagram
\* that did not arrive, process_resends and send_pending_data drop no frame.
THEOREM FramesRetained == LinkSpec => []RetainedUntilReceived
<1>1. LinkInv => RetainedUntilReceived
  BY DEF LinkInv
<1> QED BY <1>1, LinkInvariance, PTL

-----------------------------------------------------------------------------
(* The refinement of ReliableChannel: the messages in the order they were  *)
(* queued.                                                                 *)

\* The rank of the last frame of the first m messages of ms.
LastRank(ms, m) == IF m = 0 THEN 0 ELSE ms[m][Len(ms[m])]

\* The frames of the messages have the ranks 1, 2, ...
Numbering(ms) ==
    \A m \in 1 .. Len(ms) :
        /\ ms[m] # << >>
        /\ \A j \in 1 .. Len(ms[m]) : ms[m][j] = LastRank(ms, m - 1) + j

LEMMA MessageRanks ==
    ASSUME NEW ms \in Seq(Seq(Nat)), Numbering(ms)
    PROVE  /\ \A m \in 0 .. Len(ms) : LastRank(ms, m) \in Nat
           /\ \A m \in 1 .. Len(ms) :
                 /\ ms[m] \in Seq(Nat) /\ Len(ms[m]) \in Nat \ {0}
                 /\ LastRank(ms, m) = LastRank(ms, m - 1) + Len(ms[m])
                 /\ \A j \in 1 .. Len(ms[m]) : ms[m][j] = LastRank(ms, m - 1) + j
<1>1. Len(ms) \in Nat /\ \A m \in 1 .. Len(ms) : ms[m] \in Seq(Nat)
  BY MemberFacts
<1>2. ASSUME NEW m \in 1 .. Len(ms)
      PROVE  /\ Len(ms[m]) \in Nat \ {0} /\ ms[m][Len(ms[m])] \in Nat
             /\ \A j \in 1 .. Len(ms[m]) : ms[m][j] = LastRank(ms, m - 1) + j
  <2>1. PICK x : x = ms[m]
    OBVIOUS
  <2>2. /\ x \in Seq(Nat) /\ x # << >>
        /\ \A j \in 1 .. Len(x) : x[j] = LastRank(ms, m - 1) + j
    BY <1>1, <2>1 DEF Numbering
  <2>3. Len(x) \in Nat \ {0} /\ \A j \in 1 .. Len(x) : x[j] \in Nat
    BY <2>2, EmptySeq, MemberFacts
  <2>4. Len(x) \in 1 .. Len(x)
    BY <2>3
  <2> QED BY <2>1, <2>2, <2>3, <2>4
<1>3. ASSUME NEW m \in 1 .. Len(ms)
      PROVE  LastRank(ms, m) \in Nat /\ LastRank(ms, m) = LastRank(ms, m - 1) + Len(ms[m])
  <2>1. m # 0
    BY <1>1
  <2>2. LastRank(ms, m) = ms[m][Len(ms[m])]
    BY <2>1 DEF LastRank
  <2>3. Len(ms[m]) \in 1 .. Len(ms[m])
    BY <1>2
  <2> QED BY <1>2, <2>2, <2>3
<1>4. ASSUME NEW m \in 0 .. Len(ms) PROVE LastRank(ms, m) \in Nat
  <2>1. CASE m = 0
    BY <2>1 DEF LastRank
  <2>2. CASE m # 0
    <3>1. m \in 1 .. Len(ms)
      BY <1>1, <2>2
    <3> QED BY <1>3, <3>1
  <2> QED BY <2>1, <2>2
<1> QED BY <1>1, <1>2, <1>3, <1>4

LEMMA LastRankGrows ==
    ASSUME NEW ms \in Seq(Seq(Nat)), Numbering(ms),
           NEW a \in 0 .. Len(ms), NEW b \in 0 .. Len(ms), a <= b
    PROVE  LastRank(ms, a) <= LastRank(ms, b)
<1>1. Len(ms) \in Nat
  BY MemberFacts
<1>2. PICK N, R : N = Len(ms) - a /\ R = [m \in 0 .. Len(ms) |-> LastRank(ms, m)]
  OBVIOUS
<1>3. /\ \A m \in 0 .. Len(ms) : R[m] \in Nat /\ R[m] = LastRank(ms, m)
      /\ \A m \in 1 .. Len(ms) : R[m - 1] <= R[m]
  <2>1. \A m \in 0 .. Len(ms) : R[m] \in Nat /\ R[m] = LastRank(ms, m)
    BY <1>2, MessageRanks
  <2>2. ASSUME NEW m \in 1 .. Len(ms) PROVE R[m - 1] <= R[m]
    <3>1. m - 1 \in 0 .. Len(ms) /\ m \in 0 .. Len(ms)
      BY <1>1
    <3>2. PICK k, l : k = m - 1 /\ l = Len(ms[m])
      OBVIOUS
    <3>3. LastRank(ms, m) = LastRank(ms, k) + l /\ l \in Nat
      BY <3>2, MessageRanks
    <3>4. R[k] \in Nat /\ R[k] = LastRank(ms, k) /\ R[m] = LastRank(ms, m)
      BY <2>1, <3>1, <3>2
    <3>5. R[k] <= R[m]
      BY <3>3, <3>4
    <3> QED BY <3>2, <3>5
  <2> QED BY <2>1, <2>2
<1> DEFINE Good == {k \in Nat : k <= N => R[a] <= R[a + k]}
<1>4. 0 \in Good
  <2>1. R[a] \in Nat /\ a + 0 = a
    BY <1>3
  <2> QED BY <2>1
<1>5. ASSUME NEW k \in 0 .. N - 1, k \in Good PROVE k + 1 \in Good
  <2>1. a + k \in 0 .. Len(ms) /\ a + (k + 1) \in 1 .. Len(ms) /\ (a + (k + 1)) - 1 = a + k
        /\ k <= N /\ k + 1 \in Nat /\ a + (k + 1) \in 0 .. Len(ms)
    BY <1>1, <1>2
  <2>2. R[a] <= R[a + k]
    BY <1>5, <2>1
  <2>3. R[a + k] <= R[a + (k + 1)]
    BY <1>3, <2>1
  <2>4. R[a] \in Nat /\ R[a + k] \in Nat /\ R[a + (k + 1)] \in Nat
    BY <1>3, <2>1
  <2> QED BY <2>1, <2>2, <2>3, <2>4
<1> HIDE DEF Good
<1>6. N \in Nat /\ b - a \in 0 .. N
  BY <1>1, <1>2
<1>7. b - a \in Good
  BY <1>4, <1>5, <1>6, InductionTo
<1>8. R[a] <= R[b]
  <2>1. a + (b - a) = b
    BY <1>1
  <2> QED BY <1>6, <1>7, <2>1 DEF Good
<1> QED BY <1>3, <1>8

\* A reliable frame is a chunk of a message of ms, or an unreliable one.
Genuine(ms) ==
    {f \in Frames :
        f.reliable =>
          \E m \in 1 .. Len(ms) : \E j \in 1 .. Len(ms[m]) :
              /\ f.rank = ms[m][j] /\ f.relSeq = (f.rank - 1) % SeqSpan
              /\ f.numChunks = Len(ms[m]) - j + 1}

\* The chunk after the first m messages begins the next one.
LEMMA NextMessage ==
    ASSUME NEW ms \in Seq(Seq(Nat)), Numbering(ms), NEW f \in Genuine(ms), f.reliable
    PROVE  /\ f \in Frames /\ f.rank \in 1 .. LastRank(ms, Len(ms))
           /\ f.relSeq = (f.rank - 1) % SeqSpan
           /\ \A m \in 0 .. Len(ms) :
                 f.rank = LastRank(ms, m) + 1 =>
                     m + 1 \in 1 .. Len(ms) /\ f.numChunks = Len(ms[m + 1])
<1>0. PICK i \in 1 .. Len(ms) : \E j \in 1 .. Len(ms[i]) :
          /\ f.rank = ms[i][j] /\ f.relSeq = (f.rank - 1) % SeqSpan
          /\ f.numChunks = Len(ms[i]) - j + 1
  BY DEF Genuine
<1>1. PICK j \in 1 .. Len(ms[i]) :
          /\ f.rank = ms[i][j] /\ f.relSeq = (f.rank - 1) % SeqSpan
          /\ f.numChunks = Len(ms[i]) - j + 1
  BY <1>0
<1>2. PICK L, a, b, c : L = Len(ms) /\ a = LastRank(ms, i - 1) /\ b = LastRank(ms, i)
                        /\ c = LastRank(ms, L)
  OBVIOUS
<1>3. /\ L \in Nat /\ i \in 1 .. L /\ i - 1 \in 0 .. L /\ i \in 0 .. L /\ L \in 0 .. L
      /\ i - 1 <= L /\ i <= L
  BY <1>2, MemberFacts
<1>4. /\ a \in Nat /\ b \in Nat /\ c \in Nat /\ b = a + Len(ms[i]) /\ Len(ms[i]) \in Nat
      /\ f.rank = a + j
  BY <1>1, <1>2, <1>3, MessageRanks
<1>5. b <= c
  BY <1>2, <1>3, LastRankGrows
<1>6. j \in Nat /\ 1 <= j /\ j <= Len(ms[i])
  BY <1>4
<1>7. ASSUME NEW m \in 0 .. Len(ms), f.rank = LastRank(ms, m) + 1
      PROVE  m + 1 \in 1 .. Len(ms) /\ f.numChunks = Len(ms[m + 1])
  <2>1. PICK e : e = LastRank(ms, m)
    OBVIOUS
  <2>2. e \in Nat /\ a + j = e + 1 /\ m \in 0 .. L
    BY <1>2, <1>4, <1>7, <2>1, MessageRanks
  <2>3. CASE m < i - 1
    <3>1. m + 1 \in 1 .. L /\ m + 1 \in 0 .. L /\ m + 1 <= i - 1 /\ (m + 1) - 1 = m
      BY <1>3, <2>2, <2>3
    <3>2. PICK k, g : k = m + 1 /\ g = LastRank(ms, k)
      OBVIOUS
    <3>3. k \in 1 .. Len(ms) /\ k \in 0 .. Len(ms) /\ k <= i - 1 /\ k - 1 = m
      BY <1>2, <3>1, <3>2
    <3>4. /\ g \in Nat /\ g = LastRank(ms, k - 1) + Len(ms[k]) /\ Len(ms[k]) \in Nat \ {0}
      BY <3>2, <3>3, MessageRanks
    <3>5. g <= a
      BY <1>2, <1>3, <3>2, <3>3, LastRankGrows
    <3> QED BY <1>4, <1>6, <2>1, <2>2, <3>3, <3>4, <3>5
  <2>4. CASE i - 1 < m
    <3>1. i <= m
      BY <1>3, <2>2, <2>4
    <3>2. b <= e
      BY <1>2, <1>3, <2>1, <3>1, LastRankGrows
    <3> QED BY <1>4, <1>6, <2>2, <3>2
  <2>5. CASE m = i - 1
    <3>1. m + 1 = i /\ m + 1 \in 1 .. Len(ms) /\ e = a
      BY <1>2, <1>3, <2>1, <2>5
    <3>2. j = 1
      BY <1>4, <1>6, <2>2, <3>1
    <3> QED BY <1>1, <1>4, <3>1, <3>2
  <2>6. m < i - 1 \/ i - 1 < m \/ m = i - 1
    BY <1>3, <2>2
  <2> QED BY <2>3, <2>4, <2>5, <2>6
<1>8. f \in Frames
  BY DEF Genuine
<1>9. f.rank \in 1 .. c
  BY <1>4, <1>5, <1>6
<1> QED BY <1>1, <1>2, <1>7, <1>8, <1>9

\* Reliable ids one apart, of ranks less than the sequence space apart.
LEMMA NextRank ==
    ASSUME NEW a \in Int, NEW b \in Int,
           SeqDist((a - 1) % SeqSpan, (b - 1) % SeqSpan) = 1,
           b - a <= SeqSpan, a - b < SeqSpan - 1
    PROVE  b = a + 1
<1>1. PICK x, y, S : x = a - 1 /\ y = b - 1 /\ S = SeqSpan
  OBVIOUS
<1>2. x \in Int /\ y \in Int /\ S \in Nat \ {0} /\ S >= 2 /\ y - x = b - a
  BY <1>1, SeqSpanAssumption
<1>3. ((y % S) - (x % S)) % S = 1
  BY <1>1 DEF SeqDist
<1>4. (y - x) % S = ((y % S) - (x % S)) % S
  BY <1>2, ResidueDiff
<1>5. 1 % S = 1
  BY <1>2, ResidueSmall
<1>6. PICK d : d = y - x
  OBVIOUS
<1>7. d \in Int /\ 1 \in Int /\ d % S = 1 % S /\ d - 1 < S /\ 1 - d < S
  BY <1>1, <1>2, <1>3, <1>4, <1>5, <1>6
<1>8. d = 1
  BY <1>2, <1>7, ResidueWindow
<1> QED BY <1>1, <1>6, <1>8

\* Those of them that the ids tell apart from the frames queued since.
Apart(ms) ==
    {f \in Genuine(ms) : f.reliable => LastRank(ms, Len(ms)) - f.rank < SeqSpan - 1}

\* The ranks of the frames of a message.
RanksOf(m) == [i \in 1 .. Len(m) |-> m[i].rank]

LEMMA ApartFacts ==
    ASSUME NEW ms \in Seq(Seq(Nat)), Numbering(ms), NEW q \in Seq(Frames),
           Members(q) \subseteq Apart(ms), NEW i \in 1 .. Len(q), q[i].reliable
    PROVE  /\ q[i] \in Genuine(ms) /\ q[i].rank \in 1 .. LastRank(ms, Len(ms))
           /\ q[i].relSeq = (q[i].rank - 1) % SeqSpan
           /\ LastRank(ms, Len(ms)) - q[i].rank < SeqSpan - 1
<1>1. PICK f : f = q[i]
  OBVIOUS
<1>2. f \in Apart(ms) /\ f.reliable
  BY <1>1 DEF Members
<1>3. f \in Genuine(ms) /\ LastRank(ms, Len(ms)) - f.rank < SeqSpan - 1
  BY <1>2 DEF Apart
<1>4. f.rank \in 1 .. LastRank(ms, Len(ms)) /\ f.relSeq = (f.rank - 1) % SeqSpan
  BY <1>2, <1>3, NextMessage
<1> QED BY <1>1, <1>3, <1>4

\* What next_ready takes when the first m messages were taken before.
LEMMA TakenMessage ==
    ASSUME NEW ms \in Seq(Seq(Nat)), Numbering(ms), NEW q \in Seq(Frames),
           Members(q) \subseteq Apart(ms), NEW m \in 0 .. Len(ms),
           LastRank(ms, Len(ms)) - LastRank(ms, m) < SeqSpan,
           NEW last, last = (LastRank(ms, m) - 1) % SeqSpan,
           HeadReady(q, last), Head(q).reliable
    PROVE  /\ m + 1 \in 1 .. Len(ms) /\ RanksOf(SubSeq(q, 1, FramesTaken(q))) = ms[m + 1]
           /\ LastAfter(q, last) = (LastRank(ms, m + 1) - 1) % SeqSpan
<1>1. PICK L, N, h : L = LastRank(ms, m) /\ N = LastRank(ms, Len(ms)) /\ h = q[1]
  OBVIOUS
<1>2. /\ q # << >> /\ ReliableReady(q, last)
  BY DEF HeadReady
<1>3. Len(q) \in Nat /\ Len(ms) \in Nat /\ 1 \in 1 .. Len(q) /\ Head(q) = h
  BY <1>1, <1>2, MemberFacts, MembersOfTail
<1>4. SeqDist(last, h.relSeq) = 1 /\ (h.numChunks > 1 => ChunksReady(q, h.numChunks))
  BY <1>2, <1>3 DEF ReliableReady
<1>5. /\ L \in Nat /\ N \in Nat /\ L <= N /\ N - L < SeqSpan /\ SeqSpan \in Nat
  <2>1. Len(ms) \in 0 .. Len(ms) /\ m <= Len(ms)
    BY <1>3
  <2> QED BY <1>1, <2>1, MessageRanks, LastRankGrows, ConstantFacts
<1>6. ASSUME NEW i \in 1 .. Len(q), q[i].reliable
      PROVE  /\ q[i] \in Genuine(ms) /\ q[i].rank \in 1 .. N
             /\ q[i].relSeq = (q[i].rank - 1) % SeqSpan /\ N - q[i].rank < SeqSpan - 1
  BY <1>1, <1>6, ApartFacts
<1>7. h.reliable /\ h \in Genuine(ms) /\ h.rank = L + 1
  <2>1. /\ h.reliable /\ h \in Genuine(ms) /\ h.rank \in 1 .. N
        /\ h.relSeq = (h.rank - 1) % SeqSpan /\ N - h.rank < SeqSpan - 1
    BY <1>1, <1>3, <1>6
  <2>2. PICK b : b = h.rank
    OBVIOUS
  <2>3. SeqDist((L - 1) % SeqSpan, (b - 1) % SeqSpan) = 1
    BY <1>1, <1>4, <2>1, <2>2
  <2>4. L \in Int /\ b \in Int /\ b - L <= SeqSpan /\ L - b < SeqSpan - 1
    BY <1>5, <2>1, <2>2
  <2>5. b = L + 1
    BY <2>3, <2>4, NextRank
  <2> QED BY <2>1, <2>2, <2>5
<1>8. PICK k, x : k = m + 1 /\ x = ms[k]
  OBVIOUS
<1>9. k \in 1 .. Len(ms) /\ h.numChunks = Len(x)
  BY <1>1, <1>7, <1>8, NextMessage
<1>10. PICK n : n = Len(x)
  OBVIOUS
<1>11. /\ x \in Seq(Nat) /\ n \in Nat \ {0} /\ LastRank(ms, k) = L + n
       /\ \A j \in 1 .. n : x[j] = L + j
  <2>1. k - 1 = m
    BY <1>8
  <2> QED BY <1>1, <1>8, <1>9, <1>10, <2>1, MessageRanks
<1>12. FramesTaken(q) = n /\ n <= Len(q)
  <2>1. FramesTaken(q) = n
    BY <1>3, <1>7, <1>9, <1>10, <1>11 DEF FramesTaken
  <2>2. FramesTaken(q) \in 1 .. Len(q)
    BY TakenFrames
  <2> QED BY <1>3, <2>1, <2>2
<1> DEFINE Next1(i) == q[i].reliable /\ q[i].rank = L + i
           Good == {i \in Nat : i < n => Next1(i + 1)}
<1>13. 0 \in Good
  <2>1. Next1(1) /\ 0 + 1 = 1
    BY <1>1, <1>7
  <2> QED BY <2>1
<1>14. ASSUME NEW i \in 0 .. n - 1, i \in Good PROVE i + 1 \in Good
  <2>1. SUFFICES ASSUME i + 1 < n PROVE Next1((i + 1) + 1)
    BY <1>11
  <2>2. PICK c, d : c = i + 1 /\ d = c + 1
    OBVIOUS
  <2>3. /\ c \in 1 .. n - 1 /\ c \in 1 .. n /\ d \in 1 .. n /\ h.numChunks > 1 /\ i < n
        /\ c \in 1 .. Len(q) /\ d \in 1 .. Len(q)
    BY <1>3, <1>9, <1>10, <1>11, <1>12, <2>1, <2>2
  <2>4. Next1(c)
    BY <1>14, <2>2, <2>3
  <2>5. ChunksReady(q, n)
    BY <1>4, <1>9, <1>10, <2>3
  <2>6. q[d].reliable /\ SeqDist(q[c].relSeq, q[d].relSeq) = 1
    BY <2>2, <2>3, <2>5 DEF ChunksReady
  <2>7. PICK a, b : a = q[c].rank /\ b = q[d].rank
    OBVIOUS
  <2>8. /\ a \in 1 .. N /\ q[c].relSeq = (a - 1) % SeqSpan /\ a = L + c
        /\ b \in 1 .. N /\ q[d].relSeq = (b - 1) % SeqSpan /\ N - b < SeqSpan - 1
    BY <1>6, <2>3, <2>4, <2>6, <2>7
  <2>9. a \in Int /\ b \in Int /\ b - a <= SeqSpan /\ a - b < SeqSpan - 1
    <3>1. a \in 1 .. N /\ a = L + c /\ b \in 1 .. N /\ N - b < SeqSpan - 1 /\ c \in 1 .. n
      BY <2>3, <2>8
    <3>2. a <= N /\ b <= N /\ L < a
      BY <1>5, <1>11, <3>1
    <3> QED BY <1>5, <3>1, <3>2
  <2>10. SeqDist((a - 1) % SeqSpan, (b - 1) % SeqSpan) = 1
    BY <2>6, <2>8
  <2>11. b = a + 1
    BY <2>9, <2>10, NextRank
  <2>12. b = L + d
    BY <1>5, <2>2, <2>3, <2>8, <2>11
  <2> QED BY <2>2, <2>6, <2>7, <2>12
<1> HIDE DEF Good
<1>15. ASSUME NEW j \in 1 .. n PROVE Next1(j)
  <2>1. PICK i : i = j - 1
    OBVIOUS
  <2>2. i \in 0 .. n /\ i < n /\ i + 1 = j
    BY <1>11, <2>1
  <2>3. i \in Good
    BY <1>11, <1>13, <1>14, <2>2, InductionTo
  <2> QED BY <2>2, <2>3 DEF Good
<1>16. PICK s, r : s = SubSeq(q, 1, n) /\ r = RanksOf(s)
  OBVIOUS
<1>17. s \in Seq(Frames) /\ Len(s) = n /\ \A i \in 1 .. n : s[i] = q[i]
  <2>1. 1 \in Nat \ {0} /\ n \in Int /\ n <= Len(q) /\ 1 <= n /\ n - 1 + 1 = n
    BY <1>11, <1>12
  <2>2. /\ s \in Seq(Frames) /\ Len(s) = n
        /\ \A i \in 1 .. n : s[i] = q[1 + i - 1]
    BY <1>16, <2>1, MembersOfSub
  <2>3. \A i \in 1 .. n : 1 + i - 1 = i
    BY <1>11
  <2> QED BY <2>2, <2>3
<1>18. r = x
  <2>1. r = [i \in 1 .. n |-> s[i].rank]
    BY <1>16, <1>17 DEF RanksOf
  <2>2. ASSUME NEW i \in 1 .. n PROVE s[i].rank = x[i] /\ x[i] \in Nat
    <3>1. Next1(i) /\ s[i] = q[i] /\ x[i] = L + i
      BY <1>11, <1>15, <1>17
    <3>2. L + i \in Nat
      BY <1>5, <1>11
    <3> QED BY <3>1, <3>2
  <2>3. \A i \in 1 .. n : r[i] = x[i] /\ r[i] \in Nat
    BY <2>1, <2>2
  <2>4. r \in [1 .. n -> Nat]
    BY <2>1, <2>3
  <2>5. r \in Seq(Nat) /\ Len(r) = n
    BY <1>11, <2>4, MembersOfFunction
  <2> QED BY <1>10, <1>11, <2>3, <2>5, SeqEqual
<1>19. LastAfter(q, last) = (LastRank(ms, k) - 1) % SeqSpan
  <2>1. n \in 1 .. n /\ n \in 1 .. Len(q)
    BY <1>3, <1>11, <1>12
  <2>2. q[n].relSeq = ((L + n) - 1) % SeqSpan
    BY <1>6, <1>15, <2>1
  <2> QED BY <1>3, <1>7, <1>11, <1>12, <2>2 DEF LastAfter
<1> QED BY <1>8, <1>9, <1>12, <1>16, <1>18, <1>19

-----------------------------------------------------------------------------
(* The messages the peer's channel has given out.                          *)

LEMMA FilteredAppend ==
    ASSUME NEW T, NEW q \in Seq(T), NEW e \in T, NEW kept, NEW more,
           kept \cap (1 .. Len(q)) = more \cap (1 .. Len(q))
    PROVE  Filtered(Append(q, e), more) =
              IF Len(q) + 1 \in more THEN Append(Filtered(q, kept), e) ELSE Filtered(q, kept)
<1>1. PICK p, N : p = Append(q, e) /\ N = Len(q)
  OBVIOUS
<1>2. /\ p \in Seq(T) /\ Len(p) = N + 1 /\ p[N + 1] = e /\ N \in Nat
      /\ \A i \in 1 .. N : p[i] = q[i]
  BY <1>1, MembersOfAppend, MemberFacts, AppendProperties
<1>3. PICK v : /\ v[0] = << >> /\ Filtered(q, kept) = v[N]
               /\ \A n \in 1 .. N : v[n] = Filter(v[n - 1], q, kept, n)
  BY <1>1, FilteredLoop
<1>4. PICK w : /\ w[0] = << >> /\ Filtered(p, more) = w[N + 1]
               /\ \A n \in 1 .. N + 1 : w[n] = Filter(w[n - 1], p, more, n)
  BY <1>2, FilteredLoop
<1> DEFINE Good == {n \in Nat : v[n] = w[n]}
<1>5. 0 \in Good
  BY <1>3, <1>4
<1>6. ASSUME NEW n \in 0 .. N - 1, n \in Good PROVE n + 1 \in Good
  <2>1. PICK k : k = n + 1
    OBVIOUS
  <2>2. k \in 1 .. N /\ k \in 1 .. N + 1 /\ k - 1 = n /\ k \in Nat
    BY <1>2, <2>1
  <2>3. v[k] = Filter(v[n], q, kept, k) /\ w[k] = Filter(w[n], p, more, k) /\ v[n] = w[n]
    BY <1>3, <1>4, <1>6, <2>2
  <2>4. (k \in kept <=> k \in more) /\ p[k] = q[k]
    BY <1>1, <1>2, <2>2
  <2>5. v[k] = w[k]
    BY <2>3, <2>4 DEF Filter
  <2> QED BY <2>1, <2>2, <2>5
<1> HIDE DEF Good
<1>7. v[N] = w[N]
  <2>1. N \in 0 .. N
    BY <1>2
  <2>2. N \in Good
    BY <1>2, <1>5, <1>6, <2>1, InductionTo
  <2> QED BY <2>2 DEF Good
<1>8. w[N + 1] = Filter(w[N], p, more, N + 1)
  <2>1. N + 1 \in 1 .. N + 1 /\ (N + 1) - 1 = N
    BY <1>2
  <2> QED BY <1>4, <2>1
<1> QED BY <1>1, <1>2, <1>3, <1>4, <1>7, <1>8 DEF Filter

\* What forward_messages makes of the reliable ones of the messages q.
Delivered(q) == Forwarded(Filtered(q, {i \in 1 .. Len(q) : q[i][1].reliable}))

LEMMA ForwardedAppend ==
    ASSUME NEW q \in Seq(Messages), NEW m \in Messages
    PROVE  /\ Forwarded(q) \in Seq(Seq(Nat)) /\ RanksOf(m) \in Seq(Nat)
           /\ Forwarded(Append(q, m)) = Append(Forwarded(q), RanksOf(m))
<1>1. PICK p, n, g, h, r : /\ p = Append(q, m) /\ n = Len(q) /\ g = Forwarded(p)
                           /\ h = Forwarded(q) /\ r = RanksOf(m)
  OBVIOUS
<1>2. /\ p \in Seq(Messages) /\ Len(p) = n + 1 /\ p[n + 1] = m /\ n \in Nat
      /\ \A i \in 1 .. n : p[i] = q[i]
  BY <1>1, MembersOfAppend, MemberFacts, AppendProperties
<1>3. /\ g = [k \in 1 .. n + 1 |-> RanksOf(p[k])] /\ h = [k \in 1 .. n |-> RanksOf(q[k])]
  BY <1>1, <1>2 DEF Forwarded, RanksOf
<1>4. g \in Seq(Seq(Nat)) /\ h \in Seq(Seq(Nat))
  BY <1>1, <1>2, ForwardedFacts
<1>5. Len(g) = n + 1 /\ Len(h) = n
  BY <1>2, <1>3
<1>6. r \in Seq(Nat)
  <2>1. n + 1 \in 1 .. Len(g)
    BY <1>2, <1>5
  <2>2. g[n + 1] = r
    BY <1>1, <1>2, <1>3, <1>5, <2>1
  <2> QED BY <1>4, <2>1, <2>2, MemberFacts
<1>7. PICK a : a = Append(h, r)
  OBVIOUS
<1>8. /\ a \in Seq(Seq(Nat)) /\ Len(a) = n + 1 /\ a[n + 1] = r
      /\ \A i \in 1 .. n : a[i] = h[i]
  BY <1>4, <1>5, <1>6, <1>7, AppendProperties
<1>9. ASSUME NEW i \in 1 .. n + 1 PROVE g[i] = a[i]
  <2>1. CASE i = n + 1
    BY <1>1, <1>2, <1>3, <1>8, <2>1
  <2>2. CASE i # n + 1
    <3>1. i \in 1 .. n
      BY <1>2, <2>2
    <3> QED BY <1>2, <1>3, <1>8, <3>1
  <2> QED BY <2>1, <2>2
<1>10. g = a
  BY <1>4, <1>5, <1>8, <1>9, SeqEqual
<1> QED BY <1>1, <1>4, <1>6, <1>7, <1>10

LEMMA DeliveredFacts ==
    ASSUME NEW q \in Seq(Messages)
    PROVE  Delivered(q) \in Seq(Seq(Nat))
<1>1. PICK kept : kept = {i \in 1 .. Len(q) : q[i][1].reliable}
  OBVIOUS
<1>2. Filtered(q, kept) \in Seq(Messages)
  BY FilteredFacts
<1> QED BY <1>1, <1>2, ForwardedFacts DEF Delivered

LEMMA DeliveredNone == Delivered(<< >>) = << >>
<1>1. PICK q, kept : q = << >> /\ kept = {i \in 1 .. Len(q) : q[i][1].reliable}
  OBVIOUS
<1>2. q \in Seq(Messages) /\ Members(q) = {} /\ Len(q) = 0
  BY <1>1, MembersOfNone
<1>3. PICK s : s = Filtered(q, kept)
  OBVIOUS
<1>4. s \in Seq(Messages) /\ Members(s) = {q[i] : i \in kept \cap (1 .. Len(q))}
  <2>1. q \in Seq(Messages) /\ s = Filtered(q, kept)
    BY <1>2, <1>3
  <2> QED BY ONLY <2>1, FilteredFacts
<1>5. Members(s) = {}
  BY <1>1, <1>2, <1>4
<1>6. s = << >>
  <2>1. CASE s # << >>
    <3>1. 1 \in 1 .. Len(s)
      BY <1>4, <2>1, MembersOfTail
    <3> QED BY <1>5, <3>1 DEF Members
  <2> QED BY <2>1
<1>7. Forwarded(<< >>) = << >>
  <2>1. Len(<< >>) = 0
    OBVIOUS
  <2> QED BY <2>1 DEF Forwarded
<1> QED BY <1>1, <1>3, <1>6, <1>7 DEF Delivered

LEMMA DeliveredAppend ==
    ASSUME NEW q \in Seq(Messages), NEW m \in Messages
    PROVE  Delivered(Append(q, m)) =
              IF m[1].reliable THEN Append(Delivered(q), RanksOf(m)) ELSE Delivered(q)
<1>1. PICK p, n : p = Append(q, m) /\ n = Len(q)
  OBVIOUS
<1>2. /\ p \in Seq(Messages) /\ Len(p) = n + 1 /\ p[n + 1] = m /\ n \in Nat
      /\ \A i \in 1 .. n : p[i] = q[i]
  BY <1>1, MembersOfAppend, MemberFacts, AppendProperties
<1>3. PICK kept, more : /\ kept = {i \in 1 .. n : q[i][1].reliable}
                        /\ more = {i \in 1 .. n + 1 : p[i][1].reliable}
  OBVIOUS
<1>4. kept \cap (1 .. n) = more \cap (1 .. n)
  <2>1. \A i \in 1 .. n : i \in 1 .. n + 1 /\ p[i] = q[i]
    BY <1>2
  <2> QED BY <1>3, <2>1
<1>5. n + 1 \in more <=> m[1].reliable
  <2>1. n + 1 \in 1 .. n + 1
    BY <1>2
  <2> QED BY <1>2, <1>3, <2>1
<1>6. PICK s : s = Filtered(q, kept)
  OBVIOUS
<1>7. s \in Seq(Messages)
  BY <1>6, FilteredFacts
<1>8. Filtered(p, more) = IF n + 1 \in more THEN Append(s, m) ELSE s
  BY <1>1, <1>4, <1>6, FilteredAppend
<1>9. Delivered(q) = Forwarded(s) /\ Delivered(p) = Forwarded(Filtered(p, more))
  BY <1>1, <1>2, <1>3, <1>6 DEF Delivered
<1>10. Forwarded(Append(s, m)) = Append(Forwarded(s), RanksOf(m))
  BY <1>7, ForwardedAppend
<1> QED BY <1>1, <1>5, <1>8, <1>9, <1>10

-----------------------------------------------------------------------------
(* Drain gives the messages out in order.                                  *)

LEMMA ConcatAppend ==
    ASSUME NEW T, NEW p \in Seq(T), NEW q \in Seq(T), NEW e \in T
    PROVE  p \o Append(q, e) = Append(p \o q, e)
<1>1. PICK u : u = <<e>>
  OBVIOUS
<1>2. u \in Seq(T)
  BY <1>1
<1>3. Append(q, e) = q \o u
  BY <1>1, AppendIsConcat
<1>4. p \o q \in Seq(T)
  BY MembersOfConcat
<1>5. Append(p \o q, e) = (p \o q) \o u
  BY <1>1, <1>4, AppendIsConcat
<1>6. (p \o q) \o u = p \o (q \o u)
  BY <1>2, ConcatAssociative
<1> QED BY <1>3, <1>5, <1>6

LEMMA SubSeqNext ==
    ASSUME NEW T, NEW q \in Seq(T), NEW m \in Nat, m + 1 \in 1 .. Len(q)
    PROVE  SubSeq(q, 1, m) \in Seq(T) /\ SubSeq(q, 1, m + 1) = Append(SubSeq(q, 1, m), q[m + 1])
<1>1. PICK n, s : n = m + 1 /\ s = SubSeq(q, 1, m)
  OBVIOUS
<1>2. 1 \in 1 .. Len(q) /\ n \in 1 .. Len(q) /\ n - 1 = m /\ m <= Len(q) /\ 1 \in Nat \ {0}
      /\ m \in Int
  BY <1>1, MemberFacts
<1>3. SubSeq(q, 1, n) = SubSeq(q, 1, n - 1) \o <<q[n]>>
  BY <1>2, SubSeqRecursiveSecond
<1>4. s \in Seq(T) /\ q[n] \in T
  BY <1>1, <1>2, MembersOfSub, MemberFacts
<1>5. Append(s, q[n]) = s \o <<q[n]>>
  BY <1>4, AppendIsConcat
<1> QED BY <1>1, <1>2, <1>3, <1>4, <1>5

\* The peer has taken the first m messages, t, and last is the id of the last frame.
Reached(ms, t, last, m) ==
    /\ m \in 0 .. Len(ms) /\ t = SubSeq(ms, 1, m)
    /\ last = (LastRank(ms, m) - 1) % SeqSpan

\* As far as drain has come, and no id is used a second time yet.
OrderedDraining(ms, rcv, tr) ==
    {r \in Draining :
        /\ Members(r.staging) \subseteq Apart(ms)
        /\ \E m \in Nat : /\ Reached(ms, rcv \o Delivered(tr \o r.out), r.last, m)
                          /\ LastRank(ms, Len(ms)) - LastRank(ms, m) < SeqSpan}

LEMMA DrainNextInOrder ==
    ASSUME NEW ms \in Seq(Seq(Nat)), Numbering(ms), NEW rcv \in Seq(Seq(Nat)),
           NEW tr \in Seq(Messages), NEW r \in OrderedDraining(ms, rcv, tr)
    PROVE  DrainNext(r) \in OrderedDraining(ms, rcv, tr)
<1>1. /\ r \in Draining /\ Members(r.staging) \subseteq Apart(ms)
      /\ r.staging \in Seq(Frames) /\ r.last \in SeqNums /\ r.out \in Seq(Messages)
  BY DEF OrderedDraining, Draining
<1>2. PICK m \in Nat : /\ Reached(ms, rcv \o Delivered(tr \o r.out), r.last, m)
                       /\ LastRank(ms, Len(ms)) - LastRank(ms, m) < SeqSpan
  BY DEF OrderedDraining
<1>3. CASE ~HeadReady(r.staging, r.last)
  BY <1>3 DEF DrainNext
<1>4. CASE HeadReady(r.staging, r.last)
  <2>1. PICK q, k, last, o, out : /\ q = r.staging /\ k = FramesTaken(q) /\ last = r.last
                                  /\ o = tr \o r.out /\ out = r.out
    OBVIOUS
  <2>2. PICK x, s, l, out2, o2 :
            /\ x = SubSeq(q, 1, k) /\ s = SubSeq(q, k + 1, Len(q)) /\ l = LastAfter(q, last)
            /\ out2 = Append(out, x) /\ o2 = Append(o, x)
    OBVIOUS
  <2>3. /\ q \in Seq(Frames) /\ k \in 1 .. Len(q) /\ q[k].relSeq \in SeqNums /\ x \in Messages
    BY <1>1, <1>4, <2>1, <2>2, TakenFrames
  <2>4. PICK d : d = DrainNext(r)
    OBVIOUS
  <2>5. d = [staging |-> s, last |-> l, out |-> out2]
    BY <1>4, <2>1, <2>2, <2>4 DEF DrainNext, StagingAfter
  <2>6. d \in Draining /\ d.staging = s /\ d.last = l /\ d.out = out2
    <3>1. d \in Draining
      BY <1>1, <2>4, DrainNextFacts
    <3> QED BY <2>5, <3>1
  <2>7. Members(s) \subseteq Apart(ms)
    <3>1. k + 1 \in Nat \ {0} /\ Len(q) \in Int /\ Len(q) <= Len(q)
      BY <2>3, MemberFacts
    <3>2. Members(s) \subseteq Members(q)
      BY <2>2, <2>3, <3>1, MembersOfSub
    <3> QED BY <1>1, <2>1, <3>2
  <2>8. o \in Seq(Messages) /\ tr \o out2 = o2
    <3>1. out \in Seq(Messages)
      BY <1>1, <2>1
    <3>2. o \in Seq(Messages)
      BY <2>1, <3>1, MembersOfConcat
    <3>3. tr \o Append(out, x) = Append(tr \o out, x)
      <4>1. tr \in Seq(Messages) /\ out \in Seq(Messages) /\ x \in Messages
        BY <2>3, <3>1
      <4> QED BY ONLY <4>1, ConcatAppend
    <3> QED BY <2>1, <2>2, <3>2, <3>3
  <2>9. x[1] = Head(q)
    <3>1. 1 \in Nat \ {0} /\ k \in Int /\ k <= Len(q) /\ 1 <= k /\ q # << >> /\ k - 1 + 1 = k
      BY <2>3, MemberFacts, EmptySeq
    <3>2. Len(x) = k /\ \A i \in 1 .. Len(x) : x[i] = q[1 + i - 1]
      BY <2>2, <2>3, <3>1, MembersOfSub
    <3>3. 1 \in 1 .. Len(x) /\ 1 + 1 - 1 = 1
      BY <3>1, <3>2
    <3> QED BY <2>3, <3>1, <3>2, <3>3, MembersOfTail
  <2>10. PICK t, y : t = Delivered(o) /\ y = RanksOf(x)
    OBVIOUS
  <2>11. t \in Seq(Seq(Nat)) /\ Reached(ms, rcv \o t, last, m)
    BY <1>2, <2>1, <2>8, <2>10, DeliveredFacts
  <2>12. Delivered(o2) = IF Head(q).reliable THEN Append(t, y) ELSE t
    <3>1. Delivered(Append(o, x)) =
             IF x[1].reliable THEN Append(Delivered(o), RanksOf(x)) ELSE Delivered(o)
      BY ONLY <2>3, <2>8, DeliveredAppend
    <3> QED BY <2>2, <2>9, <2>10, <3>1
  <2>13. CASE ~Head(q).reliable
    <3>1. l = last /\ Delivered(o2) = t
      BY <2>2, <2>12, <2>13 DEF LastAfter
    <3>2. Reached(ms, rcv \o Delivered(tr \o d.out), d.last, m)
      BY <2>6, <2>8, <2>11, <3>1
    <3> QED BY <1>2, <2>4, <2>6, <2>7, <3>2 DEF OrderedDraining
  <2>14. CASE Head(q).reliable
    <3>1. /\ m \in 0 .. Len(ms) /\ rcv \o t = SubSeq(ms, 1, m)
          /\ last = (LastRank(ms, m) - 1) % SeqSpan
      BY <2>11 DEF Reached
    <3>2. PICK n : n = m + 1
      OBVIOUS
    <3>3. n \in 1 .. Len(ms) /\ y = ms[n] /\ l = (LastRank(ms, n) - 1) % SeqSpan
      <4>1. HeadReady(q, last) /\ Members(q) \subseteq Apart(ms)
        BY <1>1, <1>4, <2>1
      <4> QED BY <1>2, <2>1, <2>2, <2>3, <2>10, <2>14, <3>1, <3>2, <4>1, TakenMessage
    <3>4. Len(ms) \in Nat /\ ms[n] \in Seq(Nat)
      BY <3>3, MemberFacts
    <3>5. rcv \o Append(t, y) = Append(rcv \o t, y)
      <4>1. rcv \in Seq(Seq(Nat)) /\ t \in Seq(Seq(Nat)) /\ y \in Seq(Nat)
        BY <2>11, <3>3, <3>4
      <4> QED BY ONLY <4>1, ConcatAppend
    <3>6. SubSeq(ms, 1, n) = Append(SubSeq(ms, 1, m), ms[n])
      BY <3>2, <3>3, SubSeqNext
    <3>7. rcv \o Delivered(tr \o d.out) = SubSeq(ms, 1, n)
      BY <2>6, <2>8, <2>12, <2>14, <3>1, <3>3, <3>5, <3>6
    <3>8. n \in 0 .. Len(ms) /\ n \in Nat /\ m <= n
      BY <3>1, <3>2, <3>3, <3>4
    <3>9. Reached(ms, rcv \o Delivered(tr \o d.out), d.last, n)
      BY <2>6, <3>3, <3>7, <3>8 DEF Reached
    <3>10. LastRank(ms, Len(ms)) - LastRank(ms, n) < SeqSpan
      <4>1. PICK a, b, c : a = LastRank(ms, m) /\ b = LastRank(ms, n) /\ c = LastRank(ms, Len(ms))
        OBVIOUS
      <4>2. Len(ms) \in 0 .. Len(ms)
        BY <3>4
      <4>3. a <= b /\ a \in Nat /\ b \in Nat /\ c \in Nat
        BY <3>1, <3>8, <4>1, <4>2, LastRankGrows, MessageRanks
      <4>4. c - a < SeqSpan /\ SeqSpan \in Nat
        BY <1>2, <4>1, ConstantFacts
      <4>5. c - b < SeqSpan
        BY <4>3, <4>4
      <4> QED BY <4>1, <4>5
    <3> QED BY <2>4, <2>6, <2>7, <3>8, <3>9, <3>10 DEF OrderedDraining
  <2> QED BY <2>13, <2>14
<1> QED BY <1>3, <1>4

\* What is given out when a datagram has been staged.
LEMMA DrainInOrder ==
    ASSUME NEW ms \in Seq(Seq(Nat)), Numbering(ms), NEW rcv \in Seq(Seq(Nat)),
           NEW tr \in Seq(Messages), NEW q \in Seq(Frames), Members(q) \subseteq Apart(ms),
           NEW last \in SeqNums, NEW m, Reached(ms, rcv \o Delivered(tr), last, m),
           LastRank(ms, Len(ms)) - LastRank(ms, m) < SeqSpan
    PROVE  Drained(q, last) \in OrderedDraining(ms, rcv, tr)
<1>1. PICK a, T : /\ a = [staging |-> q, last |-> last, out |-> << >>]
                  /\ T = OrderedDraining(ms, rcv, tr)
  OBVIOUS
<1>2. a \in Draining /\ a.staging = q /\ a.last = last /\ a.out = << >>
  BY <1>1, MembersOfNone DEF Draining
<1>3. tr \o << >> = tr
  BY ConcatEmptySeq
<1>4. m \in Nat
  <2>1. m \in 0 .. Len(ms)
    BY DEF Reached
  <2> QED BY <2>1, MemberFacts
<1>5. a \in T
  BY <1>1, <1>2, <1>3, <1>4 DEF OrderedDraining
<1>6. \A r \in T : DrainNext(r) \in T
  BY <1>1, DrainNextInOrder
<1> QED BY <1>1, <1>5, <1>6, DrainedIn

-----------------------------------------------------------------------------
(* The invariant that is about the order.                                  *)

\* The reliable messages the channel has given out, forwarded or not.
GivenOut == received \o Delivered(toReceive)

\* The ranks not yet given out.
NotGivenOut == {r \in 1 .. NumFrames : \A m \in Members(GivenOut) : r \notin Members(m)}

\* Time, for the reliable ids: one is not used again before the frame that had it has
\* been given out and no copy of it is staged or in flight.
IdsInTime ==
    \A r \in FrameRanks(staging) \cup RanksKept(net) \cup NotGivenOut :
        NumFrames - r < SeqSpan - 1

InOrder ==
    /\ Numbering(sent) /\ sendRel = (NumFrames - 1) % SeqSpan
    /\ Members(toSend) \cup FramesOf(sendDgrams) \cup FramesOf(net) \cup Members(staging)
          \subseteq Genuine(sent)
    /\ \E m \in Nat : Reached(sent, GivenOut, receivedRel, m)

LEMMA NumFramesFact ==
    /\ sent \in Seq(Seq(Nat)) => NumFrames = LastRank(sent, Len(sent))
    /\ sent' \in Seq(Seq(Nat)) => NumFrames' = LastRank(sent', Len(sent'))
<1>1. ASSUME sent \in Seq(Seq(Nat)) PROVE NumFrames = LastRank(sent, Len(sent))
  <2>1. sent = << >> <=> Len(sent) = 0
    BY <1>1, EmptySeq
  <2> QED BY <2>1 DEF NumFrames, LastRank
<1>2. ASSUME sent' \in Seq(Seq(Nat)) PROVE NumFrames' = LastRank(sent', Len(sent'))
  <2>1. sent' = << >> <=> Len(sent') = 0
    BY <1>2, EmptySeq
  <2> QED BY <2>1 DEF NumFrames, LastRank
<1> QED BY <1>1, <1>2

LEMMA FramesOfConcat ==
    ASSUME NEW p \in Seq(Dgrams), NEW q \in Seq(Dgrams)
    PROVE  FramesOf(p \o q) = FramesOf(p) \cup FramesOf(q)
<1>1. Members(p \o q) = Members(p) \cup Members(q)
  BY MembersOfConcat
<1> QED BY <1>1 DEF FramesOf

LEMMA FramesWithin ==
    ASSUME NEW p, NEW q, Members(p) \subseteq Members(q)
    PROVE  FramesOf(p) \subseteq FramesOf(q)
BY DEF FramesOf

\* send_pending_data makes up no frame.
LEMMA SendPendingFrames ==
    ASSUME LinkInv, NEW q \in Seq(Frames), NEW ds0 \in Seq(Dgrams), NEW due \in BOOLEAN,
           SendPendingData(q, ds0, due), NEW S,
           Members(q) \cup FramesOf(ds0) \cup FramesOf(net) \subseteq S
    PROVE  Members(toSend') \cup FramesOf(sendDgrams') \cup FramesOf(net') \subseteq S
<1>1. LinkTypes /\ \E D, N \in Nat : \E rank, nr : LinkNumbers(D, N, rank, nr)
  BY LinkParts
<1>2. PICK D \in Nat : dgramSeq = D % SeqSpan
  BY <1>1 DEF LinkNumbers
<1>3. PICK ds : ds = Datagrams(q, due)
  OBVIOUS
<1>4. /\ ds \in Seq(Seq(Frames)) /\ \A i \in 1 .. Len(ds) : Members(ds[i]) \subseteq Members(q)
      /\ \A n \in 0 .. Len(ds) :
            Members(SubSeq(q, n * Capacity + 1, Len(q))) \subseteq Members(q)
  <2>1. Divided(q, ds)
    BY <1>3, DatagramsFacts
  <2> QED BY <2>1 DEF Divided
<1>5. PICK w, k : SendPending(q, ds0, ds, w, k)
  BY <1>3, SendPendingFacts
<1>6. PICK more, kept : more = Numbered(ds, w) /\ kept = Recorded(ds, k)
  OBVIOUS
<1>7. /\ w \in Nat /\ k \in Nat /\ w <= k /\ k <= Len(ds)
      /\ net' = net \o more /\ sendDgrams' = ds0 \o kept
      /\ toSend' = SubSeq(q, k * Capacity + 1, Len(q))
  BY <1>5, <1>6 DEF SendPending
<1>8. w \in 0 .. Len(ds) /\ k \in 0 .. Len(ds)
  BY <1>4, <1>7, MemberFacts
<1>9. /\ more \in Seq(Dgrams) /\ Len(more) = w
      /\ \A i \in 1 .. w : more[i].frames = ds[i]
  BY <1>2, <1>4, <1>6, <1>8, NumberedFacts
<1>10. /\ kept \in Seq(Dgrams) /\ Len(kept) = k
       /\ \A i \in 1 .. k : Members(kept[i].frames) \subseteq Members(ds[i])
  BY <1>2, <1>4, <1>6, <1>8, NumberedFacts
<1>11. \A i \in 1 .. w : i \in 1 .. Len(ds)
  BY <1>4, <1>8, MemberFacts
<1>12. \A i \in 1 .. k : i \in 1 .. Len(ds)
  BY <1>4, <1>8, MemberFacts
<1>13. FramesOf(more) \subseteq S
  <2>1. ASSUME NEW d \in Members(more) PROVE Members(d.frames) \subseteq S
    <3>1. PICK i \in 1 .. w : d = more[i]
      BY <1>9 DEF Members
    <3> QED BY <1>4, <1>9, <1>11, <3>1
  <2> QED BY <2>1 DEF FramesOf
<1>14. FramesOf(kept) \subseteq S
  <2>1. ASSUME NEW d \in Members(kept) PROVE Members(d.frames) \subseteq S
    <3>1. PICK i \in 1 .. k : d = kept[i]
      BY <1>10 DEF Members
    <3>2. Members(kept[i].frames) \subseteq Members(ds[i]) /\ Members(ds[i]) \subseteq Members(q)
      BY <1>4, <1>10, <1>12
    <3> QED BY <3>1, <3>2
  <2> QED BY <2>1 DEF FramesOf
<1>15. net \in Seq(Dgrams)
  BY <1>1 DEF LinkTypes
<1>16. FramesOf(net') = FramesOf(net) \cup FramesOf(more)
  BY <1>7, <1>9, <1>15, FramesOfConcat
<1>17. FramesOf(sendDgrams') = FramesOf(ds0) \cup FramesOf(kept)
  BY <1>7, <1>10, FramesOfConcat
<1>18. Members(toSend') \subseteq S
  BY <1>4, <1>7, <1>8
<1> QED BY <1>13, <1>14, <1>16, <1>17, <1>18

\* The sender takes the frames of q for its queue, whatever was sent before.
LEMMA SendPendingInOrder ==
    ASSUME LinkInv, NEW q \in Seq(Frames), NEW ds0 \in Seq(Dgrams), NEW due \in BOOLEAN,
           SendPendingData(q, ds0, due), UNCHANGED peerVars,
           Members(q) \cup FramesOf(ds0) \cup FramesOf(net) \cup Members(staging)
              \subseteq Genuine(sent'),
           Numbering(sent'), sendRel' = (NumFrames' - 1) % SeqSpan,
           \E m \in Nat : Reached(sent', GivenOut, receivedRel, m)
    PROVE  InOrder'
<1>1. PICK S : S = Genuine(sent')
  OBVIOUS
<1>2. Members(q) \cup FramesOf(ds0) \cup FramesOf(net) \subseteq S /\ Members(staging) \subseteq S
  BY <1>1
<1>3. Members(toSend') \cup FramesOf(sendDgrams') \cup FramesOf(net') \subseteq S
  BY <1>2, SendPendingFrames
<1>4. staging' = staging /\ GivenOut' = GivenOut /\ receivedRel' = receivedRel
  BY DEF peerVars, GivenOut
<1>5. Members(staging') \subseteq S
  BY <1>2, <1>4
<1>6. \E m \in Nat : Reached(sent', GivenOut', receivedRel', m)
  BY <1>4
<1> QED BY <1>1, <1>3, <1>5, <1>6 DEF InOrder

\* Nothing is queued and nothing given out: frames only disappear.
LEMMA FewerInOrder ==
    ASSUME InOrder, UNCHANGED <<sendRel, sent, staging, receivedRel>>, GivenOut' = GivenOut,
           Members(toSend') \subseteq Members(toSend),
           FramesOf(sendDgrams') \subseteq FramesOf(sendDgrams),
           FramesOf(net') \subseteq FramesOf(net)
    PROVE  InOrder'
<1>1. NumFrames' = NumFrames
  BY DEF NumFrames
<1>2. /\ Members(toSend) \cup FramesOf(sendDgrams) \cup FramesOf(net) \cup Members(staging)
            \subseteq Genuine(sent)
      /\ sendRel = (NumFrames - 1) % SeqSpan /\ Numbering(sent)
      /\ \E m \in Nat : Reached(sent, GivenOut, receivedRel, m)
  BY DEF InOrder
<1>3. Members(toSend') \cup FramesOf(sendDgrams') \cup FramesOf(net') \cup Members(staging')
         \subseteq Genuine(sent')
  <2>1. staging' = staging /\ sent' = sent
    OBVIOUS
  <2> QED BY <1>2, <2>1
<1>4. /\ Numbering(sent') /\ sendRel' = (NumFrames' - 1) % SeqSpan
      /\ \E m \in Nat : Reached(sent', GivenOut', receivedRel', m)
  BY <1>1, <1>2
<1> QED BY <1>3, <1>4 DEF InOrder

LEMMA LinkInitInOrder == ASSUME LinkInit PROVE InOrder
<1>1. /\ sendRel = SeqMax /\ receivedRel = SeqMax /\ sent = << >> /\ toSend = << >>
      /\ sendDgrams = << >> /\ net = << >> /\ staging = << >> /\ toReceive = << >>
      /\ received = << >>
  BY DEF LinkInit
<1>2. Members(<< >>) = {} /\ Len(<< >>) = 0 /\ \A T : << >> \in Seq(T)
  BY MembersOfNone, EmptySeq
<1>3. SeqMax = (0 - 1) % SeqSpan
  <2>1. SeqSpan \in Nat \ {0}
    BY ConstantFacts
  <2>2. 0 - 1 \in Int /\ -SeqSpan <= 0 - 1 /\ 0 - 1 < 0
    BY <2>1
  <2>3. (0 - 1) % SeqSpan = (0 - 1) + SeqSpan
    BY <2>1, <2>2, ResidueSmall
  <2> QED BY <2>1, <2>3 DEF SeqMax
<1>4. NumFrames = 0 /\ LastRank(sent, 0) = 0
  BY <1>1 DEF NumFrames, LastRank
<1>5. Numbering(sent)
  <2>1. 1 .. 0 = {}
    OBVIOUS
  <2> QED BY <1>1, <1>2, <2>1 DEF Numbering
<1>6. FramesOf(<< >>) = {}
  BY <1>2 DEF FramesOf
<1>7. GivenOut = << >>
  <2>1. << >> \o << >> = << >>
    BY <1>2, ConcatEmptySeq
  <2> QED BY <1>1, <2>1, DeliveredNone DEF GivenOut
<1>8. SubSeq(sent, 1, 0) = << >>
  BY <1>1
<1>9. Reached(sent, GivenOut, receivedRel, 0)
  <2>1. 0 \in 0 .. Len(sent)
    BY <1>1, <1>2
  <2> QED BY <1>1, <1>3, <1>4, <1>7, <1>8, <2>1 DEF Reached
<1>10. 0 \in Nat
  OBVIOUS
<1> QED BY <1>1, <1>2, <1>3, <1>4, <1>5, <1>6, <1>9, <1>10 DEF InOrder

\* What InOrder says of the sender's queues.
LEMMA InOrderFacts ==
    ASSUME InOrder
    PROVE  /\ Numbering(sent) /\ sendRel = (NumFrames - 1) % SeqSpan
           /\ Members(toSend) \subseteq Genuine(sent)
           /\ FramesOf(sendDgrams) \subseteq Genuine(sent)
           /\ FramesOf(net) \subseteq Genuine(sent) /\ Members(staging) \subseteq Genuine(sent)
           /\ \E m \in Nat : Reached(sent, GivenOut, receivedRel, m)
BY DEF InOrder

\* Another message leaves the ranks of those before it.
LEMMA MoreMessages ==
    ASSUME NEW ms \in Seq(Seq(Nat)), Numbering(ms), NEW n \in Nat \ {0}, NEW x \in Seq(Nat),
           Len(x) = n, \A j \in 1 .. n : x[j] = LastRank(ms, Len(ms)) + j
    PROVE  /\ Numbering(Append(ms, x)) /\ Genuine(ms) \subseteq Genuine(Append(ms, x))
           /\ LastRank(Append(ms, x), Len(ms) + 1) = LastRank(ms, Len(ms)) + n
           /\ \A m \in 0 .. Len(ms) : LastRank(Append(ms, x), m) = LastRank(ms, m)
           /\ \A m \in 0 .. Len(ms) : SubSeq(Append(ms, x), 1, m) = SubSeq(ms, 1, m)
<1>1. PICK s, L, k : s = Append(ms, x) /\ L = Len(ms) /\ k = LastRank(ms, L)
  OBVIOUS
<1>2. /\ s \in Seq(Seq(Nat)) /\ L \in Nat /\ Len(s) = L + 1 /\ s[L + 1] = x
      /\ \A i \in 1 .. L : s[i] = ms[i]
  BY <1>1, AppendProperties, MemberFacts
<1>3. x # << >>
  <2>1. Len(x) # 0
    OBVIOUS
  <2> QED BY <2>1, EmptySeq
<1>4. \A m \in 0 .. L : LastRank(s, m) = LastRank(ms, m)
  <2>1. \A m \in 0 .. L : m # 0 => m \in 1 .. L
    BY <1>2
  <2> QED BY <1>2, <2>1 DEF LastRank
<1>5. k \in Nat /\ \A j \in 1 .. n : x[j] = k + j
  <2>1. L \in 0 .. Len(ms)
    BY <1>1, <1>2
  <2> QED BY <1>1, <2>1, MessageRanks
<1>6. LastRank(s, L + 1) = k + n
  <2>1. L + 1 # 0 /\ n \in 1 .. n
    BY <1>2
  <2> QED BY <1>2, <1>5, <2>1 DEF LastRank
<1>7. Numbering(s)
  <2>1. ASSUME NEW m \in 1 .. Len(s)
        PROVE  s[m] # << >> /\ \A j \in 1 .. Len(s[m]) : s[m][j] = LastRank(s, m - 1) + j
    <3>1. CASE m = L + 1
      <4>1. m - 1 = L /\ L \in 0 .. L
        BY <1>2, <3>1
      <4>2. LastRank(s, m - 1) = k /\ s[m] = x
        BY <1>1, <1>2, <1>4, <3>1, <4>1
      <4> QED BY <1>3, <1>5, <4>2
    <3>2. CASE m # L + 1
      <4>1. m \in 1 .. L /\ m - 1 \in 0 .. L
        BY <1>2, <3>2
      <4>2. LastRank(s, m - 1) = LastRank(ms, m - 1) /\ s[m] = ms[m]
        BY <1>2, <1>4, <4>1
      <4>3. /\ ms[m] # << >>
            /\ \A j \in 1 .. Len(ms[m]) : ms[m][j] = LastRank(ms, m - 1) + j
        BY <1>1, <4>1 DEF Numbering
      <4> QED BY <4>2, <4>3
    <3> QED BY <3>1, <3>2
  <2> QED BY <2>1 DEF Numbering
<1>8. Genuine(ms) \subseteq Genuine(s)
  <2>1. ASSUME NEW f \in Genuine(ms), f.reliable
        PROVE  \E m \in 1 .. Len(s) : \E j \in 1 .. Len(s[m]) :
                  /\ f.rank = s[m][j] /\ f.relSeq = (f.rank - 1) % SeqSpan
                  /\ f.numChunks = Len(s[m]) - j + 1
    <3>1. PICK m \in 1 .. L : \E j \in 1 .. Len(ms[m]) :
              /\ f.rank = ms[m][j] /\ f.relSeq = (f.rank - 1) % SeqSpan
              /\ f.numChunks = Len(ms[m]) - j + 1
      BY <1>1, <2>1 DEF Genuine
    <3>2. m \in 1 .. Len(s) /\ s[m] = ms[m]
      BY <1>2, <3>1
    <3> QED BY <3>1, <3>2
  <2>2. Genuine(ms) \subseteq Frames
    BY DEF Genuine
  <2> QED BY <2>1, <2>2 DEF Genuine
<1>9. ASSUME NEW m \in 0 .. L PROVE SubSeq(s, 1, m) = SubSeq(ms, 1, m)
  <2>1. PICK a, b : a = SubSeq(s, 1, m) /\ b = SubSeq(ms, 1, m)
    OBVIOUS
  <2>2. m \in Int /\ m <= Len(s) /\ m <= Len(ms) /\ 1 \in Nat \ {0}
    BY <1>1, <1>2
  <2>3. /\ a \in Seq(Seq(Nat)) /\ Len(a) = (IF 1 <= m THEN m - 1 + 1 ELSE 0)
        /\ \A i \in 1 .. Len(a) : a[i] = s[1 + i - 1]
    BY <1>2, <2>1, <2>2, MembersOfSub
  <2>4. /\ b \in Seq(Seq(Nat)) /\ Len(b) = (IF 1 <= m THEN m - 1 + 1 ELSE 0)
        /\ \A i \in 1 .. Len(b) : b[i] = ms[1 + i - 1]
    <3>1. ms \in Seq(Seq(Nat))
      OBVIOUS
    <3> QED BY ONLY <2>1, <2>2, <3>1, MembersOfSub
  <2>5. Len(a) = Len(b) /\ Len(a) <= L
    BY <1>2, <2>3, <2>4
  <2>6. \A i \in 1 .. Len(a) : i \in 1 .. L /\ 1 + i - 1 = i
    BY <1>2, <2>5
  <2>7. \A i \in 1 .. Len(a) : a[i] = b[i]
    BY <1>2, <2>3, <2>4, <2>5, <2>6
  <2> QED BY <2>1, <2>3, <2>4, <2>5, <2>7, SeqEqual
<1>10. \A m \in 0 .. L : SubSeq(s, 1, m) = SubSeq(ms, 1, m)
  BY <1>9
<1>11. /\ Append(ms, x) = s /\ Len(ms) = L /\ LastRank(ms, Len(ms)) = k
  BY <1>1
<1>12. /\ Numbering(Append(ms, x)) /\ Genuine(ms) \subseteq Genuine(Append(ms, x))
       /\ LastRank(Append(ms, x), Len(ms) + 1) = LastRank(ms, Len(ms)) + n
  BY Zenon, <1>6, <1>7, <1>8, <1>11
<1>13. /\ \A m \in 0 .. Len(ms) : LastRank(Append(ms, x), m) = LastRank(ms, m)
       /\ \A m \in 0 .. Len(ms) : SubSeq(Append(ms, x), 1, m) = SubSeq(ms, 1, m)
  BY Zenon, <1>4, <1>10, <1>11
<1> QED BY <1>12, <1>13

LEMMA ReachedMore ==
    ASSUME NEW ms \in Seq(Seq(Nat)), Numbering(ms), NEW n \in Nat \ {0}, NEW x \in Seq(Nat),
           Len(x) = n, \A j \in 1 .. n : x[j] = LastRank(ms, Len(ms)) + j,
           NEW t, NEW last, NEW m, Reached(ms, t, last, m)
    PROVE  Reached(Append(ms, x), t, last, m)
<1>1. PICK s, L : s = Append(ms, x) /\ L = Len(ms)
  OBVIOUS
<1>2. L \in Nat /\ Len(s) = L + 1
  BY <1>1, AppendProperties, MemberFacts
<1>3. m \in 0 .. L /\ t = SubSeq(ms, 1, m) /\ last = (LastRank(ms, m) - 1) % SeqSpan
  BY <1>1 DEF Reached
<1>4. LastRank(s, m) = LastRank(ms, m) /\ SubSeq(s, 1, m) = SubSeq(ms, 1, m)
  BY <1>1, <1>3, MoreMessages
<1>5. m \in 0 .. Len(s)
  BY <1>2, <1>3
<1>6. Reached(s, t, last, m)
  BY <1>3, <1>4, <1>5 DEF Reached
<1> QED BY <1>1, <1>6

\* The id of the frame i numbers after the last one.
LEMMA NextIds ==
    ASSUME NEW N \in Nat, NEW i \in Nat
    PROVE  (((N - 1) % SeqSpan) + i) % SeqSpan = ((N + i) - 1) % SeqSpan
<1>1. SeqSpan \in Nat \ {0} /\ N - 1 \in Int /\ i \in Int
  BY ConstantFacts
<1>2. (((N - 1) % SeqSpan) + i) % SeqSpan = ((N - 1) + i) % SeqSpan
  BY ONLY <1>1, ResidueStep
<1>3. (N - 1) + i = (N + i) - 1
  OBVIOUS
<1> QED BY <1>2, <1>3

LEMMA SendReliableInOrder ==
    ASSUME LinkInv, InOrder, NEW n \in 1 .. MaxChunks, SendReliable(n)
    PROVE  InOrder'
<1>1. /\ sendRel \in SeqNums /\ sent \in Seq(Seq(Nat)) /\ NumFrames \in Nat
      /\ toSend \in Seq(Frames) /\ sendDgrams \in Seq(Dgrams)
  BY LinkFacts
<1>2. n \in Nat \ {0}
  BY CarrierLinkAssumption
<1>3. PICK due : due = FALSE
  OBVIOUS
<1>4. PICK N, p, x, f, ds0, s, ms : /\ N = NumFrames /\ p = toSend /\ ds0 = sendDgrams
                             /\ x = [i \in 1 .. n |-> NumFrames + i] /\ f = ReliableFrames(n)
                             /\ s = Append(sent, x) /\ ms = sent
  OBVIOUS
<1>5. /\ sendRel' = (sendRel + n) % SeqSpan /\ sent' = s
      /\ SendPendingData(p \o f, ds0, due) /\ UNCHANGED peerVars
  BY <1>3, <1>4 DEF SendReliable
<1>6. x \in Seq(Nat) /\ Len(x) = n /\ \A j \in 1 .. n : x[j] = N + j
  <2>1. x \in [1 .. n -> Nat]
    BY <1>1, <1>2, <1>4
  <2> QED BY <1>1, <1>2, <1>4, <2>1, MembersOfFunction
<1>7. /\ Numbering(ms) /\ sendRel = (N - 1) % SeqSpan
      /\ Members(p) \subseteq Genuine(ms) /\ FramesOf(ds0) \subseteq Genuine(ms)
      /\ FramesOf(net) \subseteq Genuine(ms) /\ Members(staging) \subseteq Genuine(ms)
      /\ \E m \in Nat : Reached(ms, GivenOut, receivedRel, m)
  BY <1>4, InOrderFacts
<1>8. /\ ms \in Seq(Seq(Nat)) /\ N = LastRank(ms, Len(ms)) /\ N \in Nat
  BY <1>1, <1>4, NumFramesFact
<1>9. \A j \in 1 .. n : x[j] = LastRank(ms, Len(ms)) + j
  BY <1>6, <1>8
<1>10. /\ Numbering(s) /\ Genuine(ms) \subseteq Genuine(s)
       /\ LastRank(s, Len(ms) + 1) = N + n
  <2>1. /\ Numbering(Append(ms, x)) /\ Genuine(ms) \subseteq Genuine(Append(ms, x))
        /\ LastRank(Append(ms, x), Len(ms) + 1) = LastRank(ms, Len(ms)) + n
    BY ONLY <1>2, <1>6, <1>7, <1>8, <1>9, MoreMessages
  <2> QED BY <1>4, <1>8, <2>1
<1>11. \E m \in Nat : Reached(s, GivenOut, receivedRel, m)
  <2>1. PICK t, l : t = GivenOut /\ l = receivedRel
    OBVIOUS
  <2>2. PICK m \in Nat : Reached(ms, t, l, m)
    BY <1>7, <2>1
  <2>3. Reached(Append(ms, x), t, l, m)
    BY ONLY <1>2, <1>6, <1>7, <1>8, <1>9, <2>2, ReachedMore
  <2> QED BY <1>4, <2>1, <2>3
<1>12. /\ s \in Seq(Seq(Nat)) /\ Len(s) = Len(ms) + 1 /\ s[Len(ms) + 1] = x
  BY <1>4, <1>6, <1>8, MembersOfAppend
<1>13. NumFrames' = N + n
  BY <1>5, <1>10, <1>12, NumFramesFact
<1>14. sendRel' = (NumFrames' - 1) % SeqSpan
  BY <1>2, <1>5, <1>7, <1>8, <1>13, NextIds
<1>15. ASSUME NEW i \in 1 .. n PROVE f[i] \in Genuine(s) /\ f[i] \in Frames
  <2>1. PICK a, c, r : a = (sendRel + i) % SeqSpan /\ c = n - i + 1 /\ r = N + i
    OBVIOUS
  <2>2. f[i] = [reliable |-> TRUE, relSeq |-> a, numChunks |-> c, rank |-> r]
    BY <1>4, <2>1 DEF ReliableFrames
  <2>3. a \in SeqNums
    <3>1. sendRel + i \in Int
      BY <1>1, <1>2, ConstantFacts DEF SeqNums
    <3> QED BY <2>1, <3>1, SlotFacts
  <2>4. c \in Nat \ {0} /\ r \in Nat
    BY <1>2, <1>8, <2>1
  <2>5. f[i] \in Frames
    BY <2>2, <2>3, <2>4 DEF Frames
  <2>6. a = (r - 1) % SeqSpan
    <3>1. i \in Nat
      BY <1>2
    <3> QED BY <1>7, <1>8, <2>1, <3>1, NextIds
  <2>7. PICK k : k = Len(ms) + 1
    OBVIOUS
  <2>8. k \in 1 .. Len(s) /\ s[k] = x
    <3>1. Len(ms) \in Nat
      BY <1>8, MemberFacts
    <3> QED BY <1>12, <2>7, <3>1
  <2>9. /\ i \in 1 .. Len(s[k]) /\ r = s[k][i] /\ c = Len(s[k]) - i + 1
    BY <1>6, <2>1, <2>8
  <2>10. PICK e : e = f[i]
    OBVIOUS
  <2>11. e.rank = r /\ e.relSeq = a /\ e.numChunks = c
    BY <2>2, <2>10
  <2>12. e.rank = s[k][i] /\ e.relSeq = (e.rank - 1) % SeqSpan /\ e.numChunks = Len(s[k]) - i + 1
    BY <2>6, <2>9, <2>11
  <2> QED BY <2>5, <2>8, <2>9, <2>10, <2>12 DEF Genuine
<1>16. f \in Seq(Frames) /\ Members(f) \subseteq Genuine(s)
  <2>1. f = [i \in 1 .. n |-> f[i]]
    BY <1>4 DEF ReliableFrames
  <2>2. f \in [1 .. n -> Frames]
    BY <1>15, <2>1
  <2>3. f \in Seq(Frames) /\ Members(f) = {f[i] : i \in 1 .. n}
    BY <1>2, <2>2, MembersOfFunction
  <2> QED BY <1>15, <2>3
<1>17. PICK q : q = p \o f
  OBVIOUS
<1>18. q \in Seq(Frames) /\ Members(q) = Members(p) \cup Members(f)
  <2>1. p \in Seq(Frames)
    BY <1>1, <1>4
  <2> QED BY <1>16, <1>17, <2>1, MembersOfConcat
<1>19. Members(q) \cup FramesOf(ds0) \cup FramesOf(net) \cup Members(staging) \subseteq Genuine(s)
  BY <1>7, <1>10, <1>16, <1>18
<1>20. ds0 \in Seq(Dgrams) /\ due \in BOOLEAN /\ SendPendingData(q, ds0, due)
  BY <1>1, <1>3, <1>4, <1>5, <1>17
<1>21. /\ Numbering(sent') /\ \E m \in Nat : Reached(sent', GivenOut, receivedRel, m)
       /\ Members(q) \cup FramesOf(ds0) \cup FramesOf(net) \cup Members(staging)
             \subseteq Genuine(sent')
  BY <1>5, <1>10, <1>11, <1>19
<1> QED BY <1>5, <1>14, <1>18, <1>20, <1>21, SendPendingInOrder

\* An unreliable message is no part of the order.
LEMMA SendUnreliableInOrder ==
    ASSUME LinkInv, InOrder, SendUnreliable PROVE InOrder'
<1>1. /\ sendRel \in SeqNums /\ sent \in Seq(Seq(Nat)) /\ NumFrames \in Nat
      /\ toSend \in Seq(Frames) /\ sendDgrams \in Seq(Dgrams)
  BY LinkFacts
<1>2. PICK due : due = FALSE
  OBVIOUS
<1>3. PICK f, p, ds0 : f = UnreliableFrame /\ p = toSend /\ ds0 = sendDgrams
  OBVIOUS
<1>4. f \in Frames /\ ~f.reliable
  BY <1>1, <1>3 DEF UnreliableFrame, Frames
<1>5. f \in Genuine(sent)
  BY <1>4 DEF Genuine
<1>6. PICK q : q = Append(p, f)
  OBVIOUS
<1>7. q \in Seq(Frames) /\ Members(q) = Members(p) \cup {f}
  BY <1>1, <1>3, <1>4, <1>6, MembersOfAppend
<1>8. /\ SendPendingData(q, ds0, due) /\ UNCHANGED peerVars
      /\ sendRel' = sendRel /\ sent' = sent
  BY <1>2, <1>3, <1>6 DEF SendUnreliable
<1>9. NumFrames' = NumFrames
  BY <1>8 DEF NumFrames
<1>10. /\ Numbering(sent) /\ sendRel = (NumFrames - 1) % SeqSpan
       /\ Members(p) \subseteq Genuine(sent) /\ FramesOf(ds0) \subseteq Genuine(sent)
       /\ FramesOf(net) \subseteq Genuine(sent) /\ Members(staging) \subseteq Genuine(sent)
       /\ \E m \in Nat : Reached(sent, GivenOut, receivedRel, m)
  BY <1>3, InOrderFacts
<1>11. /\ Numbering(sent') /\ sendRel' = (NumFrames' - 1) % SeqSpan
       /\ \E m \in Nat : Reached(sent', GivenOut, receivedRel, m)
       /\ Members(q) \cup FramesOf(ds0) \cup FramesOf(net) \cup Members(staging)
             \subseteq Genuine(sent')
  BY <1>5, <1>7, <1>8, <1>9, <1>10
<1>12. ds0 \in Seq(Dgrams) /\ due \in BOOLEAN
  BY <1>1, <1>2, <1>3
<1> QED BY <1>7, <1>8, <1>11, <1>12, SendPendingInOrder

\* The sender sends what it holds already.
LEMMA SendAgainInOrder ==
    ASSUME LinkInv, InOrder, NEW q \in Seq(Frames), NEW ds0 \in Seq(Dgrams), NEW due \in BOOLEAN,
           SendPendingData(q, ds0, due), UNCHANGED <<sendRel, sent, peerVars>>,
           Members(q) \cup FramesOf(ds0) \subseteq Members(toSend) \cup FramesOf(sendDgrams)
    PROVE  InOrder'
<1>1. /\ Numbering(sent) /\ sendRel = (NumFrames - 1) % SeqSpan
      /\ Members(toSend) \subseteq Genuine(sent) /\ FramesOf(sendDgrams) \subseteq Genuine(sent)
      /\ FramesOf(net) \subseteq Genuine(sent) /\ Members(staging) \subseteq Genuine(sent)
      /\ \E m \in Nat : Reached(sent, GivenOut, receivedRel, m)
  BY InOrderFacts
<1>2. NumFrames' = NumFrames
  BY DEF NumFrames
<1>3. /\ Numbering(sent') /\ sendRel' = (NumFrames' - 1) % SeqSpan
      /\ \E m \in Nat : Reached(sent', GivenOut, receivedRel, m)
  BY <1>1, <1>2
<1>4. Members(q) \cup FramesOf(ds0) \cup FramesOf(net) \cup Members(staging)
          \subseteq Genuine(sent')
  BY <1>1
<1>5. UNCHANGED peerVars
  OBVIOUS
<1> QED BY <1>3, <1>4, <1>5, SendPendingInOrder

LEMMA ResendInOrder ==
    ASSUME LinkInv, InOrder, NEW n \in 0 .. Len(sendDgrams), NEW due \in BOOLEAN,
           SendPendingData(Resent(n), SubSeq(sendDgrams, n + 1, Len(sendDgrams)), due),
           UNCHANGED <<sendRel, sent, peerVars>>
    PROVE  InOrder'
<1>1. toSend \in Seq(Frames) /\ sendDgrams \in Seq(Dgrams)
  BY LinkFacts
<1>2. PICK q, ds, l : q = Resent(n) /\ ds = sendDgrams /\ l = Len(ds)
  OBVIOUS
<1>3. q \in Seq(Frames) /\ Members(q) \subseteq Members(toSend) \cup FramesOf(ds)
  BY <1>1, <1>2, ResentFacts
<1>4. l \in Nat /\ n \in 0 .. l /\ ds \in Seq(Dgrams)
  BY <1>1, <1>2, MemberFacts
<1>5. PICK ds0 : ds0 = SubSeq(ds, n + 1, l)
  OBVIOUS
<1>6. ds0 \in Seq(Dgrams) /\ Members(ds0) \subseteq Members(ds)
  <2>1. n + 1 \in Nat \ {0} /\ l \in Int /\ l <= Len(ds)
    BY <1>2, <1>4
  <2> QED BY <1>4, <1>5, <2>1, MembersOfSub
<1>7. FramesOf(ds0) \subseteq FramesOf(ds)
  BY <1>6, FramesWithin
<1>8. SendPendingData(q, ds0, due)
  BY <1>2, <1>5
<1>9. Members(q) \cup FramesOf(ds0) \subseteq Members(toSend) \cup FramesOf(sendDgrams)
  BY <1>2, <1>3, <1>7
<1> QED BY <1>3, <1>6, <1>8, <1>9, SendAgainInOrder

LEMMA SenderHeartbeatInOrder ==
    ASSUME LinkInv, InOrder, SenderHeartbeat PROVE InOrder'
<1>1. toSend \in Seq(Frames) /\ sendDgrams \in Seq(Dgrams)
  BY LinkFacts
<1>2. PICK q, ds0, due : q = toSend /\ ds0 = sendDgrams /\ due = TRUE
  OBVIOUS
<1>3. SendPendingData(q, ds0, due) /\ UNCHANGED <<sendRel, sent, peerVars>>
  BY <1>2 DEF SenderHeartbeat
<1>4. /\ q \in Seq(Frames) /\ ds0 \in Seq(Dgrams) /\ due \in BOOLEAN
      /\ Members(q) \cup FramesOf(ds0) \subseteq Members(toSend) \cup FramesOf(sendDgrams)
  BY <1>1, <1>2
<1> QED BY <1>3, <1>4, SendAgainInOrder

LEMMA FinishSenderInOrder ==
    ASSUME LinkInv, InOrder, FinishSender PROVE InOrder'
<1>1. PICK due : due = TRUE
  OBVIOUS
<1>2. /\ \E early \in {Early} : \E n \in 0 .. Len(sendDgrams) :
            SendPendingData(Resent(n), SubSeq(sendDgrams, n + 1, Len(sendDgrams)), due)
      /\ UNCHANGED <<sendRel, sent, peerVars>>
  BY <1>1 DEF FinishSender
<1>3. PICK n \in 0 .. Len(sendDgrams) :
            SendPendingData(Resent(n), SubSeq(sendDgrams, n + 1, Len(sendDgrams)), due)
  BY <1>2
<1>4. due \in BOOLEAN
  BY <1>1
<1> QED BY <1>2, <1>3, <1>4, ResendInOrder

LEMMA SenderTimerInOrder ==
    ASSUME LinkInv, InOrder, SenderTimer PROVE InOrder'
<1>1. PICK due : due = FALSE
  OBVIOUS
<1>2. /\ \E early \in {Early} : \E n \in 0 .. Len(sendDgrams) :
            SendPendingData(Resent(n), SubSeq(sendDgrams, n + 1, Len(sendDgrams)), due)
      /\ UNCHANGED <<sendRel, sent, peerVars>>
  BY <1>1 DEF SenderTimer
<1>3. PICK n \in 0 .. Len(sendDgrams) :
            SendPendingData(Resent(n), SubSeq(sendDgrams, n + 1, Len(sendDgrams)), due)
  BY <1>2
<1>4. due \in BOOLEAN
  BY <1>1
<1> QED BY <1>2, <1>3, <1>4, ResendInOrder

\* The peer's part of the steps that only take frames away.
LEMMA ReceiveAckFrameInOrder ==
    ASSUME LinkInv, InOrder, ReceiveAckFrame PROVE InOrder'
<1>1. PICK ds, kept : /\ ds = sendDgrams
                      /\ kept = {i \in 1 .. Len(sendDgrams) :
                                   ~IsAcked(Head(ackNet), sendDgrams[i].seq)}
  OBVIOUS
<1>2. /\ sendDgrams' = Filtered(ds, kept)
      /\ UNCHANGED <<sendRel, sent, toSend, net, peerVars>>
  BY <1>1 DEF ReceiveAckFrame
<1>3. ds \in Seq(Dgrams)
  BY <1>1, LinkFacts
<1>4. PICK left : left = Filtered(ds, kept)
  OBVIOUS
<1>5. Members(left) = {ds[i] : i \in kept \cap (1 .. Len(ds))}
  BY ONLY <1>3, <1>4, FilteredFacts
<1>6. Members(left) \subseteq Members(ds)
  BY <1>5 DEF Members
<1>7. FramesOf(sendDgrams') \subseteq FramesOf(sendDgrams)
  BY <1>1, <1>2, <1>4, <1>6, FramesWithin
<1>8. /\ UNCHANGED <<sendRel, sent, staging, receivedRel>> /\ GivenOut' = GivenOut
      /\ Members(toSend') \subseteq Members(toSend) /\ FramesOf(net') \subseteq FramesOf(net)
  BY <1>2 DEF peerVars, GivenOut
<1> QED BY <1>7, <1>8, FewerInOrder

\* Datagrams are lost, or nothing happens.
LEMMA LoseInOrder ==
    ASSUME LinkInv, InOrder,
           UNCHANGED <<sendRel, sent, toSend, sendDgrams, staging, receivedRel, toReceive,
                       received>>,
           net' = net \/ (net # << >> /\ net' = Tail(net))
    PROVE  InOrder'
<1>1. net \in Seq(Dgrams)
  BY LinkParts DEF LinkTypes
<1>2. Members(net') \subseteq Members(net)
  BY <1>1, MembersOfTail
<1>3. FramesOf(net') \subseteq FramesOf(net)
  BY <1>2, FramesWithin
<1>4. /\ UNCHANGED <<sendRel, sent, staging, receivedRel>> /\ GivenOut' = GivenOut
      /\ Members(toSend') \subseteq Members(toSend)
      /\ FramesOf(sendDgrams') \subseteq FramesOf(sendDgrams)
  BY DEF GivenOut
<1> QED BY <1>3, <1>4, FewerInOrder

\* forward_messages hands over what was given out.
LEMMA FinishPeerInOrder ==
    ASSUME LinkInv, InOrder, FinishPeer PROVE InOrder' /\ received' = GivenOut
<1>1. /\ UNCHANGED <<senderVars, net, staging, receivedRel>>
      /\ toReceive' = << >> /\ received' = received \o Delivered(toReceive)
  BY DEF FinishPeer, WriteAck, Forwarded, Delivered
<1>2. toReceive \in Seq(Messages) /\ received \in Seq(Seq(Nat))
  BY LinkParts DEF LinkTypes
<1>3. PICK t : t = GivenOut
  OBVIOUS
<1>4. received' = t
  BY <1>1, <1>3 DEF GivenOut
<1>5. t \in Seq(Seq(Nat))
  <2>1. PICK d : d = Delivered(toReceive)
    OBVIOUS
  <2>2. d \in Seq(Seq(Nat))
    BY <1>2, <2>1, DeliveredFacts
  <2>3. t = received \o d
    BY <1>3, <2>1 DEF GivenOut
  <2> QED BY <1>2, <2>2, <2>3, MembersOfConcat
<1>6. GivenOut' = GivenOut
  <2>1. GivenOut' = t \o Delivered(<< >>)
    BY <1>1, <1>4 DEF GivenOut
  <2>2. t \o << >> = t
    BY <1>5, ConcatEmptySeq
  <2> QED BY <1>3, <2>1, <2>2, DeliveredNone
<1>7. /\ UNCHANGED <<sendRel, sent, staging, receivedRel>>
      /\ Members(toSend') \subseteq Members(toSend)
      /\ FramesOf(sendDgrams') \subseteq FramesOf(sendDgrams)
      /\ FramesOf(net') \subseteq FramesOf(net)
  BY <1>1 DEF senderVars
<1>8. InOrder'
  BY <1>6, <1>7, FewerInOrder
<1> QED BY <1>3, <1>4, <1>8

\* What has not been given out begins less than the sequence space ago.
LEMMA TakenInTime ==
    ASSUME NEW ms \in Seq(Seq(Nat)), Numbering(ms), NEW t, NEW last, NEW m, Reached(ms, t, last, m),
           \A r \in 1 .. LastRank(ms, Len(ms)) :
              (\A y \in Members(t) : r \notin Members(y))
                 => LastRank(ms, Len(ms)) - r < SeqSpan - 1
    PROVE  LastRank(ms, Len(ms)) - LastRank(ms, m) < SeqSpan
<1>1. PICK L, a, c : L = Len(ms) /\ a = LastRank(ms, m) /\ c = LastRank(ms, L)
  OBVIOUS
<1>2. m \in 0 .. L /\ t = SubSeq(ms, 1, m) /\ L \in Nat
  BY <1>1, MemberFacts DEF Reached
<1>3. L \in 0 .. L /\ a \in Nat /\ c \in Nat
  BY <1>1, <1>2, MessageRanks
<1>4. CASE m = L
  BY <1>1, <1>3, <1>4, ConstantFacts
<1>5. CASE m # L
  <2>1. PICK k, b : k = m + 1 /\ b = LastRank(ms, k)
    OBVIOUS
  <2>2. k \in 1 .. L /\ k \in 0 .. L /\ k - 1 = m
    BY <1>2, <1>5, <2>1
  <2>3. b = a + Len(ms[k]) /\ Len(ms[k]) \in Nat \ {0} /\ b \in Nat /\ b <= c
    <3>1. k \in 1 .. Len(ms) /\ k \in 0 .. Len(ms) /\ L \in 0 .. Len(ms) /\ k <= L
      BY <1>1, <1>2, <1>3, <2>2
    <3>2. /\ LastRank(ms, k) \in Nat /\ Len(ms[k]) \in Nat \ {0}
          /\ LastRank(ms, k) = LastRank(ms, k - 1) + Len(ms[k])
      BY <3>1, MessageRanks
    <3>3. LastRank(ms, k) <= LastRank(ms, L)
      BY <3>1, LastRankGrows
    <3> QED BY <1>1, <2>1, <2>2, <3>2, <3>3
  <2>4. a + 1 \in 1 .. c
    BY <1>3, <2>3
  <2>5. ASSUME NEW y \in Members(t) PROVE a + 1 \notin Members(y)
    <3>1. 1 \in Nat \ {0} /\ m \in Int /\ m <= Len(ms)
      BY <1>1, <1>2
    <3>2. PICK i \in 1 .. Len(t) : y = t[i]
      BY DEF Members
    <3>3. /\ Len(t) = (IF 1 <= m THEN m - 1 + 1 ELSE 0)
          /\ 1 + i - 1 \in 1 .. Len(ms) /\ t[i] = ms[1 + i - 1]
      BY ONLY <1>2, <3>1, <3>2, MembersOfSub, ms \in Seq(Seq(Nat))
    <3>4. /\ i \in 1 .. m /\ i \in 1 .. L /\ i \in 0 .. L /\ i - 1 \in 0 .. L
          /\ 1 + i - 1 = i /\ i <= m
      BY <1>1, <1>2, <3>2, <3>3
    <3>5. y = ms[i]
      BY <3>2, <3>3, <3>4
    <3>6. PICK p, l : p = LastRank(ms, i - 1) /\ l = LastRank(ms, i)
      OBVIOUS
    <3>7. /\ p \in Nat /\ l \in Nat /\ l = p + Len(y) /\ Len(y) \in Nat
          /\ \A j \in 1 .. Len(y) : y[j] = p + j
      BY <1>1, <3>4, <3>5, <3>6, MessageRanks
    <3>8. l <= a
      BY <1>1, <1>2, <3>4, <3>6, LastRankGrows
    <3>9. \A j \in 1 .. Len(y) : y[j] # a + 1
      BY <1>3, <3>7, <3>8
    <3> QED BY <3>9 DEF Members
  <2>6. c - (a + 1) < SeqSpan - 1
    BY <1>1, <2>4, <2>5
  <2> QED BY <1>1, <1>3, <2>6, ConstantFacts
<1> QED BY <1>4, <1>5

LEMMA ReceiveInOrder ==
    ASSUME LinkInv, InOrder, IdsInTime, Receive PROVE InOrder'
<1>1. LinkTypes
  BY LinkParts
<1>2. PICK d, fed, r, fresh, ms, c :
          /\ d = Head(net) /\ fed = staging \o d.frames /\ r = Drained(fed, receivedRel)
          /\ fresh = ~IsDuplicate(peerHistory, d.seq) /\ ms = sent /\ c = NumFrames
  OBVIOUS
<1>3. /\ net # << >> /\ net' = Tail(net)
      /\ staging' = IF fresh THEN r.staging ELSE fed
      /\ receivedRel' = IF fresh THEN r.last ELSE receivedRel
      /\ toReceive' = IF fresh THEN toReceive \o r.out ELSE toReceive
      /\ UNCHANGED <<senderVars, received>>
  BY <1>2 DEF Receive
<1>4. /\ staging \in Seq(Frames) /\ receivedRel \in SeqNums /\ toReceive \in Seq(Messages)
      /\ net \in Seq(Dgrams) /\ received \in Seq(Seq(Nat)) /\ ms \in Seq(Seq(Nat))
  BY <1>1, <1>2 DEF LinkTypes
<1>5. d \in Dgrams /\ d \in Members(net) /\ Members(net') \subseteq Members(net)
  BY <1>2, <1>3, <1>4, MembersOfTail DEF Members
<1>6. d.frames \in Seq(Frames)
  BY <1>5 DEF Dgrams
<1>7. fed \in Seq(Frames) /\ Members(fed) = Members(staging) \cup Members(d.frames)
  BY <1>2, <1>4, <1>6, MembersOfConcat
<1>8. /\ Numbering(ms) /\ sendRel = (c - 1) % SeqSpan
      /\ Members(toSend) \subseteq Genuine(ms) /\ FramesOf(sendDgrams) \subseteq Genuine(ms)
      /\ FramesOf(net) \subseteq Genuine(ms) /\ Members(staging) \subseteq Genuine(ms)
      /\ \E m \in Nat : Reached(ms, GivenOut, receivedRel, m)
  BY <1>2, InOrderFacts
<1>9. c = LastRank(ms, Len(ms))
  BY <1>2, <1>4, NumFramesFact
<1>10. Members(fed) \subseteq Genuine(ms)
  BY <1>5, <1>7, <1>8 DEF FramesOf
<1>11. Members(fed) \subseteq Apart(ms)
  <2>1. ASSUME NEW f \in Members(fed), f.reliable
        PROVE  LastRank(ms, Len(ms)) - f.rank < SeqSpan - 1
    <3>1. f.rank \in FrameRanks(staging) \cup FrameRanks(d.frames)
      BY <1>7, <2>1, RankFacts
    <3>2. FrameRanks(d.frames) \subseteq RanksKept(net)
      BY <1>5, KeptFacts
    <3> QED BY <1>2, <1>9, <3>1, <3>2 DEF IdsInTime
  <2> QED BY <1>10, <2>1 DEF Apart
<1>12. /\ UNCHANGED <<sendRel, sent, toSend, sendDgrams, received>> /\ NumFrames' = NumFrames
  BY <1>3 DEF senderVars, NumFrames
<1>13. FramesOf(net') \subseteq FramesOf(net)
  BY <1>5, FramesWithin
<1>14. PICK m \in Nat : Reached(ms, GivenOut, receivedRel, m)
  BY <1>8
<1>15. Members(staging') \subseteq Genuine(ms)
       /\ \E k \in Nat : Reached(ms, GivenOut', receivedRel', k)
  <2>1. CASE fresh
    <3>1. PICK t, rcv, tr, last :
              t = GivenOut /\ rcv = received /\ tr = toReceive /\ last = receivedRel
      OBVIOUS
    <3>2. /\ t = rcv \o Delivered(tr) /\ Reached(ms, t, last, m)
          /\ rcv \in Seq(Seq(Nat)) /\ tr \in Seq(Messages) /\ last \in SeqNums
      BY <1>4, <1>14, <3>1 DEF GivenOut
    <3>3. ASSUME NEW k \in 1 .. LastRank(ms, Len(ms)), \A y \in Members(t) : k \notin Members(y)
          PROVE  LastRank(ms, Len(ms)) - k < SeqSpan - 1
      <4>1. k \in NotGivenOut
        BY <1>2, <1>9, <3>1, <3>3 DEF NotGivenOut
      <4> QED BY <1>2, <1>9, <4>1 DEF IdsInTime
    <3>4. LastRank(ms, Len(ms)) - LastRank(ms, m) < SeqSpan
      BY <1>4, <1>8, <3>2, <3>3, TakenInTime
    <3>5. Reached(ms, rcv \o Delivered(tr), last, m)
      BY <3>2
    <3>6. Drained(fed, last) \in OrderedDraining(ms, rcv, tr)
      BY ONLY <1>4, <1>7, <1>8, <1>11, <3>2, <3>4, <3>5, DrainInOrder
    <3>7. r \in OrderedDraining(ms, rcv, tr)
      BY <1>2, <3>1, <3>6
    <3>8. PICK k \in Nat : Reached(ms, rcv \o Delivered(tr \o r.out), r.last, k)
      BY <3>7 DEF OrderedDraining
    <3>9. Members(r.staging) \subseteq Genuine(ms)
      BY <3>7 DEF OrderedDraining, Apart
    <3>10. staging' = r.staging /\ receivedRel' = r.last /\ toReceive' = tr \o r.out
           /\ received' = rcv
      BY <1>3, <2>1, <3>1
    <3>11. GivenOut' = rcv \o Delivered(tr \o r.out)
      BY <3>10 DEF GivenOut
    <3> QED BY <3>8, <3>9, <3>10, <3>11
  <2>2. CASE ~fresh
    <3>1. staging' = fed /\ receivedRel' = receivedRel /\ toReceive' = toReceive
      BY <1>3, <2>2
    <3>2. GivenOut' = GivenOut
      BY <1>12, <3>1 DEF GivenOut
    <3> QED BY <1>10, <1>14, <3>1, <3>2
  <2> QED BY <2>1, <2>2
<1>16. Members(toSend') \cup FramesOf(sendDgrams') \cup FramesOf(net') \cup Members(staging')
          \subseteq Genuine(ms)
  BY <1>8, <1>12, <1>13, <1>15
<1>17. /\ Numbering(sent') /\ sendRel' = (NumFrames' - 1) % SeqSpan
       /\ Members(toSend') \cup FramesOf(sendDgrams') \cup FramesOf(net') \cup Members(staging')
            \subseteq Genuine(sent')
       /\ \E k \in Nat : Reached(sent', GivenOut', receivedRel', k)
  BY <1>2, <1>8, <1>12, <1>15, <1>16
<1> QED BY <1>17 DEF InOrder

LEMMA LinkNextInOrder ==
    ASSUME LinkInv, InOrder, IdsInTime, [LinkNext]_linkVars PROVE InOrder'
<1>1. ASSUME NEW n \in 1 .. MaxChunks, SendReliable(n) PROVE InOrder'
  BY <1>1, SendReliableInOrder
<1>2. CASE SendUnreliable
  BY <1>2, SendUnreliableInOrder
<1>3. CASE ReceiveAckFrame
  BY <1>3, ReceiveAckFrameInOrder
<1>4. CASE FinishSender
  BY <1>4, FinishSenderInOrder
<1>5. CASE SenderTimer
  BY <1>5, SenderTimerInOrder
<1>6. CASE SenderHeartbeat
  BY <1>6, SenderHeartbeatInOrder
<1>7. CASE Receive
  BY <1>7, ReceiveInOrder
<1>8. CASE FinishPeer
  BY <1>8, FinishPeerInOrder
<1>9. CASE PeerHeartbeat
  BY <1>9, LoseInOrder DEF PeerHeartbeat, senderVars
<1>10. CASE LoseDatagram
  BY <1>10, LoseInOrder DEF LoseDatagram, senderVars, peerVars
<1>11. CASE LoseAckFrame
  BY <1>11, LoseInOrder DEF LoseAckFrame, senderVars, peerVars
<1>12. CASE UNCHANGED linkVars
  BY <1>12, LoseInOrder DEF linkVars, senderVars, peerVars
<1> QED BY <1>1, <1>2, <1>3, <1>4, <1>5, <1>6, <1>7, <1>8, <1>9, <1>10, <1>11, <1>12
        DEF LinkNext

-----------------------------------------------------------------------------
(* The steps of the channel.                                               *)

\* The bound on the frames queued.
Bounded == unreliables \in Nat /\ NumFrames + unreliables <= MaxFrames

LEMMA BoundedNext ==
    ASSUME LinkInv, LinkInv', Bounded, [LinkNext]_linkVars
    PROVE  Bounded'
<1>1. NumFrames \in Nat /\ NumFrames' \in Nat /\ MaxFrames \in Nat
  BY CarrierLinkAssumption DEF LinkInv, LinkTypes
<1>2. ASSUME NEW n \in 1 .. MaxChunks, SendReliable(n) PROVE Bounded'
  <2>1. PICK x : x = [i \in 1 .. n |-> NumFrames + i]
    OBVIOUS
  <2>2. /\ sent' = Append(sent, x) /\ unreliables' = unreliables
        /\ NumFrames + unreliables + n <= MaxFrames
    BY <1>2, <2>1 DEF SendReliable
  <2>3. n \in Nat \ {0} /\ sent \in Seq(Seq(Nat))
    BY CarrierLinkAssumption, LinkFacts
  <2>4. x \in Seq(Nat) /\ Len(x) = n /\ x[n] = NumFrames + n
    <3>1. x \in [1 .. n -> Nat]
      BY <1>1, <2>1, <2>3
    <3> QED BY <2>1, <2>3, <3>1, MembersOfFunction
  <2>5. PICK s : s = Append(sent, x)
    OBVIOUS
  <2>6. s \in Seq(Seq(Nat)) /\ Len(s) = Len(sent) + 1 /\ s[Len(sent) + 1] = x
    BY <2>3, <2>4, <2>5, MembersOfAppend
  <2>7. s # << >>
    BY <2>3, <2>6, MemberFacts, EmptySeq
  <2>8. NumFrames' = NumFrames + n
    BY <2>2, <2>4, <2>5, <2>6, <2>7 DEF NumFrames
  <2> QED BY <1>1, <2>2, <2>3, <2>8 DEF Bounded
<1>3. CASE SendUnreliable
  <2>1. /\ sent' = sent /\ unreliables' = unreliables + 1 /\ NumFrames + unreliables < MaxFrames
    BY <1>3 DEF SendUnreliable
  <2>2. NumFrames' = NumFrames
    BY <2>1 DEF NumFrames
  <2> QED BY <1>1, <2>1, <2>2 DEF Bounded
<1>4. ASSUME UNCHANGED <<sent, unreliables>> PROVE Bounded'
  <2>1. NumFrames' = NumFrames
    BY <1>4 DEF NumFrames
  <2> QED BY <1>4, <2>1 DEF Bounded
<1>5. CASE ReceiveAckFrame
  BY <1>4, <1>5 DEF ReceiveAckFrame
<1>6. CASE FinishSender
  BY <1>4, <1>6 DEF FinishSender
<1>7. CASE SenderTimer
  BY <1>4, <1>7 DEF SenderTimer
<1>8. CASE SenderHeartbeat
  BY <1>4, <1>8 DEF SenderHeartbeat
<1>9. CASE Receive
  BY <1>4, <1>9 DEF Receive, senderVars
<1>10. CASE FinishPeer
  BY <1>4, <1>10 DEF FinishPeer, senderVars
<1>11. CASE PeerHeartbeat
  BY <1>4, <1>11 DEF PeerHeartbeat, senderVars
<1>12. CASE LoseDatagram \/ LoseAckFrame \/ UNCHANGED linkVars
  BY <1>4, <1>12 DEF LoseDatagram, LoseAckFrame, linkVars, senderVars
<1> QED BY <1>2, <1>3, <1>5, <1>6, <1>7, <1>8, <1>9, <1>10, <1>11, <1>12 DEF LinkNext

\* Few enough frames for the ids are in time.
LEMMA FewInTime ==
    ASSUME LinkInv, InOrder, Bounded, MaxFrames < SeqSpan
    PROVE  IdsInTime
<1>1. /\ NumFrames \in Nat /\ MaxFrames \in Nat /\ SeqSpan \in Nat /\ sent \in Seq(Seq(Nat))
      /\ unreliables \in Nat /\ NumFrames + unreliables <= MaxFrames
  BY CarrierLinkAssumption, ConstantFacts DEF LinkInv, LinkTypes, Bounded
<1>2. NumFrames = LastRank(sent, Len(sent)) /\ Numbering(sent)
  BY <1>1, NumFramesFact, InOrderFacts
<1>3. ASSUME NEW f \in Members(staging) \cup FramesOf(net), f.reliable
      PROVE  f.rank \in 1 .. NumFrames
  <2>1. f \in Genuine(sent)
    BY InOrderFacts
  <2> QED BY <1>1, <1>2, <1>3, <2>1, NextMessage
<1>4. FrameRanks(staging) \subseteq 1 .. NumFrames
  BY <1>3, RankFacts
<1>5. RanksKept(net) \subseteq 1 .. NumFrames
  <2>1. ASSUME NEW e \in Members(net) PROVE FrameRanks(e.frames) \subseteq 1 .. NumFrames
    <3>1. Members(e.frames) \subseteq FramesOf(net)
      BY DEF FramesOf
    <3> QED BY <1>3, <3>1, RankFacts
  <2> QED BY <2>1, KeptFacts
<1>6. NotGivenOut \subseteq 1 .. NumFrames
  BY DEF NotGivenOut
<1>7. \A r \in 1 .. NumFrames : NumFrames - r < SeqSpan - 1
  BY <1>1
<1> QED BY <1>4, <1>5, <1>6, <1>7 DEF IdsInTime

\* queue_message of a reliable message is SendMessage of the channel.
LEMMA SendReliableImplements ==
    ASSUME LinkInv, Bounded, NEW n \in 1 .. MaxChunks, SendReliable(n)
    PROVE  Channel!SendMessage
<1>1. NumFrames \in 0 .. MaxFrames
  <2>1. NumFrames \in Nat /\ MaxFrames \in Nat /\ unreliables \in Nat
    BY LinkFacts, CarrierLinkAssumption DEF Bounded
  <2> QED BY <2>1 DEF Bounded
<1>2. sent' = Append(sent, [i \in 1 .. n |-> NumFrames + i]) /\ received' = received
  BY DEF SendReliable, peerVars
<1> QED BY <1>1, <1>2 DEF Channel!SendMessage

\* forward_messages is Deliver, or nothing became deliverable.
LEMMA FinishPeerImplements ==
    ASSUME LinkInv, InOrder, FinishPeer
    PROVE  Channel!Deliver \/ UNCHANGED <<sent, received>>
<1>1. sent' = sent /\ received' = GivenOut /\ received' = received \o Delivered(toReceive)
  BY FinishPeerInOrder DEF FinishPeer, senderVars, GivenOut
<1>2. received \in Seq(Seq(Nat)) /\ sent \in Seq(Seq(Nat)) /\ toReceive \in Seq(Messages)
  BY LinkParts DEF LinkTypes
<1>3. PICK d : d = Delivered(toReceive)
  OBVIOUS
<1>4. d \in Seq(Seq(Nat))
  BY <1>2, <1>3, DeliveredFacts
<1>5. /\ Len(received') = Len(received) + Len(d) /\ Len(d) \in Nat /\ Len(received) \in Nat
      /\ Len(sent) \in Nat
  <2>1. received' = received \o d
    BY <1>1, <1>3
  <2> QED BY <1>2, <1>4, <2>1, ConcatProperties, MemberFacts
<1>6. PICK m \in Nat : m \in 0 .. Len(sent) /\ received' = SubSeq(sent, 1, m)
  BY <1>1, InOrderFacts DEF Reached
<1>7. Len(received') = m
  <2>1. 1 \in Nat \ {0} /\ m \in Int /\ m <= Len(sent)
    BY <1>5, <1>6
  <2>2. Len(SubSeq(sent, 1, m)) = IF 1 <= m THEN m - 1 + 1 ELSE 0
    BY ONLY <1>2, <2>1, MembersOfSub
  <2> QED BY <1>6, <2>2
<1>8. CASE d = << >>
  <2>1. received \o << >> = received
    BY <1>2, ConcatEmptySeq
  <2> QED BY <1>1, <1>3, <1>8, <2>1
<1>9. CASE d # << >>
  <2>1. Len(d) # 0
    BY <1>4, <1>9, EmptySeq
  <2>2. m \in Len(received) + 1 .. Len(sent)
    BY <1>5, <1>6, <1>7, <2>1
  <2> QED BY <1>1, <1>6, <2>2 DEF Channel!Deliver
<1> QED BY <1>8, <1>9

LEMMA LinkNextImplements ==
    ASSUME LinkInv, InOrder, Bounded, [LinkNext]_linkVars
    PROVE  [Channel!Next]_<<sent, received>>
<1>1. ASSUME NEW n \in 1 .. MaxChunks, SendReliable(n) PROVE Channel!Next
  BY <1>1, SendReliableImplements DEF Channel!Next
<1>2. CASE FinishPeer
  BY <1>2, FinishPeerImplements DEF Channel!Next
<1>3. CASE SendUnreliable
  BY <1>3 DEF SendUnreliable, peerVars
<1>4. CASE ReceiveAckFrame
  BY <1>4 DEF ReceiveAckFrame, peerVars
<1>5. CASE FinishSender
  BY <1>5 DEF FinishSender, peerVars
<1>6. CASE SenderTimer
  BY <1>6 DEF SenderTimer, peerVars
<1>7. CASE SenderHeartbeat
  BY <1>7 DEF SenderHeartbeat, peerVars
<1>8. CASE Receive
  BY <1>8 DEF Receive, senderVars
<1>9. CASE PeerHeartbeat
  BY <1>9 DEF PeerHeartbeat, senderVars
<1>10. CASE LoseDatagram \/ LoseAckFrame \/ UNCHANGED linkVars
  BY <1>10 DEF LoseDatagram, LoseAckFrame, linkVars, senderVars, peerVars
<1> QED BY <1>1, <1>2, <1>3, <1>4, <1>5, <1>6, <1>7, <1>8, <1>9, <1>10 DEF LinkNext

LEMMA LinkInitImplements ==
    ASSUME LinkInit PROVE InOrder /\ Bounded /\ Channel!Init
<1>1. sent = << >> /\ received = << >> /\ unreliables = 0
  BY DEF LinkInit
<1>2. Bounded
  BY <1>1, CarrierLinkAssumption DEF Bounded, NumFrames
<1> QED BY <1>1, <1>2, LinkInitInOrder DEF Channel!Init

\* The invariant behind the order: every reliable frame that is queued, kept, in flight
\* or staged is a chunk of a message of queue_message, under its own id and with its own
\* countdown num_chunks, and next_ready and drain have given out the first messages, in
\* order, once and whole, received_reliable_seq_num being the id of the last frame of
\* them, as long as no id is used again too early.
THEOREM OrderInvariance == LinkSpec /\ []IdsInTime => []InOrder
<1>1. LinkInit => InOrder
  BY LinkInitInOrder
<1>2. LinkInv /\ InOrder /\ IdsInTime /\ [LinkNext]_linkVars => InOrder'
  BY LinkNextInOrder
<1> QED BY <1>1, <1>2, LinkInvariance, PTL DEF LinkSpec

LEMMA FramesBounded == LinkSpec => []Bounded
<1>1. LinkInit => Bounded
  BY LinkInitImplements
<1>2. LinkInv /\ LinkInv' /\ Bounded /\ [LinkNext]_linkVars => Bounded'
  BY BoundedNext
<1> QED BY <1>1, <1>2, LinkInvariance, PTL DEF LinkSpec

\* The refinement: what one end queues with queue_message and the other end's
\* forward_messages hands to the application is the run of a queue, whatever is lost,
\* retransmitted or retransmitted without need, for every size of the sequence space,
\* the ring, a datagram and the queues, as long as no id is used again too early.
THEOREM ChannelImplemented == LinkSpec /\ []IdsInTime => ImplementsChannel
<1>1. LinkInit => Channel!Init
  BY LinkInitImplements
<1>2. LinkInv /\ InOrder /\ Bounded /\ [LinkNext]_linkVars => [Channel!Next]_<<sent, received>>
  BY LinkNextImplements
<1> QED BY <1>1, <1>2, LinkInvariance, OrderInvariance, FramesBounded, PTL
        DEF LinkSpec, ImplementsChannel, Channel!Spec

\* The same with nothing asked of time: a session of fewer reliable frames than there
\* are ids, 2^16 of them in the code, is the run of a queue.
THEOREM ShortSessionImplements ==
    ASSUME MaxFrames < SeqSpan
    PROVE  LinkSpec => ImplementsChannel
<1>1. LinkInit => InOrder
  BY LinkInitInOrder
<1>2. LinkInv /\ InOrder /\ Bounded => IdsInTime
  BY FewInTime
<1>3. LinkInv /\ InOrder /\ IdsInTime /\ [LinkNext]_linkVars => InOrder'
  BY LinkNextInOrder
<1>4. LinkSpec => []IdsInTime
  BY <1>1, <1>2, <1>3, LinkInvariance, FramesBounded, PTL DEF LinkSpec
<1> QED BY <1>4, ChannelImplemented, PTL
===============================================================================
