--------------------------- MODULE ContainerProofs ---------------------------
(***************************************************************************)
(* Proofs about ContainerSync, for every set of keys and values, length of *)
(* the journal and number of merges, edits and messages: type correctness, *)
(* that a delta brings a container from any state since its baseline to    *)
(* the state it was cut from, that the client keeps up with the hub, and   *)
(* that its news are not lost.                                             *)
(***************************************************************************)
EXTENDS ContainerSync, Residues

-----------------------------------------------------------------------------
(* What a list of changes says: of each key, its last change counts.       *)

Same(f, g, k) == /\ k \in DOMAIN f <=> k \in DOMAIN g
                 /\ k \in DOMAIN f => f[k] = g[k]

\* cs[i] is the last change of its key.
Final(cs, i) == \A j \in DOMAIN cs : j > i => cs[j].key # cs[i].key

\* The values g are as ch leaves them; a key-only change leaves any value.
Wrote(ch, g) == IF ch.op = "remove" THEN ch.key \notin DOMAIN g
                ELSE ch.key \in DOMAIN g /\ (ch.value # None => g[ch.key] = ch.value)

\* What cs says last of each key is true of g.
Settles(cs, g) == \A i \in DOMAIN cs : Final(cs, i) => Wrote(cs[i], g)

Untouched(cs, k) == \A i \in DOMAIN cs : cs[i].key # k

\* The changes cs lead from f to g.
Effect(cs, f, g) ==
    Settles(cs, g) /\ \A k \in Keys : Untouched(cs, k) => Same(f, g, k)

\* Every live change has its value, as all have that were on the wire.
Valued(cs) == \A i \in DOMAIN cs : cs[i].op # "remove" => cs[i].value \in Values

-----------------------------------------------------------------------------
(* The inductive invariant.                                                *)

Changes == Seq(Change(SeqRange))
Sets == [sequence : 1 .. MaxSeq, changes : Changes]

Containers ==
    [last_modified : SeqRange, full : SeqRange, values : Maps, changes : Changes,
     journal : Seq(Sets), initialize : BOOLEAN, pending : BOOLEAN,
     default : BOOLEAN, news : BOOLEAN, processed : SeqRange]

\* The journal J has every merge after b up to n that changed something; com are
\* the values after each merge.
Complete(J, com, b, n) ==
    \A s \in b + 1 .. n :
        com[s] = com[s - 1] \/ \E i \in DOMAIN J : J[i].sequence = s /\ J[i].changes # <<>>

\* Each set of the hub's journal tells what its merge did, unless that was an
\* initialization, and nothing is missing behind it.
SetOK(J, com, n, i) ==
    /\ J[i].sequence <= n
    /\ J[i].changes # <<>> =>
         Effect(J[i].changes, com[J[i].sequence - 1], com[J[i].sequence])
    /\ \A p \in DOMAIN J[i].changes : J[i].changes[p].sequence \in {Invalid, J[i].sequence}
    /\ Complete(J, com, J[i].sequence, n)

JournalOK(J, com, n) ==
    /\ \A i, j \in DOMAIN J : i < j => J[i].sequence < J[j].sequence
    /\ \A i \in DOMAIN J : SetOK(J, com, n, i)

\* Nothing changed from merge a to merge b.
Steady(com, a, b) == \A x \in a .. b : com[x] = com[b]

\* The hub's container h after n merges, whose values com tells.
HubOK(h, n, com) ==
    /\ h \in Containers /\ n \in 0 .. MaxSeq
    /\ com \in [0 .. n -> Maps] /\ com[n] = h.values
    /\ h.changes = <<>> /\ ~h.pending /\ h.full = Invalid
    /\ h.processed <= n
    /\ \/ h.last_modified = Invalid /\ Steady(com, 0, n)
       \/ h.last_modified \in 1 .. n /\ Steady(com, h.last_modified, n)
    /\ Len(h.journal) <= JournalSize /\ JournalOK(h.journal, com, n)

HubInv == HubOK(hub, seq, committed) /\ edits \in 0 .. MaxEdits

\* The owner's copy: its changes lead from the hub's values to its own.
WorkOK(w, h) ==
    /\ w \in Containers /\ w.journal = h.journal /\ w.processed = h.processed
    /\ ~w.pending /\ w.full = Invalid
    /\ w.initialize => w.changes = <<>>
    /\ ~w.initialize => Effect(w.changes, h.values, w.values)
    /\ \A i \in DOMAIN w.changes : w.changes[i].value = None /\ w.changes[i].sequence = Invalid

WorkInv == WorkOK(work, hub)

\* A snapshot on its way: the hub did not change from its sequence number until
\* it was sent.
SnapshotOK(m, com) ==
    LET new == Unmarshal(m.body)
    IN  /\ m.body.mode = "full" /\ new \in Containers
        /\ new.initialize /\ new.changes = <<>> /\ new.journal = <<>>
        /\ new.last_modified # Invalid /\ new.full = new.processed
        /\ new.full \in 1 .. m.seq /\ Steady(com, new.full, m.seq)
        /\ new.values = com[m.seq]

\* A delta on its way to a client that will have merged x before.  Unless the
\* journal cut it off it leads from every state from then on to the one it was cut
\* from, and nothing changed after its last stamp.  What it says is true in any case.
DeltaOK(m, x, com) ==
    LET new == Unmarshal(m.body)
        cs == new.changes
    IN  /\ m.body.mode = "delta" /\ new \in Containers
        /\ ~new.initialize /\ new.pending /\ new.journal = <<>>
        /\ new.last_modified # Invalid
        /\ cs # <<>> /\ Valued(cs) /\ Settles(cs, com[m.seq])
        /\ ~m.gap => /\ \A y \in x .. m.seq : Effect(cs, com[y], com[m.seq])
                     /\ \/ cs[Len(cs)].sequence = Invalid
                        \/ cs[Len(cs)].sequence \in 1 .. m.seq
                           /\ Steady(com, cs[Len(cs)].sequence, m.seq)

Bodies ==
    [mode : {"full"}, sequence : SeqRange, values : Maps] \cup
    [mode : {"delta"}, entries : Seq([live : BOOLEAN, key : Keys, sequence : SeqRange,
                                     value : Values \cup {None}])]

Messages == [seq : 1 .. MaxSeq, body : Bodies, gap : BOOLEAN]

\* What the client will have merged when it comes to the i-th message.
Before(i) == IF i = 1 THEN received ELSE net[i - 1].seq

NetInv ==
    /\ net \in Seq(Messages) /\ Len(net) <= MaxNet
    /\ received \in 0 .. seq
    /\ \A i \in DOMAIN net :
         /\ net[i].seq \in received .. seq
         /\ \A j \in 1 .. i : net[j].seq <= net[i].seq
         /\ net[i].seq <= sent
         /\ SnapshotOK(net[i], committed) \/ DeltaOK(net[i], Before(i), committed)
    /\ IF net # <<>> THEN sent = net[Len(net)].seq
       ELSE sent = received \/ (sent = Invalid /\ received = 0)

\* The journal J of a client that has merged r: bounded and in order.
LogOK(J, r) ==
    /\ Len(J) <= JournalSize
    /\ \A i \in DOMAIN J : /\ J[i].sequence <= r
                           /\ i > 1 => J[i - 1].sequence <= J[i].sequence

\* The client's container c after the merge of r, whose snapshot is of c.processed.
\* When nothing changed from that snapshot on it is up to date.
ClientOK(c, com, r) ==
    /\ c \in Containers /\ LogOK(c.journal, r)
    /\ c.processed = Invalid \/ c.processed \in 1 .. r
    /\ (c.processed # Invalid /\ Steady(com, c.processed, r)) => c.values = com[r]

ClientInv ==
    /\ ClientOK(client, committed, received)
    /\ missed \in BOOLEAN /\ unseen \in BOOLEAN
    /\ InSync /\ NewsKept

IndInv == HubInv /\ WorkInv /\ NetInv /\ ClientInv

-----------------------------------------------------------------------------
(* Maps.                                                                   *)

LEMMA MapIs ==
    ASSUME NEW f
    PROVE  f \in Maps <=> /\ DOMAIN f \in SUBSET Keys /\ f = [x \in DOMAIN f |-> f[x]]
                          /\ \A x \in DOMAIN f : f[x] \in Values
<1>1. ASSUME f \in Maps
      PROVE  /\ DOMAIN f \in SUBSET Keys /\ f = [x \in DOMAIN f |-> f[x]]
             /\ \A x \in DOMAIN f : f[x] \in Values
  <2>1. PICK S \in SUBSET Keys : f \in [S -> Values]
    BY <1>1 DEF Maps
  <2> QED BY <2>1
<1>2. ASSUME DOMAIN f \in SUBSET Keys, f = [x \in DOMAIN f |-> f[x]],
             \A x \in DOMAIN f : f[x] \in Values
      PROVE  f \in Maps
  <2>1. f \in [DOMAIN f -> Values]
    BY <1>2
  <2> QED BY <1>2, <2>1 DEF Maps
<1> QED BY <1>1, <1>2

\* Maps that agree on every key are equal.
LEMMA SameMaps ==
    ASSUME NEW f \in Maps, NEW g \in Maps, \A k \in Keys : Same(f, g, k)
    PROVE  f = g
<1>1. /\ DOMAIN f \in SUBSET Keys /\ f = [x \in DOMAIN f |-> f[x]]
      /\ DOMAIN g \in SUBSET Keys /\ g = [x \in DOMAIN g |-> g[x]]
  BY MapIs
<1>2. DOMAIN f = DOMAIN g /\ \A x \in DOMAIN f : f[x] = g[x]
  BY <1>1 DEF Same
<1> QED BY <1>1, <1>2

LEMMA ApplyChangeFacts ==
    ASSUME NEW f \in Maps, NEW S, NEW ch \in Change(S)
    PROVE  /\ ApplyChange(f, ch) \in Maps
           /\ \A k \in Keys : k # ch.key => Same(f, ApplyChange(f, ch), k)
           /\ ch.op = "remove" \/ ch.value \in Values => Wrote(ch, ApplyChange(f, ch))
<1>1. /\ DOMAIN f \in SUBSET Keys /\ f = [x \in DOMAIN f |-> f[x]]
      /\ \A x \in DOMAIN f : f[x] \in Values
  BY MapIs
<1>2. ch.key \in Keys /\ ch.op \in Ops
  BY DEF Change
<1> DEFINE g == ApplyChange(f, ch)
<1>3. CASE ch.op = "remove"
  <2>1. g = [x \in DOMAIN f \ {ch.key} |-> f[x]]
    BY <1>3 DEF ApplyChange, Without
  <2> HIDE DEF g
  <2>2. g \in Maps
    BY <1>1, <2>1, MapIs
  <2> QED BY <1>1, <1>3, <2>1, <2>2 DEF g, Same, Wrote
<1>4. CASE ch.op # "remove" /\ ch.value \in Values
  <2>1. g = [x \in DOMAIN f \cup {ch.key} |-> IF x = ch.key THEN ch.value ELSE f[x]]
    BY <1>4 DEF ApplyChange, Put
  <2> HIDE DEF g
  <2>2. g \in Maps
    BY <1>1, <1>2, <1>4, <2>1, MapIs
  <2> QED BY <1>1, <1>4, <2>1, <2>2 DEF g, Same, Wrote
<1>5. CASE ch.op # "remove" /\ ch.value \notin Values
  <2>1. g = f
    BY <1>5 DEF ApplyChange
  <2> QED BY <1>5, <2>1 DEF Same
<1> QED BY <1>3, <1>4, <1>5

-----------------------------------------------------------------------------
(* Lists of changes.                                                       *)

LEMMA EffectAppend ==
    ASSUME NEW f, NEW g \in Maps, NEW cs \in Changes, Effect(cs, f, g),
           NEW ch \in Change(SeqRange), ch.op = "remove" \/ ch.value \in Values,
           NEW ch2 \in Change(SeqRange), ch2.op = ch.op, ch2.key = ch.key,
           ch2.value \in {ch.value, None}
    PROVE  Effect(Append(cs, ch2), f, ApplyChange(g, ch))
<1> DEFINE h == ApplyChange(g, ch)
           ds == Append(cs, ch2)
           n == Len(cs)
<1>1. /\ n \in Nat /\ DOMAIN cs = 1 .. n /\ DOMAIN ds = 1 .. n + 1
      /\ \A i \in 1 .. n : ds[i] = cs[i] /\ cs[i].key \in Keys
      /\ ds[n + 1] = ch2 /\ ch.key \in Keys
  <2>1. n \in Nat /\ DOMAIN cs = 1 .. n /\ \A i \in 1 .. n : cs[i] \in Change(SeqRange)
    BY DEF Changes
  <2>2. DOMAIN ds = 1 .. n + 1 /\ \A i \in 1 .. n : ds[i] = cs[i]
    BY DEF Changes
  <2>3. ds[n + 1] = ch2
    BY DEF Changes
  <2>4. \A c \in Change(SeqRange) : c.key \in Keys
    BY DEF Change
  <2> QED BY <2>1, <2>2, <2>3, <2>4
<1>2. Wrote(ch, h) /\ \A k \in Keys : k # ch.key => Same(g, h, k)
  BY ApplyChangeFacts
<1> HIDE DEF h, ds, n
<1>3. Wrote(ch2, h)
  BY <1>2 DEF Wrote
<1>4. ASSUME NEW i \in 1 .. n + 1, Final(ds, i) PROVE Wrote(ds[i], h)
  <2>1. CASE i = n + 1
    BY <1>1, <1>3, <2>1
  <2>2. CASE i # n + 1
    <3>1. i \in 1 .. n /\ n + 1 \in 1 .. n + 1 /\ n + 1 > i
      BY <1>1, <2>2
    <3>2. ds[i] = cs[i] /\ cs[i].key # ch.key
      BY <1>1, <1>4, <3>1 DEF Final
    <3>3. \A j \in 1 .. n : j \in 1 .. n + 1
      BY <1>1
    <3>4. Final(cs, i)
      BY <1>1, <1>4, <3>1, <3>3 DEF Final
    <3>5. Wrote(cs[i], g)
      BY <1>1, <3>1, <3>4 DEF Effect, Settles
    <3>6. Same(g, h, cs[i].key)
      BY <1>1, <1>2, <3>1, <3>2
    <3> QED BY <3>2, <3>5, <3>6 DEF Wrote, Same
  <2> QED BY <2>1, <2>2
<1>5. ASSUME NEW k \in Keys, Untouched(ds, k) PROVE Same(f, h, k)
  <2>1. \A i \in 1 .. n : i \in 1 .. n + 1
    BY <1>1
  <2>2. Untouched(cs, k) /\ k # ch.key
    <3>1. n + 1 \in 1 .. n + 1
      BY <1>1
    <3> QED BY <1>1, <1>5, <2>1, <3>1 DEF Untouched
  <2>3. Same(f, g, k) /\ Same(g, h, k)
    BY <1>2, <2>2 DEF Effect
  <2> QED BY <2>3 DEF Same
<1>6. Effect(ds, f, h)
  BY <1>1, <1>4, <1>5 DEF Effect, Settles
<1> QED BY <1>6 DEF ds, h

\* apply_changes is the loop it says.
LEMMA ApplyLoop ==
    ASSUME NEW f \in Maps, NEW cs \in Changes
    PROVE  \E w \in [0 .. Len(cs) -> Maps] :
               /\ w[0] = f /\ ApplyChanges(f, cs) = w[Len(cs)]
               /\ \A n \in 1 .. Len(cs) : w[n] = ApplyChange(w[n - 1], cs[n])
<1> DEFINE N == Len(cs)
           G == [p \in (1 .. N) \X Maps |-> ApplyChange(p[2], cs[p[1]])]
<1>1. N \in Nat /\ \A n \in 1 .. N : cs[n] \in Change(SeqRange)
  BY DEF Changes
<1>2. \A n \in 1 .. N : \A g \in Maps : ApplyChange(g, cs[n]) \in Maps
  BY <1>1, ApplyChangeFacts
<1> HIDE DEF N
<1>3. G \in [(1 .. N) \X Maps -> Maps] /\ \A n \in 1 .. N : \A g \in Maps :
                                              G[<<n, g>>] = ApplyChange(g, cs[n])
  BY <1>2
<1> HIDE DEF G
<1>4. PICK x : IsRun(x, N, Maps, G, f)
  BY <1>1, <1>3, RunExists
<1>5. /\ x \in [0 .. N -> Maps] /\ x[0] = f
      /\ \A n \in 1 .. N : x[n] = ApplyChange(x[n - 1], cs[n])
  <2>1. x \in [0 .. N -> Maps] /\ x[0] = f /\ \A n \in 1 .. N : x[n] = G[<<n, x[n - 1]>>]
    BY <1>4 DEF IsRun
  <2>2. \A n \in 1 .. N : x[n - 1] \in Maps
    BY <1>1, <2>1
  <2> QED BY <1>3, <2>1, <2>2
<1>6. x = [n \in 0 .. N |-> IF n = 0 THEN f ELSE ApplyChange(x[n - 1], cs[n])]
  <2>1. \A n \in 0 .. N : x[n] = IF n = 0 THEN f ELSE ApplyChange(x[n - 1], cs[n])
    BY <1>1, <1>5
  <2> QED BY <1>5, <2>1
<1> DEFINE W == CHOOSE w : w = [n \in 0 .. N |->
                                  IF n = 0 THEN f ELSE ApplyChange(w[n - 1], cs[n])]
<1>7. W = [n \in 0 .. N |-> IF n = 0 THEN f ELSE ApplyChange(W[n - 1], cs[n])]
  BY ZenonT(30), <1>6
<1>8. ApplyChanges(f, cs) = W[N]
  BY DEF ApplyChanges, N
<1> HIDE DEF W
<1>9. /\ W[0] = f /\ \A n \in 1 .. N : W[n] = ApplyChange(W[n - 1], cs[n])
  BY <1>1, <1>7
<1>10. W \in [0 .. N -> Maps]
  <2> DEFINE Good == {m \in 0 .. N : W[m] \in Maps}
  <2>1. 0 \in Good
    BY <1>1, <1>9
  <2>2. ASSUME NEW m \in 0 .. N - 1, m \in Good PROVE m + 1 \in Good
    <3>1. m + 1 \in 1 .. N /\ (m + 1) - 1 = m /\ m + 1 \in 0 .. N
      BY <1>1
    <3>2. W[m] \in Maps
      BY <2>2
    <3>3. W[m + 1] \in Maps
      BY <1>2, <1>9, <3>1, <3>2
    <3> QED BY <3>1, <3>3
  <2> HIDE DEF Good
  <2>3. \A m \in 0 .. N : m \in Good
    BY <1>1, <2>1, <2>2, InductionTo
  <2>4. \A m \in 0 .. N : W[m] \in Maps
    BY <2>3 DEF Good
  <2> QED BY <1>7, <2>4
<1> QED BY <1>8, <1>9, <1>10 DEF N

\* apply_changes does what the changes say.
LEMMA ApplyEffect ==
    ASSUME NEW f \in Maps, NEW cs \in Changes, Valued(cs)
    PROVE  ApplyChanges(f, cs) \in Maps /\ Effect(cs, f, ApplyChanges(f, cs))
<1> DEFINE N == Len(cs)
<1>1. N \in Nat /\ DOMAIN cs = 1 .. N /\ \A n \in 1 .. N : cs[n] \in Change(SeqRange)
  BY DEF Changes
<1>2. PICK w \in [0 .. N -> Maps] :
          /\ w[0] = f /\ ApplyChanges(f, cs) = w[N]
          /\ \A n \in 1 .. N : w[n] = ApplyChange(w[n - 1], cs[n])
  BY ApplyLoop
<1> DEFINE Good == {n \in 0 .. N : Effect(SubSeq(cs, 1, n), f, w[n])}
<1>3. 0 \in Good
  <2>1. SubSeq(cs, 1, 0) = <<>> /\ 0 \in 0 .. N
    BY <1>1
  <2>2. Effect(<<>>, f, f)
    BY DEF Effect, Settles, Same, Untouched
  <2> QED BY <1>2, <2>1, <2>2
<1>4. ASSUME NEW n \in 0 .. N - 1, n \in Good PROVE n + 1 \in Good
  <2>1. /\ n + 1 \in 1 .. N /\ n + 1 \in 0 .. N /\ n \in 0 .. N /\ (n + 1) - 1 = n
    BY <1>1
  <2>2. /\ SubSeq(cs, 1, n) \in Changes
        /\ SubSeq(cs, 1, n + 1) = Append(SubSeq(cs, 1, n), cs[n + 1])
    BY <1>1, <2>1 DEF Changes
  <2>3. cs[n + 1] \in Change(SeqRange)
        /\ (cs[n + 1].op = "remove" \/ cs[n + 1].value \in Values)
    BY <1>1, <2>1 DEF Valued
  <2>4. Effect(SubSeq(cs, 1, n), f, w[n]) /\ w[n] \in Maps
    BY <1>4, <2>1
  <2>5. Effect(Append(SubSeq(cs, 1, n), cs[n + 1]), f, ApplyChange(w[n], cs[n + 1]))
    <3>1. cs[n + 1].value \in {cs[n + 1].value, None}
      OBVIOUS
    <3> QED BY ONLY <2>2, <2>3, <2>4, <3>1, EffectAppend
  <2>6. w[n + 1] = ApplyChange(w[n], cs[n + 1])
    BY <1>2, <2>1
  <2> QED BY <2>1, <2>2, <2>5, <2>6
<1> HIDE DEF Good
<1>5. N \in Good
  <2>1. \A m \in 0 .. N : m \in Good
    BY <1>1, <1>3, <1>4, InductionTo
  <2>2. N \in 0 .. N
    BY <1>1
  <2> QED BY <2>1, <2>2
<1>6. SubSeq(cs, 1, N) = cs /\ N \in 0 .. N
  BY <1>1 DEF Changes
<1>7. Effect(cs, f, w[N])
  BY <1>5, <1>6 DEF Good
<1> QED BY <1>2, <1>6, <1>7

\* A list in which every live change has its value determines its effect.
LEMMA EffectDetermines ==
    ASSUME NEW f, NEW g \in Maps, NEW h \in Maps, NEW cs \in Changes, Valued(cs),
           Effect(cs, f, g), Effect(cs, f, h)
    PROVE  g = h
<1> SUFFICES ASSUME NEW k \in Keys PROVE Same(g, h, k)
  BY SameMaps
<1>1. CASE Untouched(cs, k)
  BY <1>1 DEF Effect, Same
<1>2. CASE ~Untouched(cs, k)
  <2> DEFINE N == Len(cs)
             T == {N - i : i \in {j \in 1 .. N : cs[j].key = k}}
  <2>1. N \in Nat /\ DOMAIN cs = 1 .. N
    BY DEF Changes
  <2> HIDE DEF N
  <2>2. T \in SUBSET Nat /\ T # {}
    BY <1>2, <2>1 DEF Untouched
  <2>3. PICK t \in T : \A u \in T : t <= u
    BY <2>2, LeastOf
  <2>4. PICK i \in 1 .. N : cs[i].key = k /\ t = N - i
    OBVIOUS
  <2>5. \A j \in 1 .. N : cs[j].key = k => ~(j > i)
    <3> SUFFICES ASSUME NEW j \in 1 .. N, cs[j].key = k PROVE ~(j > i)
      OBVIOUS
    <3>1. N - j \in T
      OBVIOUS
    <3>2. t <= N - j
      BY <2>3, <3>1
    <3> QED BY ONLY <2>1, <2>4, <3>2
  <2>6. Final(cs, i)
    BY <2>1, <2>4, <2>5 DEF Final
  <2>7. Wrote(cs[i], g) /\ Wrote(cs[i], h)
    BY <2>1, <2>6 DEF Effect, Settles
  <2>8. cs[i].op # "remove" => cs[i].value # None
    BY <2>1, ContainerAssumption DEF Valued
  <2> QED BY <2>4, <2>7, <2>8 DEF Wrote, Same
<1> QED BY <1>1, <1>2

-----------------------------------------------------------------------------
(* The changes of the journal after a baseline.                            *)

\* The set of which C[i] is the last word on its key.
LastWord(C, J, b, n, i, j) ==
    /\ IsNewer(J[j], b)
    /\ \E p \in DOMAIN J[j].changes : C[i] = J[j].changes[p] /\ Final(J[j].changes, p)
    /\ \A l \in j + 1 .. n : IsNewer(J[l], b) => Untouched(J[l].changes, C[i].key)

\* The last set that is not empty.
LastSet(C, J, b, n, j) ==
    /\ IsNewer(J[j], b) /\ J[j].changes # <<>>
    /\ C[Len(C)] = J[j].changes[Len(J[j].changes)]
    /\ \A l \in j + 1 .. n : IsNewer(J[l], b) => J[l].changes = <<>>

\* C are the changes after b in the first n sets of J, in order.
Gathered(C, J, b, n) ==
    /\ C \in Changes
    /\ \A i \in DOMAIN C : \E j \in 1 .. n :
          IsNewer(J[j], b) /\ \E p \in DOMAIN J[j].changes : C[i] = J[j].changes[p]
    /\ \A i \in DOMAIN C : Final(C, i) => \E j \in 1 .. n : LastWord(C, J, b, n, i, j)
    /\ \A j \in 1 .. n : IsNewer(J[j], b) =>
          \A p \in DOMAIN J[j].changes : ~Untouched(C, J[j].changes[p].key)
    /\ C # <<>> => \E j \in 1 .. n : LastSet(C, J, b, n, j)

LEMMA ConcatFacts ==
    ASSUME NEW C \in Changes, NEW D \in Changes
    PROVE  /\ C \o D \in Changes /\ Len(C) \in Nat /\ Len(D) \in Nat
           /\ DOMAIN C = 1 .. Len(C) /\ DOMAIN D = 1 .. Len(D)
           /\ DOMAIN (C \o D) = 1 .. Len(C) + Len(D) /\ Len(C \o D) = Len(C) + Len(D)
           /\ \A i \in 1 .. Len(C) : (C \o D)[i] = C[i]
           /\ \A i \in 1 .. Len(D) : (C \o D)[Len(C) + i] = D[i]
BY DEF Changes

LEMMA SetsOf ==
    ASSUME NEW J \in Seq(Sets)
    PROVE  /\ Len(J) \in Nat /\ DOMAIN J = 1 .. Len(J)
           /\ \A n \in 1 .. Len(J) : /\ J[n] \in Sets /\ J[n].changes \in Changes
                                     /\ J[n].sequence \in 1 .. MaxSeq
<1>1. /\ Len(J) \in Nat /\ DOMAIN J = 1 .. Len(J)
      /\ \A n \in 1 .. Len(J) : J[n] \in Sets
  OBVIOUS
<1>2. \A s \in Sets : s.changes \in Changes /\ s.sequence \in 1 .. MaxSeq
  BY DEF Sets
<1> QED BY <1>1, <1>2

LEMMA GatherNewer ==
    ASSUME NEW J \in Seq(Sets), NEW b, NEW n \in Nat, n + 1 \in 1 .. Len(J),
           NEW C, Gathered(C, J, b, n), IsNewer(J[n + 1], b)
    PROVE  Gathered(C \o J[n + 1].changes, J, b, n + 1)
<1> DEFINE D == J[n + 1].changes
           E == C \o D
           c == Len(C)
           d == Len(D)
<1>1. C \in Changes /\ D \in Changes
  BY SetsOf DEF Gathered
<1>2. /\ E \in Changes /\ c \in Nat /\ d \in Nat /\ DOMAIN C = 1 .. c /\ DOMAIN D = 1 .. d
      /\ DOMAIN E = 1 .. c + d /\ Len(E) = c + d
      /\ \A i \in 1 .. c : E[i] = C[i]
      /\ \A i \in 1 .. d : E[c + i] = D[i]
  BY <1>1, ConcatFacts
<1> HIDE DEF D, E, c, d
<1>3. \A i \in 1 .. c + d : i \in 1 .. c \/ (i - c \in 1 .. d /\ c + (i - c) = i /\ i > c)
  BY <1>2
<1>4. /\ \A i \in 1 .. c : i \in 1 .. c + d
      /\ \A i \in 1 .. d : c + i \in 1 .. c + d /\ c + i > c
      /\ n + 1 \in 1 .. n + 1 /\ \A j \in 1 .. n : j \in 1 .. n + 1
  BY <1>2
<1>5. ASSUME NEW i \in DOMAIN E
      PROVE  \E j \in 1 .. n + 1 :
                IsNewer(J[j], b) /\ \E p \in DOMAIN J[j].changes : E[i] = J[j].changes[p]
  <2>1. CASE i \in 1 .. c
    <3>1. PICK j \in 1 .. n :
             IsNewer(J[j], b) /\ \E p \in DOMAIN J[j].changes : C[i] = J[j].changes[p]
      BY <1>2, <2>1 DEF Gathered
    <3>2. j \in 1 .. n + 1 /\ E[i] = C[i]
      BY <1>2, <1>4, <2>1
    <3> QED BY <3>1, <3>2
  <2>2. CASE i - c \in 1 .. d /\ c + (i - c) = i
    BY <1>2, <1>4, <2>2 DEF D
  <2> QED BY <1>2, <1>3, <2>1, <2>2
<1>6. ASSUME NEW i \in DOMAIN E, Final(E, i)
      PROVE  \E j \in 1 .. n + 1 : LastWord(E, J, b, n + 1, i, j)
  <2>1. CASE i \in 1 .. c
    <3>1. Final(C, i)
      BY <1>2, <1>4, <1>6, <2>1 DEF Final
    <3>2. PICK j \in 1 .. n : LastWord(C, J, b, n, i, j)
      BY <1>2, <2>1, <3>1 DEF Gathered
    <3>3. Untouched(D, E[i].key)
      <4> SUFFICES ASSUME NEW q \in 1 .. d PROVE D[q].key # E[i].key
        BY <1>2 DEF Untouched
      <4>1. c + q \in 1 .. c + d /\ c + q > i
        BY <1>2, <1>4, <2>1
      <4> QED BY <1>2, <1>6, <4>1 DEF Final
    <3>4. ASSUME NEW l \in j + 1 .. n + 1, IsNewer(J[l], b)
          PROVE  Untouched(J[l].changes, E[i].key)
      <4>1. l = n + 1 \/ l \in j + 1 .. n
        OBVIOUS
      <4> QED BY <1>2, <2>1, <3>2, <3>3, <3>4, <4>1 DEF LastWord, D
    <3>5. LastWord(E, J, b, n + 1, i, j)
      BY <1>2, <2>1, <3>2, <3>4 DEF LastWord
    <3> QED BY <1>4, <3>5
  <2>2. CASE i - c \in 1 .. d /\ c + (i - c) = i
    <3> DEFINE p == i - c
    <3>1. Final(D, p)
      <4> SUFFICES ASSUME NEW q \in 1 .. d, q > p PROVE D[q].key # D[p].key
        BY <1>2 DEF Final
      <4>1. c + q \in 1 .. c + d /\ c + q > i
        BY <1>2, <1>4, <2>2
      <4> QED BY <1>2, <1>6, <2>2, <4>1 DEF Final
    <3>2. E[i] = D[p] /\ p \in DOMAIN D
      BY <1>2, <2>2
    <3> HIDE DEF p
    <3>3. \A l \in (n + 1) + 1 .. n + 1 : FALSE
      OBVIOUS
    <3>4. LastWord(E, J, b, n + 1, i, n + 1)
      BY <3>1, <3>2, <3>3 DEF LastWord, D
    <3> QED BY <1>4, <3>4
  <2> QED BY <1>2, <1>3, <2>1, <2>2
<1>7. ASSUME NEW j \in 1 .. n + 1, IsNewer(J[j], b), NEW p \in DOMAIN J[j].changes
      PROVE  ~Untouched(E, J[j].changes[p].key)
  <2>1. CASE j = n + 1
    <3>1. p \in 1 .. d /\ J[j].changes[p] = D[p]
      BY <1>2, <2>1 DEF D
    <3>2. c + p \in DOMAIN E /\ E[c + p] = D[p]
      BY <1>2, <1>4, <3>1
    <3> QED BY <3>1, <3>2 DEF Untouched
  <2>2. CASE j \in 1 .. n
    <3>1. ~Untouched(C, J[j].changes[p].key)
      BY <1>7, <2>2 DEF Gathered
    <3> QED BY <1>2, <1>4, <3>1 DEF Untouched
  <2> QED BY <2>1, <2>2
<1>8. ASSUME E # <<>>
      PROVE  \E j \in 1 .. n + 1 : LastSet(E, J, b, n + 1, j)
  <2>1. CASE D = <<>>
    <3>1. d = 0
      BY <2>1 DEF d
    <3>2. c # 0
      BY <1>2, <1>8, <3>1 DEF Changes
    <3>3. C # <<>>
      BY <1>1, <3>2 DEF c
    <3>4. PICK j \in 1 .. n : LastSet(C, J, b, n, j)
      BY <3>3 DEF Gathered
    <3>5. E[Len(E)] = C[Len(C)]
      <4>1. c \in 1 .. c /\ c + d = c
        BY <1>2, <3>1, <3>2
      <4>2. E[c] = C[c] /\ Len(E) = c
        BY <1>2, <4>1
      <4> QED BY <4>2 DEF c
    <3>6. ASSUME NEW l \in j + 1 .. n + 1, IsNewer(J[l], b) PROVE J[l].changes = <<>>
      <4>1. l = n + 1 \/ l \in j + 1 .. n
        OBVIOUS
      <4> QED BY <2>1, <3>4, <3>6, <4>1 DEF LastSet, D
    <3>7. LastSet(E, J, b, n + 1, j)
      BY <3>4, <3>5, <3>6 DEF LastSet
    <3> QED BY <1>4, <3>7
  <2>2. CASE D # <<>>
    <3>1. d \in 1 .. d
      BY <1>1, <1>2, <2>2 DEF Changes, d
    <3>2. E[Len(E)] = D[d]
      BY <1>2, <3>1
    <3>3. \A l \in (n + 1) + 1 .. n + 1 : FALSE
      OBVIOUS
    <3>4. LastSet(E, J, b, n + 1, n + 1)
      BY <2>2, <3>2, <3>3 DEF LastSet, D, d
    <3> QED BY <1>4, <3>4
  <2> QED BY <2>1, <2>2
<1>9. Gathered(E, J, b, n + 1)
  BY <1>2, <1>5, <1>6, <1>7, <1>8 DEF Gathered
<1> QED BY <1>9 DEF E, D

LEMMA GatherOlder ==
    ASSUME NEW J \in Seq(Sets), NEW b, NEW n \in Nat,
           NEW C, Gathered(C, J, b, n), ~IsNewer(J[n + 1], b)
    PROVE  Gathered(C, J, b, n + 1)
<1>1. \A j \in 1 .. n + 1 : j = n + 1 \/ j \in 1 .. n
  OBVIOUS
<1>2. \A j \in 1 .. n : j \in 1 .. n + 1 /\ \A l \in j + 1 .. n + 1 : l = n + 1 \/ l \in j + 1 .. n
  OBVIOUS
<1>3. \A i : \A j \in 1 .. n : LastWord(C, J, b, n, i, j) => LastWord(C, J, b, n + 1, i, j)
  BY <1>2 DEF LastWord
<1>4. \A j \in 1 .. n : LastSet(C, J, b, n, j) => LastSet(C, J, b, n + 1, j)
  BY <1>2 DEF LastSet
<1>5. C \in Changes
  BY DEF Gathered
<1>6. ASSUME NEW i \in DOMAIN C
      PROVE  \E j \in 1 .. n + 1 :
                IsNewer(J[j], b) /\ \E p \in DOMAIN J[j].changes : C[i] = J[j].changes[p]
  BY <1>2 DEF Gathered
<1>7. ASSUME NEW i \in DOMAIN C, Final(C, i)
      PROVE  \E j \in 1 .. n + 1 : LastWord(C, J, b, n + 1, i, j)
  <2>1. PICK j \in 1 .. n : LastWord(C, J, b, n, i, j)
    BY <1>7 DEF Gathered
  <2> QED BY <1>2, <1>3, <2>1
<1>8. ASSUME NEW j \in 1 .. n + 1, IsNewer(J[j], b)
      PROVE  \A p \in DOMAIN J[j].changes : ~Untouched(C, J[j].changes[p].key)
  BY <1>1, <1>8 DEF Gathered
<1>9. C # <<>> => \E j \in 1 .. n + 1 : LastSet(C, J, b, n + 1, j)
  BY <1>2, <1>4 DEF Gathered
<1> QED BY <1>5, <1>6, <1>7, <1>8, <1>9 DEF Gathered

LEMMA NewerGathered ==
    ASSUME NEW J \in Seq(Sets), NEW b
    PROVE  Gathered(Newer(J, b), J, b, Len(J))
<1> DEFINE N == Len(J)
           Turn(n, C) == IF IsNewer(J[n], b) THEN C \o J[n].changes ELSE C
           G == [p \in (1 .. N) \X Changes |-> Turn(p[1], p[2])]
<1>1. N \in Nat /\ \A n \in 1 .. N : J[n].changes \in Changes
  BY SetsOf
<1>2. \A n \in 1 .. N : \A C \in Changes : Turn(n, C) \in Changes
  BY <1>1, ConcatFacts
<1>3. <<>> \in Changes
  BY DEF Changes
<1> HIDE DEF N, Turn
<1>4. G \in [(1 .. N) \X Changes -> Changes]
      /\ \A n \in 1 .. N : \A C \in Changes : G[<<n, C>>] = Turn(n, C)
  BY <1>2
<1> HIDE DEF G
<1>5. PICK x : IsRun(x, N, Changes, G, <<>>)
  BY <1>1, <1>3, <1>4, RunExists
<1>6. /\ x \in [0 .. N -> Changes] /\ x[0] = <<>>
      /\ \A n \in 1 .. N : x[n] = Turn(n, x[n - 1])
  <2>1. /\ x \in [0 .. N -> Changes] /\ x[0] = <<>>
        /\ \A n \in 1 .. N : x[n] = G[<<n, x[n - 1]>>]
    BY <1>5 DEF IsRun
  <2>2. \A n \in 1 .. N : x[n - 1] \in Changes
    BY <1>1, <2>1
  <2> QED BY <1>4, <2>1, <2>2
<1>7. x = [n \in 0 .. N |-> IF n = 0 THEN <<>> ELSE Turn(n, x[n - 1])]
  <2>1. \A n \in 0 .. N : x[n] = IF n = 0 THEN <<>> ELSE Turn(n, x[n - 1])
    BY <1>1, <1>6
  <2> QED BY <1>6, <2>1
<1> DEFINE W == CHOOSE w : w = [n \in 0 .. N |-> IF n = 0 THEN <<>> ELSE Turn(n, w[n - 1])]
<1>8. W = [n \in 0 .. N |-> IF n = 0 THEN <<>> ELSE Turn(n, W[n - 1])]
  BY ZenonT(30), <1>7
<1>9. Newer(J, b) = W[N]
  BY DEF Newer, N, Turn
<1> HIDE DEF W
<1>10. W[0] = <<>> /\ \A n \in 1 .. N : W[n] = Turn(n, W[n - 1])
  BY <1>1, <1>8
<1> DEFINE Good == {m \in 0 .. N : Gathered(W[m], J, b, m)}
<1>11. 0 \in Good
  <2>1. 0 \in 0 .. N
    BY <1>1
  <2>2. DOMAIN <<>> = {} /\ 1 .. 0 = {}
    OBVIOUS
  <2>3. Gathered(<<>>, J, b, 0)
    BY <1>3, <2>2 DEF Gathered
  <2> QED BY <1>10, <2>1, <2>3
<1>12. ASSUME NEW m \in 0 .. N - 1, m \in Good PROVE m + 1 \in Good
  <2>1. m + 1 \in 1 .. N /\ (m + 1) - 1 = m /\ m + 1 \in 0 .. N /\ m \in Nat
    BY <1>1
  <2>2. Gathered(W[m], J, b, m) /\ W[m + 1] = Turn(m + 1, W[m])
    BY <1>10, <1>12, <2>1
  <2>3. CASE IsNewer(J[m + 1], b)
    <3>1. Gathered(W[m] \o J[m + 1].changes, J, b, m + 1)
      BY <2>1, <2>2, <2>3, GatherNewer DEF N
    <3> QED BY <2>1, <2>2, <2>3, <3>1 DEF Turn
  <2>4. CASE ~IsNewer(J[m + 1], b)
    <3>1. Gathered(W[m], J, b, m + 1)
      BY <2>1, <2>2, <2>4, GatherOlder
    <3> QED BY <2>1, <2>2, <2>4, <3>1 DEF Turn
  <2> QED BY <2>3, <2>4
<1> HIDE DEF Good
<1>13. N \in Good
  <2>1. \A m \in 0 .. N : m \in Good
    BY <1>1, <1>11, <1>12, InductionTo
  <2> QED BY <1>1, <2>1
<1> QED BY <1>9, <1>13 DEF Good, N

-----------------------------------------------------------------------------
(* The history of the values.                                              *)

\* What no merge from a to b touches is the same all the time.
LEMMA Carried ==
    ASSUME NEW com, NEW a \in Int, NEW b \in Int, NEW k,
           \A s \in a + 1 .. b : Same(com[s - 1], com[s], k)
    PROVE  \A x \in a .. b : Same(com[x], com[b], k)
<1> SUFFICES ASSUME NEW x \in a .. b PROVE Same(com[x], com[b], k)
  OBVIOUS
<1> DEFINE D == b - a
           Good == {d \in 0 .. D : Same(com[b - d], com[b], k)}
<1>1. D \in Nat
  OBVIOUS
<1>2. 0 \in Good
  <2>1. b - 0 = b /\ 0 \in 0 .. D
    BY <1>1
  <2> QED BY <2>1 DEF Same
<1>3. ASSUME NEW d \in 0 .. D - 1, d \in Good PROVE d + 1 \in Good
  <2>1. /\ d + 1 \in 0 .. D /\ b - d \in a + 1 .. b /\ (b - d) - 1 = b - (d + 1)
    BY <1>1
  <2>2. Same(com[b - (d + 1)], com[b - d], k)
    BY <2>1
  <2>3. Same(com[b - d], com[b], k)
    BY <1>3
  <2>4. Same(com[b - (d + 1)], com[b], k)
    BY <2>2, <2>3 DEF Same
  <2> QED BY <2>1, <2>4
<1>4. \A d \in 0 .. D : d \in Good
  <2> HIDE DEF Good, D
  <2> QED BY <1>1, <1>2, <1>3, InductionTo
<1>5. b - x \in 0 .. D /\ b - (b - x) = x
  OBVIOUS
<1> QED BY <1>4, <1>5

LEMMA Standing ==
    ASSUME NEW n \in Nat, NEW com \in [0 .. n -> Maps], NEW a \in 0 .. n,
           \A s \in a + 1 .. n : com[s] = com[s - 1]
    PROVE  Steady(com, a, n)
<1> SUFFICES ASSUME NEW x \in a .. n PROVE com[x] = com[n]
  BY DEF Steady
<1>1. com[x] \in Maps /\ com[n] \in Maps
  OBVIOUS
<1> SUFFICES ASSUME NEW k \in Keys PROVE Same(com[x], com[n], k)
  BY <1>1, SameMaps
<1>2. \A s \in a + 1 .. n : Same(com[s - 1], com[s], k)
  BY DEF Same
<1>3. a \in Int /\ n \in Int
  OBVIOUS
<1>4. \A y \in a .. n : Same(com[y], com[n], k)
  BY ONLY <1>2, <1>3, Carried
<1> QED BY <1>4

\* The sets of a journal are in order of their sequence numbers.
LEMMA LaterSet ==
    ASSUME NEW J \in Seq(Sets), NEW com, NEW n, JournalOK(J, com, n),
           NEW j \in 1 .. Len(J), NEW l \in 1 .. Len(J), J[j].sequence < J[l].sequence
    PROVE  l \in j + 1 .. Len(J)
<1>1. /\ Len(J) \in Nat /\ DOMAIN J = 1 .. Len(J)
      /\ J[j].sequence \in Int /\ J[l].sequence \in Int
  BY SetsOf
<1>2. l < j => J[l].sequence < J[j].sequence
  BY <1>1 DEF JournalOK
<1>3. ~(l < j) /\ l # j
  BY <1>1, <1>2
<1> QED BY <1>1, <1>3

\* What the sets newer than b say last of a key is true now.
LEMMA JournalSettles ==
    ASSUME NEW n \in Nat, NEW com \in [0 .. n -> Maps], NEW J \in Seq(Sets),
           JournalOK(J, com, n), NEW b \in Int
    PROVE  Settles(Newer(J, b), com[n])
<1> DEFINE C == Newer(J, b)
           N == Len(J)
<1>1. Gathered(C, J, b, N)
  BY NewerGathered
<1>2. /\ N \in Nat /\ DOMAIN J = 1 .. N
      /\ \A j \in 1 .. N : /\ J[j] \in Sets /\ J[j].changes \in Changes
                           /\ J[j].sequence \in Nat \ {0}
  BY SetsOf
<1>3. \A j \in 1 .. N : SetOK(J, com, n, j)
  BY <1>2 DEF JournalOK
<1> HIDE DEF C
<1> SUFFICES ASSUME NEW i \in DOMAIN C, Final(C, i) PROVE Wrote(C[i], com[n])
  BY DEF Settles, C
<1>4. PICK j \in 1 .. N : LastWord(C, J, b, N, i, j)
  BY <1>1 DEF Gathered
<1> DEFINE s == J[j].sequence
           k == C[i].key
<1>5. s \in 1 .. n /\ b < s
  BY <1>2, <1>3, <1>4 DEF SetOK, LastWord, IsNewer
<1>6. Wrote(C[i], com[s])
  <2>1. PICK p \in DOMAIN J[j].changes : C[i] = J[j].changes[p] /\ Final(J[j].changes, p)
    BY <1>4 DEF LastWord
  <2>2. J[j].changes # <<>>
    BY <2>1
  <2>3. Effect(J[j].changes, com[s - 1], com[s])
    BY <1>3, <2>2 DEF SetOK
  <2> QED BY <2>1, <2>3 DEF Effect, Settles
<1>7. k \in Keys
  <2>1. C \in Changes
    BY <1>1 DEF Gathered
  <2>2. C[i] \in Change(SeqRange)
    BY <2>1 DEF Changes
  <2> QED BY <2>2 DEF Change
<1>8. ASSUME NEW t \in s + 1 .. n PROVE Same(com[t - 1], com[t], k)
  <2>1. CASE com[t] = com[t - 1]
    BY <2>1 DEF Same
  <2>2. CASE com[t] # com[t - 1]
    <3>1. PICK l \in 1 .. N : J[l].sequence = t /\ J[l].changes # <<>>
      BY <1>2, <1>3, <2>2 DEF SetOK, Complete
    <3>2. l \in j + 1 .. N
      <4>1. J[j].sequence < J[l].sequence
        BY <1>5, <3>1
      <4> QED BY <4>1, LaterSet
    <3>3. IsNewer(J[l], b)
      BY <1>5, <3>1 DEF IsNewer
    <3>4. Untouched(J[l].changes, k)
      BY <1>4, <3>2, <3>3 DEF LastWord
    <3>5. Effect(J[l].changes, com[t - 1], com[t])
      BY <1>3, <3>1 DEF SetOK
    <3> QED BY <1>7, <3>4, <3>5 DEF Effect
  <2> QED BY <2>1, <2>2
<1>9. Same(com[s], com[n], k)
  <2>1. s \in Int /\ n \in Int /\ s \in s .. n
    BY <1>5
  <2>2. \A t \in s + 1 .. n : Same(com[t - 1], com[t], k)
    BY <1>8
  <2> HIDE DEF s, k
  <2>3. \A x \in s .. n : Same(com[x], com[n], k)
    BY ONLY <2>1, <2>2, Carried
  <2> QED BY <2>1, <2>3
<1> QED BY <1>6, <1>9 DEF Wrote, Same

\* If no merge after b is missing, the newer changes lead from any state since b
\* to that of now.
LEMMA JournalLeads ==
    ASSUME NEW n \in Nat, NEW com \in [0 .. n -> Maps], NEW J \in Seq(Sets),
           JournalOK(J, com, n), NEW b \in 0 .. n, Complete(J, com, b, n)
    PROVE  \A y \in b .. n : Effect(Newer(J, b), com[y], com[n])
<1> DEFINE C == Newer(J, b)
           N == Len(J)
<1>1. Gathered(C, J, b, N)
  BY NewerGathered
<1>2. N \in Nat /\ DOMAIN J = 1 .. N
  BY SetsOf
<1>3. \A j \in 1 .. N : SetOK(J, com, n, j)
  BY <1>2 DEF JournalOK
<1>4. Settles(C, com[n])
  BY JournalSettles
<1> HIDE DEF C
<1> SUFFICES ASSUME NEW y \in b .. n, NEW k \in Keys, Untouched(C, k)
             PROVE  Same(com[y], com[n], k)
  BY <1>4 DEF Effect, C
<1>5. ASSUME NEW t \in b + 1 .. n PROVE Same(com[t - 1], com[t], k)
  <2>1. CASE com[t] = com[t - 1]
    BY <2>1 DEF Same
  <2>2. CASE com[t] # com[t - 1]
    <3>1. PICK l \in 1 .. N : J[l].sequence = t /\ J[l].changes # <<>>
      BY <1>2, <2>2 DEF Complete
    <3>2. IsNewer(J[l], b)
      BY <3>1 DEF IsNewer
    <3>3. Untouched(J[l].changes, k)
      <4> SUFFICES ASSUME NEW p \in DOMAIN J[l].changes, J[l].changes[p].key = k
                   PROVE  FALSE
        BY DEF Untouched
      <4>1. ~Untouched(C, J[l].changes[p].key)
        BY <1>1, <3>2 DEF Gathered
      <4> QED BY <4>1
    <3>4. Effect(J[l].changes, com[t - 1], com[t])
      BY <1>3, <3>1 DEF SetOK
    <3> QED BY <3>3, <3>4 DEF Effect
  <2> QED BY <2>1, <2>2
<1>6. b \in Int /\ n \in Int /\ \A t \in b + 1 .. n : Same(com[t - 1], com[t], k)
  BY <1>5
<1>7. \A x \in b .. n : Same(com[x], com[n], k)
  BY ONLY <1>6, Carried
<1> QED BY <1>7

\* Nothing changed after the last stamp of the newer changes.
LEMMA JournalLast ==
    ASSUME NEW n \in Nat, NEW com \in [0 .. n -> Maps], NEW J \in Seq(Sets),
           JournalOK(J, com, n), NEW b \in Int, Newer(J, b) # <<>>
    PROVE  LET last == Newer(J, b)[Len(Newer(J, b))].sequence
           IN  \/ last = Invalid
               \/ last \in 1 .. n /\ Steady(com, last, n)
<1> DEFINE C == Newer(J, b)
           N == Len(J)
           last == C[Len(C)].sequence
<1>1. Gathered(C, J, b, N)
  BY NewerGathered
<1>2. /\ N \in Nat /\ DOMAIN J = 1 .. N
      /\ \A j \in 1 .. N : /\ J[j] \in Sets /\ J[j].changes \in Changes
                           /\ J[j].sequence \in Nat \ {0}
  BY SetsOf
<1>3. \A j \in 1 .. N : SetOK(J, com, n, j)
  BY <1>2 DEF JournalOK
<1> HIDE DEF C
<1>4. PICK j \in 1 .. N : LastSet(C, J, b, N, j)
  BY <1>1 DEF Gathered, C
<1> DEFINE s == J[j].sequence
<1>5. s \in 1 .. n /\ b < s
  <2>1. s \in Nat \ {0}
    BY <1>2
  <2>2. s <= n
    BY <1>3 DEF SetOK
  <2>3. b < s
    BY <1>4 DEF LastSet, IsNewer
  <2> HIDE DEF s
  <2> QED BY <2>1, <2>2, <2>3
<1>6. last \in {Invalid, s}
  <2>1. J[j].changes \in Changes /\ J[j].changes # <<>>
    BY <1>2, <1>4 DEF LastSet
  <2>2. Len(J[j].changes) \in DOMAIN J[j].changes
    BY <2>1 DEF Changes
  <2> QED BY <1>3, <1>4, <2>2 DEF SetOK, LastSet
<1>7. ASSUME NEW t \in s + 1 .. n PROVE com[t] = com[t - 1]
  <2> SUFFICES ASSUME com[t] # com[t - 1] PROVE FALSE
    OBVIOUS
  <2>1. PICK l \in 1 .. N : J[l].sequence = t /\ J[l].changes # <<>>
    BY <1>2, <1>3, <1>7 DEF SetOK, Complete
  <2>2. l \in j + 1 .. N
    <3>1. J[j].sequence < J[l].sequence
      BY <1>5, <2>1
    <3> QED BY <3>1, LaterSet
  <2>3. IsNewer(J[l], b)
    BY <1>5, <2>1 DEF IsNewer
  <2> QED BY <1>4, <2>1, <2>2, <2>3 DEF LastSet
<1>8. Steady(com, s, n)
  <2>1. s \in 0 .. n /\ \A t \in s + 1 .. n : com[t] = com[t - 1]
    BY <1>5, <1>7
  <2> QED BY <2>1, Standing
<1> QED BY <1>5, <1>6, <1>8 DEF C

-----------------------------------------------------------------------------
(* push_journal.                                                           *)

LEMMA PushFacts ==
    ASSUME NEW J \in Seq(Sets), NEW set \in Sets, Len(J) <= JournalSize
    PROVE  /\ PushJournal(J, set) \in Seq(Sets) /\ Len(PushJournal(J, set)) <= JournalSize
           /\ \E d \in {0, 1} :
                /\ d <= Len(J) /\ Len(PushJournal(J, set)) = Len(J) - d + 1
                /\ \A i \in 1 .. Len(J) - d : PushJournal(J, set)[i] = J[i + d]
                /\ PushJournal(J, set)[Len(J) - d + 1] = set
<1>1. JournalSize \in Nat \ {0} /\ Len(J) \in Nat
  BY ContainerAssumption
<1>2. CASE Len(J) = JournalSize
  <2> DEFINE K == Tail(J)
  <2>1. /\ K \in Seq(Sets) /\ Len(K) = Len(J) - 1 /\ 1 <= Len(J)
        /\ \A i \in 1 .. Len(J) - 1 : K[i] = J[i + 1]
    BY <1>1, <1>2
  <2>2. PushJournal(J, set) = Append(K, set)
    BY <1>2 DEF PushJournal
  <2> HIDE DEF K
  <2>3. /\ Append(K, set) \in Seq(Sets) /\ Len(Append(K, set)) = Len(J) - 1 + 1
        /\ \A i \in 1 .. Len(J) - 1 : Append(K, set)[i] = K[i]
        /\ Append(K, set)[Len(J) - 1 + 1] = set
    BY <1>1, <2>1
  <2> QED BY <1>1, <1>2, <2>1, <2>2, <2>3
<1>3. CASE Len(J) # JournalSize
  <2>1. PushJournal(J, set) = Append(J, set)
    BY <1>3 DEF PushJournal
  <2>2. /\ Append(J, set) \in Seq(Sets) /\ Len(Append(J, set)) = Len(J) + 1
        /\ \A i \in 1 .. Len(J) : Append(J, set)[i] = J[i]
        /\ Append(J, set)[Len(J) + 1] = set
    OBVIOUS
  <2> QED BY <1>1, <1>3, <2>1, <2>2
<1> QED BY <1>2, <1>3

\* A merge that changes nothing leaves the journal right.
LEMMA JournalStays ==
    ASSUME NEW n \in Nat, NEW com, NEW com2, \A x \in 0 .. n : com2[x] = com[x],
           com2[n + 1] = com[n], NEW J \in Seq(Sets), JournalOK(J, com, n)
    PROVE  JournalOK(J, com2, n + 1)
<1>1. /\ Len(J) \in Nat /\ DOMAIN J = 1 .. Len(J)
      /\ \A i \in 1 .. Len(J) : J[i].sequence \in Nat \ {0}
  BY SetsOf
<1>2. ASSUME NEW i \in DOMAIN J PROVE SetOK(J, com2, n + 1, i)
  <2> DEFINE s == J[i].sequence
  <2>1. SetOK(J, com, n, i)
    BY DEF JournalOK
  <2>2. s \in 1 .. n /\ s - 1 \in 0 .. n /\ s \in 0 .. n
    BY <1>1, <2>1 DEF SetOK
  <2>3. com2[s] = com[s] /\ com2[s - 1] = com[s - 1]
    BY <2>2
  <2>4. Complete(J, com2, s, n + 1)
    <3> SUFFICES ASSUME NEW t \in s + 1 .. n + 1
                 PROVE  com2[t] = com2[t - 1] \/
                        \E l \in DOMAIN J : J[l].sequence = t /\ J[l].changes # <<>>
      BY DEF Complete
    <3>1. CASE t = n + 1
      <4>1. t - 1 = n /\ n \in 0 .. n
        BY <3>1
      <4> QED BY <3>1, <4>1
    <3>2. CASE t # n + 1
      <4>1. t \in s + 1 .. n /\ t \in 0 .. n /\ t - 1 \in 0 .. n
        BY <2>2, <3>2
      <4> QED BY <2>1, <4>1 DEF SetOK, Complete
    <3> QED BY <3>1, <3>2
  <2>5. s <= n + 1
    BY <2>2
  <2> QED BY <2>1, <2>3, <2>4, <2>5 DEF SetOK
<1> QED BY <1>2 DEF JournalOK

\* A merge that adds what it did.
LEMMA JournalGrows ==
    ASSUME NEW n \in Nat, NEW com, NEW com2, \A x \in 0 .. n : com2[x] = com[x],
           NEW J \in Seq(Sets), JournalOK(J, com, n), Len(J) <= JournalSize,
           NEW set \in Sets, set.sequence = n + 1, set.changes # <<>>,
           Effect(set.changes, com[n], com2[n + 1]),
           \A p \in DOMAIN set.changes : set.changes[p].sequence \in {Invalid, n + 1}
    PROVE  JournalOK(PushJournal(J, set), com2, n + 1)
<1> DEFINE K == PushJournal(J, set)
           N == Len(J)
<1>1. /\ N \in Nat /\ DOMAIN J = 1 .. N
      /\ \A i \in 1 .. N : J[i].sequence \in Nat \ {0}
  BY SetsOf
<1>2. PICK d \in {0, 1} : /\ d <= N /\ Len(K) = N - d + 1
                          /\ \A i \in 1 .. N - d : K[i] = J[i + d]
                          /\ K[N - d + 1] = set
  BY PushFacts
<1> DEFINE M == N - d
<1>3. /\ M \in Nat /\ DOMAIN K = 1 .. M + 1
      /\ \A i \in 1 .. M : K[i] = J[i + d] /\ i + d \in 1 .. N
      /\ K[M + 1] = set
  <2>1. K \in Seq(Sets)
    BY PushFacts
  <2> HIDE DEF K
  <2> QED BY <1>1, <1>2, <2>1
<1>4. \A i \in 1 .. N : SetOK(J, com, n, i)
  BY <1>1 DEF JournalOK
<1>5. \A i \in 1 .. M : K[i].sequence \in 1 .. n
  BY <1>1, <1>3, <1>4 DEF SetOK
<1> HIDE DEF K
<1>6. ASSUME NEW i \in DOMAIN K, NEW j \in DOMAIN K, i < j
      PROVE  K[i].sequence < K[j].sequence
  <2>1. CASE j = M + 1
    <3>1. i \in 1 .. M
      BY <1>3, <1>6, <2>1
    <3>2. K[i].sequence \in 1 .. n /\ K[j].sequence = n + 1
      BY <1>3, <1>5, <2>1, <3>1
    <3> QED BY <3>2
  <2>2. CASE j # M + 1
    <3>1. i \in 1 .. M /\ j \in 1 .. M /\ i + d < j + d
      BY <1>2, <1>3, <1>6, <2>2
    <3>2. i + d \in DOMAIN J /\ j + d \in DOMAIN J
      BY <1>1, <1>3, <3>1
    <3>3. J[i + d].sequence < J[j + d].sequence
      BY <3>1, <3>2 DEF JournalOK
    <3> QED BY <1>3, <3>1, <3>3
  <2> QED BY <2>1, <2>2
<1>7. ASSUME NEW i \in DOMAIN K PROVE SetOK(K, com2, n + 1, i)
  <2>1. CASE i = M + 1
    <3>1. K[i] = set /\ (n + 1) - 1 = n /\ n \in 0 .. n
      BY <1>3, <2>1
    <3>2. com2[n] = com[n]
      BY <3>1
    <3>3. Complete(K, com2, n + 1, n + 1)
      <4>1. \A t \in (n + 1) + 1 .. n + 1 : FALSE
        OBVIOUS
      <4> QED BY <4>1 DEF Complete
    <3> QED BY <3>1, <3>2, <3>3 DEF SetOK
  <2>2. CASE i # M + 1
    <3> DEFINE s == K[i].sequence
    <3>1. i \in 1 .. M
      BY <1>3, <2>2
    <3>2. K[i] = J[i + d] /\ i + d \in 1 .. N
      BY <1>3, <3>1
    <3>3. SetOK(J, com, n, i + d)
      BY <1>4, <3>2
    <3>4. s \in 1 .. n /\ s - 1 \in 0 .. n /\ s \in 0 .. n
      BY <1>5, <3>1
    <3>5. com2[s] = com[s] /\ com2[s - 1] = com[s - 1]
      BY <3>4
    <3>6. Complete(K, com2, s, n + 1)
      <4> SUFFICES ASSUME NEW t \in s + 1 .. n + 1
                   PROVE  com2[t] = com2[t - 1] \/
                          \E l \in DOMAIN K : K[l].sequence = t /\ K[l].changes # <<>>
        BY DEF Complete
      <4>1. CASE t = n + 1
        <5>1. M + 1 \in DOMAIN K
          BY <1>3
        <5> QED BY <1>3, <4>1, <5>1
      <4>2. CASE t # n + 1
        <5>1. t \in s + 1 .. n /\ t \in 0 .. n /\ t - 1 \in 0 .. n /\ s < t
          BY <3>4, <4>2
        <5>2. CASE com[t] = com[t - 1]
          BY <5>1, <5>2
        <5>3. CASE com[t] # com[t - 1]
          <6>1. PICK l \in 1 .. N : J[l].sequence = t /\ J[l].changes # <<>>
            <7>1. Complete(J, com, s, n) /\ DOMAIN J = 1 .. N
              BY <1>1, <3>2, <3>3 DEF SetOK
            <7> HIDE DEF s
            <7> QED BY <5>1, <5>3, <7>1 DEF Complete
          <6>2. l \in (i + d) + 1 .. N
            <7>1. J[i + d].sequence < J[l].sequence
              BY <3>2, <5>1, <6>1
            <7> QED BY <3>2, <7>1, LaterSet
          <6>3. l - d \in 1 .. M /\ (l - d) + d = l
            BY <1>1, <1>2, <3>1, <6>2
          <6>4. K[l - d] = J[l] /\ l - d \in DOMAIN K
            BY <1>3, <6>3
          <6> QED BY <6>1, <6>4
        <5> QED BY <5>2, <5>3
      <4> QED BY <4>1, <4>2
    <3>7. s <= n + 1
      BY <3>4
    <3> QED BY <3>2, <3>3, <3>5, <3>6, <3>7 DEF SetOK
  <2> QED BY <2>1, <2>2
<1>8. JournalOK(K, com2, n + 1)
  BY <1>6, <1>7 DEF JournalOK
<1> QED BY <1>8 DEF K

\* An initialization starts the journal anew.
LEMMA JournalRestarts ==
    ASSUME NEW n \in Nat, NEW com, NEW set \in Sets, set.sequence = n + 1,
           set.changes = <<>>
    PROVE  JournalOK(PushJournal(<<>>, set), com, n + 1)
<1> DEFINE K == PushJournal(<<>>, set)
<1>1. <<>> \in Seq(Sets) /\ Len(<<>>) = 0 /\ 0 <= JournalSize /\ 0 # JournalSize
  BY ContainerAssumption
<1>2. K = <<set>>
  BY <1>1 DEF PushJournal
<1> HIDE DEF K
<1>3. DOMAIN K = {1} /\ K[1] = set
  BY <1>2
<1>4. \A t \in (n + 1) + 1 .. n + 1 : FALSE
  OBVIOUS
<1>5. Complete(K, com, n + 1, n + 1)
  BY <1>4 DEF Complete
<1>6. SetOK(K, com, n + 1, 1)
  <2>1. DOMAIN set.changes = {}
    OBVIOUS
  <2> QED BY <1>3, <1>5, <2>1 DEF SetOK
<1>7. JournalOK(K, com, n + 1)
  BY <1>3, <1>6 DEF JournalOK
<1> QED BY <1>7 DEF K

-----------------------------------------------------------------------------
(* The wire.                                                               *)

LEMMA ConstantFacts ==
    /\ MaxSeq \in Nat /\ MaxEdits \in Nat /\ JournalSize \in Nat \ {0}
    /\ Invalid \in SeqRange /\ ValidNonSequence \in SeqRange /\ Invalid = -1
    /\ ValidNonSequence = 0 /\ SeqRange = -1 .. MaxSeq
    /\ \A s \in 1 .. MaxSeq : s \in SeqRange
    /\ NoValues \in Maps /\ <<>> \in Changes /\ <<>> \in Seq(Sets)
    /\ None \notin Values /\ DefaultValue \in Values
<1>1. NoValues \in Maps
  <2>1. NoValues \in [{} -> Values]
    BY DEF NoValues
  <2> QED BY <2>1 DEF Maps
<1>2. <<>> \in Changes /\ <<>> \in Seq(Sets)
  BY DEF Changes
<1> QED BY <1>1, <1>2, SyncAssumption, ContainerAssumption
        DEF SeqRange, Invalid, ValidNonSequence

\* The sequence number of the i-th entry as unmarshal finds it.
Stamp(e, i) ==
    LET given == {j \in 1 .. i : e[j].sequence # ValidNonSequence}
    IN  IF given = {} THEN Invalid ELSE e[Max(given)].sequence

\* The entries e carry the sequence numbers s as marshal writes them.
Stamped(e, s, N) ==
    \A i \in 1 .. N :
        /\ s[i] # ValidNonSequence
        /\ e[i].sequence = IF s[i] = (IF i = 1 THEN Invalid ELSE s[i - 1])
                           THEN ValidNonSequence ELSE s[i]

\* It is the one that was written, if that is a real one or none.
LEMMA StampFacts ==
    ASSUME NEW N \in Nat, NEW s, NEW e, Stamped(e, s, N)
    PROVE  \A i \in 1 .. N : Stamp(e, i) = s[i]
<1> USE DEF Stamped
<1> DEFINE given(i) == {j \in 1 .. i : e[j].sequence # ValidNonSequence}
           before(i) == IF i = 1 THEN Invalid ELSE s[i - 1]
           Good == {m \in 0 .. N : m = 0 \/ Stamp(e, m) = s[m]}
<1>1. 0 \in Good
  OBVIOUS
<1>2. ASSUME NEW m \in 0 .. N - 1, m \in Good PROVE m + 1 \in Good
  <2> DEFINE i == m + 1
  <2>1. i \in 1 .. N /\ i \in 0 .. N /\ i - 1 = m /\ m \in Nat
    OBVIOUS
  <2>2. CASE s[i] = before(i)
    <3>1. e[i].sequence = ValidNonSequence
      BY <2>1, <2>2
    <3>2. given(i) = given(m)
      <4>1. \A j \in 1 .. i : j = i \/ j \in 1 .. m
        BY <2>1
      <4>2. \A j \in 1 .. m : j \in 1 .. i
        BY <2>1
      <4> QED BY <3>1, <4>1, <4>2
    <3>3. Stamp(e, i) = Stamp(e, m)
      BY <3>2 DEF Stamp
    <3>4. CASE m = 0
      <4>1. given(m) = {}
        BY <3>4
      <4>2. Stamp(e, m) = Invalid
        BY <4>1 DEF Stamp
      <4> QED BY <2>1, <2>2, <3>3, <3>4, <4>2
    <3>5. CASE m # 0
      <4>1. Stamp(e, m) = s[m] /\ s[i] = s[m]
        BY <1>2, <2>1, <2>2, <3>5
      <4> QED BY <2>1, <3>3, <4>1
    <3> QED BY <3>4, <3>5
  <2>3. CASE s[i] # before(i)
    <3>1. e[i].sequence = s[i] /\ s[i] # ValidNonSequence
      BY <2>1, <2>3
    <3>2. i \in given(i) /\ \A j \in given(i) : j \in 1 .. i
      BY <2>1, <3>1
    <3>3. Max(given(i)) = i
      <4> DEFINE T == given(i)
      <4>1. i \in T /\ \A j \in T : j \in Int /\ j <= i
        BY <2>1, <3>2
      <4> HIDE DEF T
      <4>2. \A x \in T : (\A y \in T : x >= y) => x = i
        BY <2>1, <4>1
      <4>3. \A y \in T : i >= y
        BY <2>1, <4>1
      <4>4. Max(T) = i
        BY <4>1, <4>2, <4>3 DEF Max
      <4> QED BY <4>4 DEF T
    <3>4. Stamp(e, i) = e[i].sequence
      BY <3>2, <3>3 DEF Stamp
    <3> QED BY <2>1, <3>1, <3>4
  <2> QED BY <2>2, <2>3
<1>3. \A m \in 0 .. N : m \in Good
  <2> HIDE DEF Good
  <2> QED BY <1>1, <1>2, InductionTo
<1> SUFFICES ASSUME NEW i \in 1 .. N PROVE Stamp(e, i) = s[i]
  OBVIOUS
<1>4. i \in 0 .. N /\ i # 0
  OBVIOUS
<1> QED BY <1>3, <1>4

\* A container with these changes and nothing else, as unmarshal makes it.
Received(cs) == [last_modified |-> ValidNonSequence, full |-> Invalid, values |-> NoValues,
                 changes |-> cs, journal |-> <<>>, initialize |-> FALSE, pending |-> TRUE,
                 default |-> FALSE, news |-> TRUE, processed |-> Invalid]

LEMMA UnmarshalDelta ==
    ASSUME NEW body, body.mode = "delta", NEW e, body.entries = e
    PROVE  Unmarshal(body) =
             Received([i \in DOMAIN e |->
                         [op |-> IF e[i].live THEN "update" ELSE "remove", key |-> e[i].key,
                          value |-> e[i].value, sequence |-> Stamp(e, i)]])
BY DEF Unmarshal, Received, Stamp, Empty

\* What arrives of the change ch written from the values v.
Arrived(ch, v, d) ==
    /\ d.op = (IF ch.op = "remove" THEN "remove" ELSE "update")
    /\ d.key = ch.key /\ d.sequence = ch.sequence
    /\ ch.op = "remove" => d.value = None
    /\ ch.op # "remove" =>
         /\ d.value \in Values
         /\ ch.value \in Values => d.value = ch.value
         /\ ch.value = None /\ ch.key \in DOMAIN v => d.value = v[ch.key]

LEMMA WireFacts ==
    ASSUME NEW c, c.values \in Maps, NEW cs \in Changes,
           \A i \in DOMAIN cs : cs[i].sequence # ValidNonSequence
    PROVE  /\ MarshalChanges(c, cs) \in Bodies /\ MarshalChanges(c, cs).mode = "delta"
           /\ \E ds \in Changes :
                /\ Unmarshal(MarshalChanges(c, cs)) = Received(ds) /\ Len(ds) = Len(cs)
                /\ \A i \in DOMAIN cs : Arrived(cs[i], c.values, ds[i])
<1> DEFINE v == c.values
           N == Len(cs)
           value(ch) == IF ch.op = "remove" THEN None
                        ELSE LET p == Populate(v, ch).value
                             IN  IF p = None THEN DefaultValue ELSE p
           s == [i \in 1 .. N |-> cs[i].sequence]
           e == [i \in 1 .. N |->
                   [live |-> cs[i].op # "remove", key |-> cs[i].key,
                    sequence |-> IF cs[i].sequence = (IF i = 1 THEN Invalid
                                                      ELSE cs[i - 1].sequence)
                                 THEN ValidNonSequence ELSE cs[i].sequence,
                    value |-> value(cs[i])]]
           ds == [i \in 1 .. N |->
                    [op |-> IF e[i].live THEN "update" ELSE "remove", key |-> e[i].key,
                     value |-> e[i].value, sequence |-> Stamp(e, i)]]
<1>1. /\ N \in Nat /\ DOMAIN cs = 1 .. N
      /\ \A i \in 1 .. N : cs[i] \in Change(SeqRange)
  BY DEF Changes
<1>2. \A ch \in Change(SeqRange) : /\ ch.op \in Ops /\ ch.key \in Keys
                                   /\ ch.value \in Values \cup {None}
                                   /\ ch.sequence \in SeqRange
  BY DEF Change
<1>3. MarshalChanges(c, cs) = [mode |-> "delta", entries |-> e]
  BY <1>1 DEF MarshalChanges
<1>4. ASSUME NEW ch \in Change(SeqRange)
      PROVE  /\ ch.op = "remove" => value(ch) = None
             /\ ch.op # "remove" =>
                  /\ value(ch) \in Values
                  /\ ch.value \in Values => value(ch) = ch.value
                  /\ ch.value = None /\ ch.key \in DOMAIN v => value(ch) = v[ch.key]
  <2>1. \A k \in DOMAIN v : v[k] \in Values
    BY MapIs
  <2>2. ch.op # "remove" /\ ch.value = None /\ ch.key \in DOMAIN v =>
            Populate(v, ch).value = v[ch.key]
    BY DEF Populate, Change
  <2>3. ~(ch.op # "remove" /\ ch.value = None /\ ch.key \in DOMAIN v) =>
            Populate(v, ch).value = ch.value
    BY DEF Populate
  <2> HIDE DEF v
  <2> QED BY <1>2, <2>1, <2>2, <2>3, ConstantFacts
<1> HIDE DEF value, v
<1>5. \A i \in 1 .. N : Stamp(e, i) = cs[i].sequence
  <2>1. Stamped(e, s, N)
    <3> SUFFICES ASSUME NEW i \in 1 .. N
                 PROVE  /\ s[i] # ValidNonSequence
                        /\ e[i].sequence = IF s[i] = (IF i = 1 THEN Invalid ELSE s[i - 1])
                                           THEN ValidNonSequence ELSE s[i]
      BY DEF Stamped
    <3>1. /\ s[i] = cs[i].sequence /\ s[i] # ValidNonSequence
          /\ e[i].sequence = IF cs[i].sequence = (IF i = 1 THEN Invalid ELSE cs[i - 1].sequence)
                             THEN ValidNonSequence ELSE cs[i].sequence
      BY <1>1
    <3>2. CASE i = 1
      BY <3>1, <3>2
    <3>3. CASE i # 1
      <4>1. i - 1 \in 1 .. N
        BY <1>1, <3>3
      <4>2. s[i - 1] = cs[i - 1].sequence
        BY <4>1
      <4> HIDE DEF s, e
      <4> QED BY <3>1, <3>3, <4>2
    <3> QED BY <3>2, <3>3
  <2>2. N \in Nat
    BY <1>1
  <2> HIDE DEF s, e, N
  <2>3. \A i \in 1 .. N : Stamp(e, i) = s[i]
    BY ONLY <2>1, <2>2, StampFacts
  <2> QED BY <2>3 DEF s
<1>6. \A i \in 1 .. N : /\ e[i].live = (cs[i].op # "remove") /\ e[i].key = cs[i].key
                        /\ e[i].value = value(cs[i])
                        /\ e[i].sequence \in {ValidNonSequence, cs[i].sequence}
  OBVIOUS
<1>7. Unmarshal(MarshalChanges(c, cs)) = Received(ds)
  <2>1. DOMAIN e = 1 .. N
    OBVIOUS
  <2>2. MarshalChanges(c, cs).mode = "delta" /\ MarshalChanges(c, cs).entries = e
    BY <1>3
  <2> HIDE DEF e
  <2>3. Unmarshal(MarshalChanges(c, cs)) =
             Received([i \in DOMAIN e |->
                         [op |-> IF e[i].live THEN "update" ELSE "remove", key |-> e[i].key,
                          value |-> e[i].value, sequence |-> Stamp(e, i)]])
    BY <2>2, UnmarshalDelta
  <2> QED BY <2>1, <2>3
<1>8. e \in Seq([live : BOOLEAN, key : Keys, sequence : SeqRange, value : Values \cup {None}])
  <2>1. \A i \in 1 .. N : e[i] \in [live : BOOLEAN, key : Keys, sequence : SeqRange,
                                    value : Values \cup {None}]
    <3> SUFFICES ASSUME NEW i \in 1 .. N
                 PROVE  e[i] \in [live : BOOLEAN, key : Keys, sequence : SeqRange,
                                  value : Values \cup {None}]
      OBVIOUS
    <3>1. /\ cs[i] \in Change(SeqRange) /\ cs[i].key \in Keys /\ cs[i].sequence \in SeqRange
          /\ value(cs[i]) \in Values \cup {None}
      BY <1>1, <1>2, <1>4
    <3> QED BY <3>1, ConstantFacts
  <2> QED BY <1>1, <2>1
<1>9. MarshalChanges(c, cs) \in Bodies
  <2> HIDE DEF e
  <2> QED BY <1>3, <1>8 DEF Bodies
<1> HIDE DEF e
<1>10. ASSUME NEW i \in 1 .. N
       PROVE  ds[i] \in Change(SeqRange) /\ Arrived(cs[i], c.values, ds[i])
  <2>1. /\ ds[i].op = (IF cs[i].op = "remove" THEN "remove" ELSE "update")
        /\ ds[i].key = cs[i].key /\ ds[i].value = value(cs[i])
        /\ ds[i].sequence = cs[i].sequence
    BY <1>5, <1>6
  <2>2. ds[i] = [op |-> ds[i].op, key |-> ds[i].key, value |-> ds[i].value,
                 sequence |-> ds[i].sequence]
    OBVIOUS
  <2> HIDE DEF ds
  <2>3. cs[i] \in Change(SeqRange)
    BY <1>1
  <2>4. Arrived(cs[i], c.values, ds[i])
    BY <1>4, <2>1, <2>3 DEF Arrived, v
  <2>5. /\ ds[i].op \in Ops /\ ds[i].key \in Keys /\ ds[i].value \in Values \cup {None}
        /\ ds[i].sequence \in SeqRange
    BY <1>2, <1>4, <2>1, <2>3 DEF Ops
  <2>6. [op |-> ds[i].op, key |-> ds[i].key, value |-> ds[i].value,
         sequence |-> ds[i].sequence] \in Change(SeqRange)
    BY <2>5 DEF Change
  <2>7. ds[i] \in Change(SeqRange)
    BY <2>2, <2>6
  <2> QED BY <2>4, <2>7
<1>11. ds \in Changes /\ Len(ds) = N
  <2>1. DOMAIN ds = 1 .. N
    OBVIOUS
  <2>2. ds \in [1 .. N -> Change(SeqRange)]
    BY <1>10
  <2> HIDE DEF ds
  <2> QED BY <1>1, <2>1, <2>2 DEF Changes
<1>12. MarshalChanges(c, cs).mode = "delta"
  BY <1>3
<1> HIDE DEF ds
<1> QED BY <1>1, <1>7, <1>9, <1>10, <1>11, <1>12

\* ds say of the values v what the changes cs say.
Retold(cs, ds, v) ==
    /\ Len(ds) = Len(cs)
    /\ \A i \in DOMAIN cs : /\ ds[i].key = cs[i].key /\ ds[i].sequence = cs[i].sequence
                            /\ Wrote(cs[i], v) => Wrote(ds[i], v)

LEMMA RetoldFacts ==
    ASSUME NEW cs \in Changes, NEW ds \in Changes, NEW v, Retold(cs, ds, v)
    PROVE  /\ Settles(cs, v) => Settles(ds, v)
           /\ \A f : Effect(cs, f, v) => Effect(ds, f, v)
<1>1. DOMAIN ds = DOMAIN cs
  BY DEF Retold, Changes
<1>2. \A i \in DOMAIN cs : ds[i].key = cs[i].key
  BY DEF Retold
<1>3. \A i \in DOMAIN cs : Final(ds, i) => Final(cs, i)
  BY <1>1, <1>2 DEF Final
<1>4. \A k : Untouched(ds, k) => Untouched(cs, k)
  BY <1>1, <1>2 DEF Untouched
<1>5. Settles(cs, v) => Settles(ds, v)
  BY <1>1, <1>3 DEF Settles, Retold
<1> QED BY <1>4, <1>5 DEF Effect

\* The changes of the journal come out of the wire as they went in, with the
\* values of now.
LEMMA SinceFacts ==
    ASSUME NEW c \in Containers, c.changes = <<>>, NEW b \in SeqRange,
           NEW C, C = Newer(c.journal, b), C \in Changes,
           \A i \in DOMAIN C : C[i].sequence # ValidNonSequence,
           MarshalSince(c, b) # MarshalFull(c)
    PROVE  /\ b # Invalid /\ C # <<>>
           /\ MarshalSince(c, b) \in Bodies /\ MarshalSince(c, b).mode = "delta"
           /\ \E ds \in Changes : /\ Unmarshal(MarshalSince(c, b)) = Received(ds)
                                  /\ Valued(ds) /\ Retold(C, ds, c.values)
<1> DEFINE v == c.values
           cs == [i \in DOMAIN C |-> Populate(v, C[i])]
           N == Len(C)
<1>1. /\ N \in Nat /\ DOMAIN C = 1 .. N /\ \A i \in 1 .. N : C[i] \in Change(SeqRange)
  BY DEF Changes
<1>2. v \in Maps
  BY DEF Containers
<1>3. C \o c.changes = C
  BY DEF Changes
<1>4. /\ b # Invalid /\ SummarizeChanges(c, b) # <<>>
      /\ MarshalSince(c, b) = MarshalChanges(c, SummarizeChanges(c, b))
  BY DEF MarshalSince
<1>5. SummarizeChanges(c, b) = cs
  <2>1. SummarizeChanges(c, b) \in {<<>>, cs}
    BY <1>3 DEF SummarizeChanges
  <2> QED BY <1>4, <2>1
<1>6. ASSUME NEW ch \in Change(SeqRange)
      PROVE  /\ Populate(v, ch) \in Change(SeqRange)
             /\ Populate(v, ch).op = ch.op /\ Populate(v, ch).key = ch.key
             /\ Populate(v, ch).sequence = ch.sequence
             /\ Populate(v, ch).value =
                  IF ch.op # "remove" /\ ch.value = None /\ ch.key \in DOMAIN v
                  THEN v[ch.key] ELSE ch.value
  <2>1. \A k \in DOMAIN v : v[k] \in Values
    BY <1>2, MapIs
  <2> HIDE DEF v
  <2>2. CASE ch.op # "remove" /\ ch.value = None /\ ch.key \in DOMAIN v
    <3>1. Populate(v, ch) = [ch EXCEPT !.value = v[ch.key]] /\ v[ch.key] \in Values
      BY <2>1, <2>2 DEF Populate
    <3> QED BY <2>2, <3>1 DEF Change
  <2>3. CASE ~(ch.op # "remove" /\ ch.value = None /\ ch.key \in DOMAIN v)
    <3>1. Populate(v, ch) = ch
      BY <2>3 DEF Populate
    <3> QED BY <2>3, <3>1
  <2> QED BY <2>2, <2>3
<1>7. /\ DOMAIN cs = 1 .. N /\ cs \in Changes /\ Len(cs) = N
      /\ \A i \in 1 .. N : cs[i] = Populate(v, C[i])
  <2>1. DOMAIN cs = 1 .. N /\ \A i \in 1 .. N : cs[i] = Populate(v, C[i])
    BY <1>1
  <2>2. cs \in [1 .. N -> Change(SeqRange)]
    BY <1>1, <1>6
  <2> HIDE DEF cs
  <2> QED BY <1>1, <2>1, <2>2 DEF Changes
<1> HIDE DEF cs
<1>8. \A i \in DOMAIN cs : cs[i].sequence # ValidNonSequence
  BY <1>1, <1>6, <1>7
<1>9. /\ MarshalChanges(c, cs) \in Bodies /\ MarshalChanges(c, cs).mode = "delta"
      /\ \E ds \in Changes :
           /\ Unmarshal(MarshalChanges(c, cs)) = Received(ds) /\ Len(ds) = Len(cs)
           /\ \A i \in DOMAIN cs : Arrived(cs[i], c.values, ds[i])
  <2>1. c.values \in Maps
    BY <1>2
  <2> QED BY ONLY <1>7, <1>8, <2>1, WireFacts
<1>10. PICK ds \in Changes :
          /\ Unmarshal(MarshalChanges(c, cs)) = Received(ds) /\ Len(ds) = Len(cs)
          /\ \A i \in DOMAIN cs : Arrived(cs[i], c.values, ds[i])
  BY <1>9
<1>11. Valued(ds)
  <2>1. DOMAIN ds = 1 .. N
    BY <1>7, <1>10 DEF Changes
  <2> QED BY <1>7, <1>10, <2>1 DEF Valued, Arrived
<1>12. Retold(C, ds, c.values)
  <2>1. ASSUME NEW i \in 1 .. N
        PROVE  /\ ds[i].key = C[i].key /\ ds[i].sequence = C[i].sequence
               /\ Wrote(C[i], v) => Wrote(ds[i], v)
    <3>1. /\ Arrived(cs[i], v, ds[i]) /\ C[i] \in Change(SeqRange)
          /\ cs[i] = Populate(v, C[i])
      BY <1>1, <1>7, <1>10
    <3>2. /\ cs[i].op = C[i].op /\ cs[i].key = C[i].key /\ cs[i].sequence = C[i].sequence
          /\ cs[i].value = IF C[i].op # "remove" /\ C[i].value = None /\ C[i].key \in DOMAIN v
                           THEN v[C[i].key] ELSE C[i].value
      BY <1>6, <3>1
    <3>3. C[i].value \in Values \cup {None}
      BY <3>1 DEF Change
    <3>4. \A k \in DOMAIN v : v[k] \in Values
      BY <1>2, MapIs
    <3> HIDE DEF v
    <3>5. ds[i].key = C[i].key /\ ds[i].sequence = C[i].sequence
      BY <3>1, <3>2 DEF Arrived
    <3>6. ASSUME Wrote(C[i], v) PROVE Wrote(ds[i], v)
      <4>1. CASE C[i].op = "remove"
        BY <3>1, <3>2, <3>5, <3>6, <4>1 DEF Wrote, Arrived
      <4>2. CASE C[i].op # "remove"
        <5>1. C[i].key \in DOMAIN v /\ (C[i].value # None => v[C[i].key] = C[i].value)
          BY <3>6, <4>2 DEF Wrote
        <5>2. cs[i].value = v[C[i].key] /\ cs[i].value \in Values
          BY <3>2, <3>3, <3>4, <4>2, <5>1, ConstantFacts
        <5>3. ds[i].value = v[C[i].key] /\ ds[i].op = "update"
          BY <3>1, <3>2, <4>2, <5>2 DEF Arrived
        <5> QED BY <3>5, <5>1, <5>3 DEF Wrote
      <4> QED BY <4>1, <4>2
    <3> QED BY <3>5, <3>6
  <2> QED BY <1>1, <1>7, <1>10, <2>1 DEF Retold
<1>13. C # <<>>
  <2>1. cs # <<>>
    BY <1>4, <1>5
  <2> QED BY <1>1, <1>7, <2>1
<1> QED BY <1>4, <1>5, <1>9, <1>10, <1>11, <1>12, <1>13

-----------------------------------------------------------------------------
(* The records that unmarshal and merge make, field by field.              *)

Record(t, f, v, cs, J, i, p, d, n, q) ==
    [last_modified |-> t, full |-> f, values |-> v, changes |-> cs, journal |-> J,
     initialize |-> i, pending |-> p, default |-> d, news |-> n, processed |-> q]

\* A container with a snapshot's values and nothing else.
Snapshot(s, v) ==
    Record(ValidNonSequence, s, v, <<>>, <<>>, TRUE, FALSE, FALSE, TRUE, s)

\* What a merge makes: no changes of its own, no flags but the news.
Merged(t, v, J, q, news) ==
    Record(t, Invalid, v, <<>>, J, FALSE, FALSE, FALSE, news, q)

LEMMA FullIs ==
    ASSUME NEW s, NEW v
    PROVE  PushInitializeChange(
             [Empty EXCEPT !.full = s, !.processed = s, !.values = v, !.news = TRUE])
             = Snapshot(s, v)
<1> DEFINE yes == TRUE
           no == FALSE
           r1 == [Empty EXCEPT !.full = s]
           r2 == [r1 EXCEPT !.processed = s]
           r3 == [r2 EXCEPT !.values = v]
           r4 == [r3 EXCEPT !.news = yes]
           r5 == [r4 EXCEPT !.last_modified = ValidNonSequence]
           r6 == [r5 EXCEPT !.default = no]
           r7 == [r6 EXCEPT !.initialize = yes]
           r8 == [r7 EXCEPT !.pending = no]
           kept == IF r4.initialize THEN r4.changes ELSE <<>>
           r9 == [r8 EXCEPT !.changes = kept]
<1>1. Empty = Record(Invalid, Invalid, NoValues, <<>>, <<>>, yes, no, no, no, Invalid)
  BY DEF Empty, Record
<1>2. [Empty EXCEPT !.full = s, !.processed = s, !.values = v, !.news = TRUE] = r4
  OBVIOUS
<1>3. PushInitializeChange(r4) = r9
  BY DEF PushInitializeChange
<1>4. Snapshot(s, v) = Record(ValidNonSequence, s, v, <<>>, <<>>, yes, no, no, yes, s)
  BY DEF Snapshot
<1> HIDE DEF r1, r2, r3, r4, r5, r6, r7, r8, r9, kept, no
<1>5. r4 = Record(Invalid, s, v, <<>>, <<>>, yes, no, no, yes, s)
  <2> HIDE DEF yes
  <2>1. r1 = Record(Invalid, s, NoValues, <<>>, <<>>, yes, no, no, no, Invalid)
    BY ONLY <1>1, SMTT(30) DEF r1, Record
  <2>2. r2 = Record(Invalid, s, NoValues, <<>>, <<>>, yes, no, no, no, s)
    BY ONLY <2>1, SMTT(30) DEF r2, Record
  <2>3. r3 = Record(Invalid, s, v, <<>>, <<>>, yes, no, no, no, s)
    BY ONLY <2>2, SMTT(30) DEF r3, Record
  <2> QED BY ONLY <2>3, SMTT(30) DEF r4, Record
<1>6. kept = <<>>
  BY <1>5 DEF kept, Record
<1>7. r9 = Record(ValidNonSequence, s, v, <<>>, <<>>, yes, no, no, yes, s)
  <2> HIDE DEF yes
  <2>1. r5 = Record(ValidNonSequence, s, v, <<>>, <<>>, yes, no, no, yes, s)
    BY ONLY <1>5, SMTT(30) DEF r5, Record
  <2>2. r6 = Record(ValidNonSequence, s, v, <<>>, <<>>, yes, no, no, yes, s)
    BY ONLY <2>1, SMTT(30) DEF r6, Record
  <2>3. r7 = Record(ValidNonSequence, s, v, <<>>, <<>>, yes, no, no, yes, s)
    BY ONLY <2>2, SMTT(30) DEF r7, Record
  <2>4. r8 = Record(ValidNonSequence, s, v, <<>>, <<>>, yes, no, no, yes, s)
    BY ONLY <2>3, SMTT(30) DEF r8, Record
  <2> QED BY ONLY <1>6, <2>4, SMTT(30) DEF r9, Record
<1> QED BY ONLY <1>2, <1>3, <1>4, <1>7

LEMMA UnmarshalFull ==
    ASSUME NEW body, body.mode = "full"
    PROVE  Unmarshal(body) = Snapshot(body.sequence, body.values)
BY FullIs DEF Unmarshal

LEMMA UnmarshalTypes ==
    /\ \A cs \in Changes : Received(cs) \in Containers
    /\ \A s \in SeqRange, v \in Maps : Snapshot(s, v) \in Containers
BY ConstantFacts DEF Received, Snapshot, Record, Containers

-----------------------------------------------------------------------------
(* The merge.                                                              *)

LEMMA MinOfTwo ==
    ASSUME NEW a \in Int, NEW b \in Int
    PROVE  Min({a, b}) = IF a <= b THEN a ELSE b
<1> DEFINE m == IF a <= b THEN a ELSE b
<1>1. m \in {a, b} /\ \A y \in {a, b} : m <= y
  OBVIOUS
<1>2. \A x \in {a, b} : (\A y \in {a, b} : x <= y) => x = m
  OBVIOUS
<1> HIDE DEF m
<1>3. Min({a, b}) = m
  BY <1>1, <1>2 DEF Min
<1> QED BY <1>3 DEF m

\* The records of the two cases of merge_and_update_sequence, and one field of a
\* record replaced.
KeptWith(t, v, J, q, n) ==
    [Cleared EXCEPT !.last_modified = t, !.values = v, !.processed = q, !.journal = J,
                    !.news = n]
TakenWith(t, v, q, n) ==
    [Cleared EXCEPT !.last_modified = t, !.news = n, !.values = v, !.processed = q]
WithLast(c, x) == [c EXCEPT !.last_modified = x]
WithValues(c, x) == [c EXCEPT !.values = x]
WithJournal(c, x) == [c EXCEPT !.journal = x]
WithNews(c, x) == [c EXCEPT !.news = x]

LEMMA TakenIs ==
    ASSUME NEW t, NEW v, NEW J, NEW q, NEW n
    PROVE  /\ KeptWith(t, v, J, q, n) = Merged(t, v, J, q, n)
           /\ TakenWith(t, v, q, n) = Merged(t, v, <<>>, q, n)
<1> DEFINE yes == TRUE
           no == FALSE
           M(s, w, K, p, m) == Record(s, Invalid, w, <<>>, K, no, no, no, m, p)
           r1 == [Cleared EXCEPT !.last_modified = t]
           r2 == [r1 EXCEPT !.values = v]
           r3 == [r2 EXCEPT !.processed = q]
           r4 == [r3 EXCEPT !.journal = J]
           r5 == [r4 EXCEPT !.news = n]
           r6 == [r1 EXCEPT !.news = n]
           r7 == [r6 EXCEPT !.values = v]
           r8 == [r7 EXCEPT !.processed = q]
<1>1. /\ Cleared = [Empty EXCEPT !.initialize = no]
      /\ Empty = Record(Invalid, Invalid, NoValues, <<>>, <<>>, yes, no, no, no, Invalid)
  BY DEF Cleared, Empty, Record
<1>2. KeptWith(t, v, J, q, n) = r5 /\ TakenWith(t, v, q, n) = r8
  BY DEF KeptWith, TakenWith
<1>3. Merged(t, v, J, q, n) = M(t, v, J, q, n) /\ Merged(t, v, <<>>, q, n) = M(t, v, <<>>, q, n)
  BY DEF Merged
<1> HIDE DEF r1, r2, r3, r4, r5, r6, r7, r8, yes, no
<1>4. Cleared = M(Invalid, NoValues, <<>>, Invalid, no)
  BY ONLY <1>1, SMTT(30) DEF Record
<1>5. r1 = M(t, NoValues, <<>>, Invalid, no)
  BY ONLY <1>4, SMTT(30) DEF r1, Record
<1>6. r5 = M(t, v, J, q, n)
  <2>1. r2 = M(t, v, <<>>, Invalid, no)
    BY ONLY <1>5, SMTT(30) DEF r2, Record
  <2>2. r3 = M(t, v, <<>>, q, no)
    BY ONLY <2>1, SMTT(30) DEF r3, Record
  <2>3. r4 = M(t, v, J, q, no)
    BY ONLY <2>2, SMTT(30) DEF r4, Record
  <2> QED BY ONLY <2>3, SMTT(30) DEF r5, Record
<1>7. r8 = M(t, v, <<>>, q, n)
  <2>1. r6 = M(t, NoValues, <<>>, Invalid, n)
    BY ONLY <1>5, SMTT(30) DEF r6, Record
  <2>2. r7 = M(t, v, <<>>, Invalid, n)
    BY ONLY <2>1, SMTT(30) DEF r7, Record
  <2> QED BY ONLY <2>2, SMTT(30) DEF r8, Record
<1> QED BY <1>2, <1>3, <1>6, <1>7

LEMMA MergedExcept ==
    ASSUME NEW t, NEW v, NEW J, NEW q, NEW n, NEW x
    PROVE  /\ WithLast(Merged(t, v, J, q, n), x) = Merged(x, v, J, q, n)
           /\ WithValues(Merged(t, v, J, q, n), x) = Merged(t, x, J, q, n)
           /\ WithJournal(Merged(t, v, J, q, n), x) = Merged(t, v, x, q, n)
           /\ WithNews(Merged(t, v, J, q, n), x) = Merged(t, v, J, q, x)
<1> DEFINE no == FALSE
           M(s, w, K, p, m) == Record(s, Invalid, w, <<>>, K, no, no, no, m, p)
           c == Merged(t, v, J, q, n)
<1>1. c = M(t, v, J, q, n)
  BY DEF Merged
<1>2. /\ Merged(x, v, J, q, n) = M(x, v, J, q, n) /\ Merged(t, x, J, q, n) = M(t, x, J, q, n)
      /\ Merged(t, v, x, q, n) = M(t, v, x, q, n) /\ Merged(t, v, J, q, x) = M(t, v, J, q, x)
  BY DEF Merged
<1> HIDE DEF no, c
<1>3. /\ WithLast(c, x) = M(x, v, J, q, n)
      /\ WithValues(c, x) = M(t, x, J, q, n)
      /\ WithJournal(c, x) = M(t, v, x, q, n)
      /\ WithNews(c, x) = M(t, v, J, q, x)
  BY ONLY <1>1, SMTT(30) DEF WithLast, WithValues, WithJournal, WithNews, Record
<1> QED BY <1>2, <1>3 DEF c

LEMMA KeptIs ==
    ASSUME NEW old \in Containers, NEW s \in Int
    PROVE  Kept(old, s, TRUE) =
             Merged(IF s <= old.last_modified THEN s ELSE old.last_modified,
                    old.values, old.journal, old.processed, old.news)
<1> DEFINE t == IF s <= old.last_modified THEN s ELSE old.last_modified
           n == old.news
           b == TRUE /\ old.news
<1>1. old.last_modified \in Int /\ old.news \in BOOLEAN
  BY ConstantFacts DEF Containers
<1>2. Min({s, old.last_modified}) = t
  BY <1>1, MinOfTwo
<1>3. b = n
  BY <1>1
<1>4. Kept(old, s, TRUE) =
        KeptWith(Min({s, old.last_modified}), old.values, old.journal, old.processed,
                 b)
  BY DEF Kept, KeptWith
<1> HIDE DEF t, n, b
<1>5. Kept(old, s, TRUE) = KeptWith(t, old.values, old.journal, old.processed, n)
  BY <1>2, <1>3, <1>4
<1>6. \A v, J, q : KeptWith(t, v, J, q, n) = Merged(t, v, J, q, n)
  BY ONLY TakenIs
<1> QED BY ONLY <1>5, <1>6 DEF t, n

LEMMA MergeRejects ==
    ASSUME NEW old \in Containers, NEW s \in Int, NEW new, ~Accepts(old, new)
    PROVE  MergeAndUpdateSequence(old, new, s, TRUE) =
             Merged(IF s <= old.last_modified THEN s ELSE old.last_modified,
                    old.values, old.journal, old.processed, old.news)
<1>1. MergeAndUpdateSequence(old, new, s, TRUE) = Kept(old, s, TRUE)
  BY DEF MergeAndUpdateSequence
<1> QED BY <1>1, KeptIs

LEMMA MergeInitializes ==
    ASSUME NEW old, NEW s, NEW new, Accepts(old, new), new.initialize
    PROVE  MergeAndUpdateSequence(old, new, s, TRUE) =
             Merged(s, new.values,
                    PushJournal(<<>>, [sequence |-> s, changes |-> new.changes]),
                    new.processed, TRUE)
<1> DEFINE taken == TakenWith(s, new.values, new.processed, TRUE)
           J == PushJournal(<<>>, [sequence |-> s, changes |-> new.changes])
           yes == TRUE
<1>1. MergeAndUpdateSequence(old, new, s, TRUE) = WithJournal(taken, J)
  BY DEF MergeAndUpdateSequence, TakenWith, WithJournal
<1>2. taken = Merged(s, new.values, <<>>, new.processed, yes)
  BY TakenIs
<1> HIDE DEF J, taken, yes
<1>3. WithJournal(taken, J) = Merged(s, new.values, J, new.processed, yes)
  BY ONLY <1>2, MergedExcept
<1> QED BY <1>1, <1>3 DEF J, yes

LEMMA MergeEdits ==
    ASSUME NEW old, NEW s, NEW new, Accepts(old, new), ~new.initialize, ~new.pending
    PROVE  MergeAndUpdateSequence(old, new, s, TRUE) =
             Merged(s, new.values,
                    IF new.changes = <<>> THEN new.journal
                    ELSE PushJournal(old.journal, [sequence |-> s, changes |-> new.changes]),
                    new.processed, TRUE)
<1> DEFINE taken == TakenWith(s, new.values, new.processed, TRUE)
           J == IF new.changes = <<>> THEN new.journal
                ELSE PushJournal(old.journal, [sequence |-> s, changes |-> new.changes])
           yes == TRUE
<1>1. MergeAndUpdateSequence(old, new, s, TRUE) = WithJournal(taken, J)
  BY DEF MergeAndUpdateSequence, TakenWith, WithJournal
<1>2. taken = Merged(s, new.values, <<>>, new.processed, yes)
  BY TakenIs
<1> HIDE DEF J, taken, yes
<1>3. WithJournal(taken, J) = Merged(s, new.values, J, new.processed, yes)
  BY ONLY <1>2, MergedExcept
<1> QED BY <1>1, <1>3 DEF J, yes

\* With no journal to go through, merge_change_sets has only the current changes.
LEMMA MergeSetsIs ==
    ASSUME NEW c, NEW incoming, incoming.journal = <<>>, incoming.changes # <<>>, NEW s
    PROVE  MergeChangeSets(c, incoming, s) = ApplyChangeSet(c, s, incoming.changes)
<1> DEFINE turn(x) == LET set == incoming.journal[1]
                      IN  IF EndSequence(c) < set.sequence
                          THEN ApplyChangeSet(x, set.sequence, set.changes) ELSE x
           Turn(n, x) == LET set == incoming.journal[n]
                         IN  IF EndSequence(c) < set.sequence
                             THEN ApplyChangeSet(x, set.sequence, set.changes) ELSE x
           N == Len(incoming.journal)
           W == CHOOSE w : w = [n \in 0 .. N |-> IF n = 0 THEN c ELSE Turn(n, w[n - 1])]
           x == [n \in {0} |-> c]
<1>1. N = 0 /\ 0 .. N = {0}
  OBVIOUS
<1>2. MergeChangeSets(c, incoming, s) = ApplyChangeSet(W[N], s, incoming.changes)
  BY DEF MergeChangeSets
<1> HIDE DEF N, Turn
<1>3. x = [n \in 0 .. N |-> IF n = 0 THEN c ELSE Turn(n, x[n - 1])]
  BY <1>1
<1> HIDE DEF x
<1>4. W = [n \in 0 .. N |-> IF n = 0 THEN c ELSE Turn(n, W[n - 1])]
  BY ZenonT(30), <1>3
<1> HIDE DEF W
<1>5. W[N] = c
  BY <1>1, <1>4
<1> QED BY <1>2, <1>5

LEMMA MergeDelta ==
    ASSUME NEW old \in Containers, NEW s \in Int, NEW new, Accepts(old, new),
           ~new.initialize, new.pending, new.journal = <<>>, new.changes # <<>>
    PROVE  MergeAndUpdateSequence(old, new, s, TRUE) =
             Merged(s, ApplyChanges(old.values, new.changes),
                    PushJournal(old.journal, [sequence |-> s, changes |-> new.changes]),
                    old.processed, TRUE)
<1> DEFINE c == [Kept(old, s, TRUE) EXCEPT !.last_modified = s, !.news = TRUE]
           yes == TRUE
           k == Kept(old, s, TRUE)
           k1 == WithLast(k, s)
           t == IF s <= old.last_modified THEN s ELSE old.last_modified
           set == [sequence |-> s, changes |-> new.changes]
           w == ApplyChanges(old.values, new.changes)
           J == PushJournal(old.journal, set)
           c1 == WithValues(c, w)
<1>1. MergeAndUpdateSequence(old, new, s, TRUE) = MergeChangeSets(c, new, s)
  BY DEF MergeAndUpdateSequence
<1>2. c = Merged(s, old.values, old.journal, old.processed, yes)
  <2>1. k = Merged(t, old.values, old.journal, old.processed, old.news)
    BY KeptIs
  <2>2. c = WithNews(k1, yes)
    BY DEF WithNews, WithLast
  <2> HIDE DEF k, t, k1, c, yes
  <2>3. k1 = Merged(s, old.values, old.journal, old.processed, old.news)
    BY ONLY <2>1, MergedExcept DEF k1
  <2> QED BY ONLY <2>2, <2>3, MergedExcept
<1>3. MergeChangeSets(c, new, s) = ApplyChangeSet(c, s, new.changes)
  <2> HIDE DEF c
  <2> QED BY MergeSetsIs
<1> HIDE DEF c, yes, w, J
<1>4. c.values = old.values /\ c.journal = old.journal
  BY ONLY <1>2 DEF Merged, Record
<1>5. ApplyChangeSet(c, s, new.changes) = WithJournal(c1, J)
  BY <1>4 DEF ApplyChangeSet, WithJournal, WithValues, w, J
<1> HIDE DEF c1
<1>6. c1 = Merged(s, w, old.journal, old.processed, yes)
  BY ONLY <1>2, MergedExcept DEF c1
<1>7. WithJournal(c1, J) = Merged(s, w, J, old.processed, yes)
  BY ONLY <1>6, MergedExcept
<1> QED BY <1>1, <1>3, <1>5, <1>7 DEF w, J, yes
LEMMA MergedFacts ==
    ASSUME NEW t \in SeqRange, NEW v \in Maps, NEW J \in Seq(Sets), NEW q \in SeqRange,
           NEW n, n \in BOOLEAN
    PROVE  /\ Merged(t, v, J, q, n) \in Containers
           /\ Merged(t, v, J, q, n).last_modified = t
           /\ Merged(t, v, J, q, n).full = Invalid
           /\ Merged(t, v, J, q, n).values = v
           /\ Merged(t, v, J, q, n).changes = <<>>
           /\ Merged(t, v, J, q, n).journal = J
           /\ ~Merged(t, v, J, q, n).pending
           /\ Merged(t, v, J, q, n).processed = q
<1> DEFINE c == Merged(t, v, J, q, n)
<1>1. /\ c.last_modified = t /\ c.full = Invalid /\ c.values = v /\ c.changes = <<>>
      /\ c.journal = J /\ ~c.pending /\ c.processed = q
  BY DEF Merged, Record
<1>2. c \in Containers
  BY ConstantFacts DEF Merged, Record, Containers
<1> QED BY <1>1, <1>2

LEMMA MergedValues ==
    ASSUME NEW t, NEW v, NEW J, NEW q, NEW n
    PROVE  Merged(t, v, J, q, n).values = v /\ Merged(t, v, J, q, n).news = n
BY DEF Merged, Record

LEMMA ContainerFacts ==
    ASSUME NEW c \in Containers
    PROVE  /\ c.last_modified \in SeqRange /\ c.full \in SeqRange /\ c.values \in Maps
           /\ c.changes \in Changes /\ c.journal \in Seq(Sets) /\ c.initialize \in BOOLEAN
           /\ c.pending \in BOOLEAN /\ c.default \in BOOLEAN /\ c.news \in BOOLEAN
           /\ c.processed \in SeqRange
BY DEF Containers

\* What may be merged into the hub's container h after n merges: an initialization,
\* the owner's edits of h, or changes of the origin.
Mergeable(new, h, n) ==
    /\ new \in Containers /\ new.processed <= n + 1
    /\ new.initialize => new.changes = <<>>
    /\ (~new.initialize /\ ~new.pending) =>
          new.journal = h.journal /\ Effect(new.changes, h.values, new.values)
    /\ (~new.initialize /\ new.pending) =>
          new.journal = <<>> /\ new.changes # <<>> /\ Valued(new.changes)
    /\ \A i \in DOMAIN new.changes : new.changes[i].sequence \in {Invalid, n + 1}

\* The values after each merge, with one more.
With(com, n, v) == [s \in 0 .. n + 1 |-> IF s = n + 1 THEN v ELSE com[s]]

LEMMA WithFacts ==
    ASSUME NEW n \in Nat, NEW com \in [0 .. n -> Maps], NEW v \in Maps
    PROVE  /\ With(com, n, v) \in [0 .. n + 1 -> Maps]
           /\ \A x \in 0 .. n : With(com, n, v)[x] = com[x]
           /\ With(com, n, v)[n + 1] = v
           /\ \A a \in 0 .. n, b \in 0 .. n :
                 Steady(With(com, n, v), a, b) <=> Steady(com, a, b)
           /\ v = com[n] => \A a \in 0 .. n : Steady(com, a, n) =>
                                  Steady(With(com, n, v), a, n + 1)
           /\ Steady(With(com, n, v), n + 1, n + 1)
<1> DEFINE w == With(com, n, v)
<1>1. /\ w \in [0 .. n + 1 -> Maps] /\ \A x \in 0 .. n : w[x] = com[x]
      /\ w[n + 1] = v
  BY DEF With
<1> HIDE DEF w
<1>2. \A a \in 0 .. n, b \in 0 .. n : Steady(w, a, b) <=> Steady(com, a, b)
  <2>1. \A a \in 0 .. n, b \in 0 .. n : b \in 0 .. n /\ \A x \in a .. b : x \in 0 .. n
    OBVIOUS
  <2> QED BY <1>1, <2>1 DEF Steady
<1>3. ASSUME v = com[n], NEW a \in 0 .. n, Steady(com, a, n) PROVE Steady(w, a, n + 1)
  <2>1. \A x \in a .. n + 1 : (x \in 0 .. n /\ x \in a .. n) \/ x = n + 1
    OBVIOUS
  <2> QED BY <1>1, <1>3, <2>1 DEF Steady
<1>4. Steady(w, n + 1, n + 1)
  <2>1. \A x \in n + 1 .. n + 1 : x = n + 1
    OBVIOUS
  <2> QED BY <2>1 DEF Steady
<1> QED BY <1>1, <1>2, <1>3, <1>4 DEF w

\* A merge into the hub's container keeps it in order.
LEMMA MergeHub ==
    ASSUME NEW h, NEW n, NEW com, HubOK(h, n, com), n < MaxSeq,
           NEW new, Mergeable(new, h, n), NEW h2,
           h2 = MergeAndUpdateSequence(h, new, n + 1, TRUE)
    PROVE  HubOK(h2, n + 1, With(com, n, h2.values))
<1> DEFINE w == With(com, n, h2.values)
           set == [sequence |-> n + 1, changes |-> new.changes]
           yes == TRUE
<1>1. /\ h \in Containers /\ n \in Nat /\ n \in 0 .. MaxSeq /\ n + 1 \in 1 .. MaxSeq
      /\ n + 1 \in SeqRange /\ n + 1 \in Int /\ n + 1 \in 0 .. MaxSeq
      /\ com \in [0 .. n -> Maps] /\ com[n] = h.values
      /\ h.processed <= n /\ Len(h.journal) <= JournalSize
      /\ JournalOK(h.journal, com, n)
  BY ConstantFacts DEF HubOK
<1>2. /\ h.last_modified \in SeqRange /\ h.values \in Maps /\ h.journal \in Seq(Sets)
      /\ h.news \in BOOLEAN /\ h.processed \in SeqRange
  BY <1>1, ContainerFacts
<1>3. new \in Containers /\ new.processed <= n + 1
  BY DEF Mergeable
<1>4. /\ new.values \in Maps /\ new.changes \in Changes /\ new.journal \in Seq(Sets)
      /\ new.processed \in SeqRange
  BY <1>3, ContainerFacts
<1>5. set \in Sets /\ set.sequence = n + 1 /\ set.changes = new.changes
  BY <1>1, <1>4 DEF Sets
<1>6. yes \in BOOLEAN
  OBVIOUS
<1> HIDE DEF set, w, yes
<1>7. ASSUME NEW t \in SeqRange, NEW v \in Maps, NEW J \in Seq(Sets), NEW q \in SeqRange,
             NEW m \in BOOLEAN, h2 = Merged(t, v, J, q, m), q <= n + 1,
             \/ t = Invalid /\ Steady(w, 0, n + 1)
             \/ t \in 1 .. n + 1 /\ Steady(w, t, n + 1),
             Len(J) <= JournalSize, JournalOK(J, w, n + 1)
      PROVE  HubOK(h2, n + 1, w)
  <2>1. /\ h2 \in Containers
        /\ h2.last_modified = t /\ h2.full = Invalid /\ h2.values = v /\ h2.changes = <<>>
        /\ h2.journal = J /\ ~h2.pending /\ h2.processed = q
    BY ONLY <1>7, MergedFacts
  <2>2. w \in [0 .. n + 1 -> Maps] /\ w[n + 1] = h2.values
    BY <1>1, <1>7, <2>1, WithFacts DEF w
  <2> QED BY <1>1, <1>7, <2>1, <2>2 DEF HubOK
<1>8. ASSUME NEW v \in Maps, h2.values = v
      PROVE  /\ \A x \in 0 .. n : w[x] = com[x]
             /\ w[n + 1] = v
             /\ v = com[n] => \A a \in 0 .. n : Steady(com, a, n) => Steady(w, a, n + 1)
             /\ Steady(w, n + 1, n + 1)
  BY <1>1, <1>8, WithFacts DEF w
<1>9. CASE ~Accepts(h, new)
  <2> DEFINE t == IF n + 1 <= h.last_modified THEN n + 1 ELSE h.last_modified
  <2>1. /\ t = h.last_modified
        /\ \/ t = Invalid /\ Steady(com, 0, n)
           \/ t \in 1 .. n /\ Steady(com, t, n)
    BY <1>1, ConstantFacts DEF HubOK
  <2>2. h2 = Merged(t, h.values, h.journal, h.processed, h.news)
    BY <1>1, <1>9, MergeRejects
  <2> HIDE DEF t
  <2>3. h2.values = h.values
    BY ONLY <2>2, MergedValues
  <2>4. JournalOK(h.journal, w, n + 1)
    BY <1>1, <1>2, <1>8, <2>3, JournalStays
  <2>5. \/ t = Invalid /\ Steady(w, 0, n + 1)
        \/ t \in 1 .. n + 1 /\ Steady(w, t, n + 1)
    <3>1. \A a \in 0 .. n : Steady(com, a, n) => Steady(w, a, n + 1)
      BY <1>1, <1>2, <1>8, <2>3
    <3>2. 0 \in 0 .. n /\ \A a \in 1 .. n : a \in 0 .. n /\ a \in 1 .. n + 1
      BY <1>1
    <3> QED BY <2>1, <3>1, <3>2
  <2>6. t \in SeqRange /\ h.processed <= n + 1
    BY <1>1, <1>2, <2>1, ConstantFacts
  <2> QED BY <1>1, <1>2, <1>7, <2>2, <2>4, <2>5, <2>6
<1>10. CASE Accepts(h, new) /\ new.initialize
  <2> DEFINE J == PushJournal(<<>>, set)
  <2>1. h2 = Merged(n + 1, new.values, J, new.processed, yes)
    BY <1>10, MergeInitializes DEF set, yes
  <2>2. h2.values = new.values
    BY ONLY <2>1, MergedValues
  <2>3. JournalOK(J, w, n + 1)
    BY <1>1, <1>5, <1>10, JournalRestarts DEF Mergeable
  <2>4. J \in Seq(Sets) /\ Len(J) <= JournalSize
    <3>1. <<>> \in Seq(Sets) /\ Len(<<>>) <= JournalSize
      BY ConstantFacts
    <3> QED BY <1>5, <3>1, PushFacts
  <2>5. n + 1 \in 1 .. n + 1 /\ Steady(w, n + 1, n + 1)
    BY <1>1, <1>4, <1>8, <2>2
  <2> HIDE DEF J
  <2> QED BY <1>1, <1>3, <1>4, <1>7, <1>6, <2>1, <2>3, <2>4, <2>5
<1>11. CASE Accepts(h, new) /\ ~new.initialize /\ ~new.pending
  <2> DEFINE J == IF new.changes = <<>> THEN new.journal ELSE PushJournal(h.journal, set)
  <2>1. h2 = Merged(n + 1, new.values, J, new.processed, yes)
    BY <1>11, MergeEdits DEF set, yes
  <2>2. h2.values = new.values
    BY ONLY <2>1, MergedValues
  <2>3. /\ \A x \in 0 .. n : w[x] = com[x]
        /\ w[n + 1] = new.values /\ Steady(w, n + 1, n + 1)
    BY <1>4, <1>8, <2>2
  <2>4. new.journal = h.journal /\ Effect(new.changes, h.values, new.values)
    BY <1>11 DEF Mergeable
  <2>5. J \in Seq(Sets) /\ Len(J) <= JournalSize /\ JournalOK(J, w, n + 1)
    <3>1. CASE new.changes = <<>>
      <4>1. \A k \in Keys : Same(h.values, new.values, k)
        BY <2>4, <3>1 DEF Effect, Untouched
      <4>2. h.values = new.values
        BY <1>2, <1>4, <4>1, SameMaps
      <4>3. JournalOK(h.journal, w, n + 1)
        BY <1>1, <1>2, <2>3, <4>2, JournalStays
      <4> QED BY <1>1, <1>2, <2>4, <3>1, <4>3
    <3>2. CASE new.changes # <<>>
      <4>1. /\ Effect(set.changes, com[n], w[n + 1])
            /\ \A p \in DOMAIN set.changes : set.changes[p].sequence \in {Invalid, n + 1}
        BY <1>1, <1>5, <2>3, <2>4 DEF Mergeable
      <4>2. JournalOK(PushJournal(h.journal, set), w, n + 1)
        BY <1>1, <1>2, <1>5, <2>3, <3>2, <4>1, JournalGrows
      <4>3. /\ PushJournal(h.journal, set) \in Seq(Sets)
            /\ Len(PushJournal(h.journal, set)) <= JournalSize
        BY <1>1, <1>2, <1>5, PushFacts
      <4> QED BY <3>2, <4>2, <4>3
    <3> QED BY <3>1, <3>2
  <2> HIDE DEF J
  <2>6. n + 1 \in 1 .. n + 1
    BY <1>1
  <2>7. /\ n + 1 \in SeqRange /\ new.values \in Maps /\ new.processed \in SeqRange
        /\ new.processed <= n + 1
    BY <1>1, <1>3, <1>4
  <2> QED BY ONLY <1>7, <1>6, <2>1, <2>3, <2>5, <2>6, <2>7 DEF w
<1>12. CASE Accepts(h, new) /\ ~new.initialize /\ new.pending
  <2> DEFINE J == PushJournal(h.journal, set)
             v == ApplyChanges(h.values, new.changes)
  <2>1. new.journal = <<>> /\ new.changes # <<>> /\ Valued(new.changes)
    BY <1>12 DEF Mergeable
  <2>2. h2 = Merged(n + 1, v, J, h.processed, yes)
    BY <1>1, <1>12, <2>1, MergeDelta DEF set, yes
  <2>3. h2.values = v
    BY ONLY <2>2, MergedValues
  <2>4. v \in Maps /\ Effect(new.changes, h.values, v)
    BY <1>2, <1>4, <2>1, ApplyEffect
  <2> HIDE DEF v
  <2>5. /\ \A x \in 0 .. n : w[x] = com[x]
        /\ w[n + 1] = v /\ Steady(w, n + 1, n + 1)
    BY <1>8, <2>3, <2>4
  <2>6. /\ Effect(set.changes, com[n], w[n + 1])
        /\ \A p \in DOMAIN set.changes : set.changes[p].sequence \in {Invalid, n + 1}
    BY <1>1, <1>5, <2>4, <2>5 DEF Mergeable
  <2>7. JournalOK(J, w, n + 1)
    BY <1>1, <1>2, <1>5, <2>1, <2>5, <2>6, JournalGrows
  <2>8. J \in Seq(Sets) /\ Len(J) <= JournalSize
    BY <1>1, <1>2, <1>5, PushFacts
  <2> HIDE DEF J
  <2>9. n + 1 \in 1 .. n + 1 /\ h.processed <= n + 1
    BY <1>1, <1>2, ConstantFacts
  <2> QED BY SMTT(30), <1>1, <1>2, <1>7, <1>6, <2>2, <2>4, <2>5, <2>7, <2>8, <2>9
<1> QED BY <1>9, <1>10, <1>11, <1>12 DEF w

-----------------------------------------------------------------------------
(* The owner's edits.                                                      *)

LEMMA ContainerRecord ==
    ASSUME NEW c \in Containers
    PROVE  c = Record(c.last_modified, c.full, c.values, c.changes, c.journal, c.initialize,
                      c.pending, c.default, c.news, c.processed)
BY SMTT(30) DEF Containers, Record

LEMMA RecordTypes ==
    ASSUME NEW t \in SeqRange, NEW f \in SeqRange, NEW v \in Maps, NEW cs \in Changes,
           NEW J \in Seq(Sets), NEW i \in BOOLEAN, NEW p \in BOOLEAN, NEW d \in BOOLEAN,
           NEW n \in BOOLEAN, NEW q \in SeqRange
    PROVE  Record(t, f, v, cs, J, i, p, d, n, q) \in Containers
BY DEF Record, Containers

LEMMA PushIs ==
    ASSUME NEW c \in Containers, NEW ch
    PROVE  PushChange(c, ch) =
             IF c.initialize
             THEN Record(ValidNonSequence, c.full, c.values, c.changes, c.journal, TRUE,
                         FALSE, FALSE, c.news, c.processed)
             ELSE IF Len(c.changes) > Cardinality(DOMAIN c.values)
             THEN Record(ValidNonSequence, c.full, c.values, <<>>, c.journal, TRUE,
                         FALSE, FALSE, c.news, c.processed)
             ELSE Record(ValidNonSequence, c.full, c.values, Append(c.changes, ch),
                         c.journal, FALSE, FALSE, FALSE, c.news, c.processed)
<1> DEFINE yes == TRUE
           no == FALSE
           d1 == [c EXCEPT !.last_modified = ValidNonSequence]
           d2 == [d1 EXCEPT !.default = no]
           d == [d2 EXCEPT !.pending = no]
           added == Append(d.changes, ch)
           e == [d EXCEPT !.changes = added]
           p1 == [d EXCEPT !.last_modified = ValidNonSequence]
           p2 == [p1 EXCEPT !.default = no]
           p3 == [p2 EXCEPT !.initialize = yes]
           p4 == [p3 EXCEPT !.pending = no]
           kept == IF d.initialize THEN d.changes ELSE <<>>
           p5 == [p4 EXCEPT !.changes = kept]
           i == c.initialize
           long == Len(c.changes) > Cardinality(DOMAIN c.values)
<1>1. PushInitializeChange(d) = p5
  BY DEF PushInitializeChange
<1>2. PushChange(c, ch) = IF i THEN d ELSE IF long THEN PushInitializeChange(d) ELSE e
  BY DEF PushChange
<1> HIDE DEF d1, d2, d, added, e, p1, p2, p3, p4, kept, p5, yes, no, long
<1>3. d = Record(ValidNonSequence, c.full, c.values, c.changes, c.journal, i, no, no,
                 c.news, c.processed)
  <2> HIDE DEF i
  <2>1. c = Record(c.last_modified, c.full, c.values, c.changes, c.journal, i,
                   c.pending, c.default, c.news, c.processed)
    BY ContainerRecord DEF i
  <2>2. d1 = Record(ValidNonSequence, c.full, c.values, c.changes, c.journal, i,
                    c.pending, c.default, c.news, c.processed)
    BY ONLY <2>1, SMTT(30) DEF d1, Record
  <2>3. d2 = Record(ValidNonSequence, c.full, c.values, c.changes, c.journal, i,
                    c.pending, no, c.news, c.processed)
    BY ONLY <2>2, SMTT(30) DEF d2, Record
  <2> QED BY ONLY <2>3, SMTT(30) DEF d, Record
<1>4. d.changes = c.changes /\ d.initialize = i
  BY ONLY <1>3 DEF Record, i
<1>5. e = Record(ValidNonSequence, c.full, c.values, Append(c.changes, ch), c.journal, i, no,
                 no, c.news, c.processed)
  <2>1. added = Append(c.changes, ch)
    BY <1>4 DEF added
  <2> HIDE DEF i
  <2>2. e = Record(ValidNonSequence, c.full, c.values, added, c.journal, i, no,
                   no, c.news, c.processed)
    BY ONLY <1>3, SMTT(30) DEF e, Record
  <2> QED BY <2>1, <2>2
<1>6. ASSUME ~i
      PROVE  p5 = Record(ValidNonSequence, c.full, c.values, <<>>, c.journal, yes, no, no,
                         c.news, c.processed)
  <2>1. kept = <<>>
    BY <1>4, <1>6 DEF kept
  <2> HIDE DEF i
  <2>2. p1 = Record(ValidNonSequence, c.full, c.values, c.changes, c.journal, i, no, no,
                    c.news, c.processed)
    BY ONLY <1>3, SMTT(30) DEF p1, Record
  <2>3. p2 = Record(ValidNonSequence, c.full, c.values, c.changes, c.journal, i, no, no,
                    c.news, c.processed)
    BY ONLY <2>2, SMTT(30) DEF p2, Record
  <2>4. p3 = Record(ValidNonSequence, c.full, c.values, c.changes, c.journal, yes, no, no,
                    c.news, c.processed)
    BY ONLY <2>3, SMTT(30) DEF p3, Record
  <2>5. p4 = Record(ValidNonSequence, c.full, c.values, c.changes, c.journal, yes, no, no,
                    c.news, c.processed)
    BY ONLY <2>4, SMTT(30) DEF p4, Record
  <2>6. p5 = Record(ValidNonSequence, c.full, c.values, kept, c.journal, yes, no, no,
                    c.news, c.processed)
    BY ONLY <2>5, SMTT(30) DEF p5, Record
  <2> QED BY <2>1, <2>6
<1>7. i \in BOOLEAN
  BY ContainerFacts
<1>8. CASE i
  <2>1. i = yes
    BY <1>7, <1>8 DEF yes
  <2> HIDE DEF i
  <2>2. PushChange(c, ch) = Record(ValidNonSequence, c.full, c.values, c.changes, c.journal,
                                   yes, no, no, c.news, c.processed)
    BY ONLY <1>2, <1>3, <1>8, <2>1
  <2> QED BY <1>8, <2>2 DEF yes, no, i
<1>9. CASE ~i /\ long
  <2> HIDE DEF i
  <2>1. PushChange(c, ch) = Record(ValidNonSequence, c.full, c.values, <<>>, c.journal,
                                   yes, no, no, c.news, c.processed)
    BY ONLY <1>1, <1>2, <1>6, <1>9
  <2> QED BY <1>9, <2>1 DEF yes, no, i, long
<1>10. CASE ~i /\ ~long
  <2>1. i = no
    BY <1>7, <1>10 DEF no
  <2> HIDE DEF i
  <2>2. PushChange(c, ch) = Record(ValidNonSequence, c.full, c.values, Append(c.changes, ch),
                                   c.journal, no, no, no, c.news, c.processed)
    BY ONLY <1>2, <1>5, <1>10, <2>1
  <2> QED BY <1>10, <2>2 DEF yes, no, i, long
<1> QED BY <1>8, <1>9, <1>10

LEMMA RecordFields ==
    ASSUME NEW t, NEW f, NEW v, NEW cs, NEW J, NEW i, NEW p, NEW d, NEW n, NEW q, NEW c,
           c = Record(t, f, v, cs, J, i, p, d, n, q)
    PROVE  /\ c.last_modified = t /\ c.full = f /\ c.values = v /\ c.changes = cs
           /\ c.journal = J /\ c.initialize = i /\ c.pending = p /\ c.default = d
           /\ c.news = n /\ c.processed = q
BY DEF Record

LEMMA EmptyEffect ==
    ASSUME NEW f
    PROVE  Effect(<<>>, f, f)
BY DEF Effect, Settles, Same

\* An owner's copy with the fields that matter.
LEMMA WorkIs ==
    ASSUME NEW w, NEW h, NEW t \in SeqRange, NEW v \in Maps, NEW cs \in Changes,
           NEW J \in Seq(Sets), NEW i \in BOOLEAN, NEW d \in BOOLEAN, NEW n \in BOOLEAN,
           NEW q \in SeqRange, NEW no \in BOOLEAN, ~no,
           w = Record(t, Invalid, v, cs, J, i, no, d, n, q),
           h.journal = J, h.processed = q, i => cs = <<>>, ~i => Effect(cs, h.values, v),
           \A x \in DOMAIN cs : cs[x].value = None /\ cs[x].sequence = Invalid
    PROVE  WorkOK(w, h)
<1>1. w = Record(t, Invalid, v, cs, J, i, no, d, n, q)
  OBVIOUS
<1>2. w \in Containers
  <2>1. Invalid \in SeqRange
    BY ConstantFacts
  <2>2. Record(t, Invalid, v, cs, J, i, no, d, n, q) \in Containers
    BY ONLY <2>1, RecordTypes
  <2> QED BY <1>1, <2>2
<1>3. /\ w.full = Invalid /\ w.values = v /\ w.changes = cs /\ w.journal = J
      /\ w.initialize = i /\ w.pending = no /\ w.processed = q
  BY ONLY <1>1, RecordFields
<1> QED BY <1>1, <1>2, <1>3 DEF WorkOK

LEMMA EditKeeps ==
    ASSUME NEW h, h.values \in Maps, NEW w, WorkOK(w, h), NEW op \in Ops, NEW k \in Keys,
           NEW v \in Values \cup {None}, op = "remove" \/ v \in Values
    PROVE  WorkOK(Push(w, op, k, v), h)
<1> DEFINE ch == [op |-> op, key |-> k, value |-> v, sequence |-> ValidNonSequence]
           ch1 == [ch EXCEPT !.value = None]
           ch2 == [ch1 EXCEPT !.sequence = Invalid]
           g == ApplyChange(w.values, ch)
           c == [w EXCEPT !.values = g]
           i == w.initialize
           d == w.default
           p == w.pending
           no == FALSE
           yes == TRUE
           n == w.news
<1>1. /\ w \in Containers /\ w.journal = h.journal /\ w.processed = h.processed
      /\ ~w.pending /\ w.full = Invalid
      /\ i => w.changes = <<>>
      /\ ~i => Effect(w.changes, h.values, w.values)
      /\ \A x \in DOMAIN w.changes : w.changes[x].value = None /\ w.changes[x].sequence = Invalid
  BY DEF WorkOK
<1>2. /\ w.values \in Maps /\ w.changes \in Changes /\ w.journal \in Seq(Sets)
      /\ i \in BOOLEAN /\ d \in BOOLEAN /\ n \in BOOLEAN /\ w.processed \in SeqRange
      /\ yes \in BOOLEAN /\ no \in BOOLEAN /\ p \in BOOLEAN
      /\ ValidNonSequence \in SeqRange /\ Invalid \in SeqRange
  BY <1>1, ContainerFacts, ConstantFacts
<1>3. /\ ch \in Change(SeqRange) /\ ch.op = op /\ ch.key = k /\ ch.value = v
  BY <1>2 DEF Change
<1>4. ch2 = [op |-> op, key |-> k, value |-> None, sequence |-> Invalid]
  <2>1. ch1 = [op |-> op, key |-> k, value |-> None, sequence |-> ValidNonSequence]
    OBVIOUS
  <2> HIDE DEF ch1
  <2> QED BY <2>1
<1>5. /\ ch2 \in Change(SeqRange) /\ ch2.op = op /\ ch2.key = k /\ ch2.value = None
      /\ ch2.sequence = Invalid
  BY <1>2, <1>4 DEF Change
<1>6. Push(w, op, k, v) = PushChange(c, ch2)
  BY DEF Push
<1> HIDE DEF ch, ch1, ch2, g, c
<1>7. g \in Maps
  BY <1>2, <1>3, ApplyChangeFacts DEF g
<1>8. c = Record(w.last_modified, Invalid, g, w.changes, w.journal, i, p, d, n, w.processed)
  <2>1. w = Record(w.last_modified, w.full, w.values, w.changes, w.journal, i, p, d,
                   n, w.processed)
    BY <1>1, ContainerRecord
  <2> HIDE DEF i, p, d, n
  <2>2. c = Record(w.last_modified, w.full, g, w.changes, w.journal, i, p, d,
                   n, w.processed)
    BY ONLY <2>1, SMTT(30) DEF c, Record
  <2>3. w.full = Invalid
    BY <1>1
  <2> QED BY ONLY <2>2, <2>3
<1>9. c \in Containers
  <2>1. w.last_modified \in SeqRange
    BY <1>1, ContainerFacts
  <2> HIDE DEF i, p, d, n
  <2> QED BY ONLY <1>2, <1>7, <1>8, <2>1, RecordTypes
<1>10. /\ c.full = Invalid /\ c.values = g /\ c.changes = w.changes /\ c.journal = w.journal
       /\ c.initialize = i /\ c.news = n /\ c.processed = w.processed
  <2> HIDE DEF i, p, d, n
  <2> QED BY ONLY <1>8, RecordFields
<1> DEFINE P(cs, j) == Record(ValidNonSequence, Invalid, g, cs, w.journal, j, no, no, n,
                              w.processed)
           long == Len(w.changes) > Cardinality(DOMAIN g)
<1>11. PushChange(c, ch2) = IF i THEN P(w.changes, yes) ELSE IF long THEN P(<<>>, yes)
                            ELSE P(Append(w.changes, ch2), no)
  BY <1>9, <1>10, PushIs
<1>12. ASSUME NEW cs \in Changes, NEW j \in BOOLEAN, j => cs = <<>>,
              ~j => Effect(cs, h.values, g),
              \A x \in DOMAIN cs : cs[x].value = None /\ cs[x].sequence = Invalid
       PROVE  WorkOK(P(cs, j), h)
  <2>1. ~no
    OBVIOUS
  <2> HIDE DEF n, no
  <2> QED BY ONLY <1>1, <1>2, <1>7, <1>12, <2>1, WorkIs
<1>13. <<>> \in Changes /\ DOMAIN <<>> = {}
  BY ConstantFacts
<1>14. yes \in BOOLEAN /\ yes /\ no \in BOOLEAN /\ ~no
  OBVIOUS
<1> HIDE DEF P, long, i, yes, no
<1>15. CASE i
  <2>1. WorkOK(P(w.changes, yes), h)
    BY <1>1, <1>2, <1>12, <1>15, <1>14
  <2> QED BY <1>6, <1>11, <1>15, <2>1
<1>16. CASE ~i /\ long
  <2>1. WorkOK(P(<<>>, yes), h)
    BY <1>12, <1>13, <1>14
  <2> QED BY <1>6, <1>11, <1>16, <2>1
<1>17. CASE ~i /\ ~long
  <2>1. Effect(Append(w.changes, ch2), h.values, g)
    BY <1>1, <1>2, <1>3, <1>5, <1>17, EffectAppend DEF g
  <2>2. Append(w.changes, ch2) \in Changes
    BY <1>2, <1>5 DEF Changes
  <2>3. \A x \in DOMAIN Append(w.changes, ch2) :
           Append(w.changes, ch2)[x].value = None /\ Append(w.changes, ch2)[x].sequence = Invalid
    <3>1. Len(w.changes) \in Nat /\ DOMAIN w.changes = 1 .. Len(w.changes)
      BY <1>2 DEF Changes
    <3>2. /\ DOMAIN Append(w.changes, ch2) = 1 .. Len(w.changes) + 1
          /\ Append(w.changes, ch2)[Len(w.changes) + 1] = ch2
          /\ \A x \in 1 .. Len(w.changes) : Append(w.changes, ch2)[x] = w.changes[x]
      BY <1>2, <1>5 DEF Changes
    <3> QED BY <1>1, <1>5, <3>1, <3>2
  <2>4. WorkOK(P(Append(w.changes, ch2), no), h)
    BY <1>12, <1>14, <2>1, <2>2, <2>3
  <2> QED BY <1>6, <1>11, <1>17, <2>4
<1> QED BY <1>15, <1>16, <1>17

LEMMA SelfOK ==
    ASSUME NEW h, NEW n, NEW com, HubOK(h, n, com)
    PROVE  WorkOK(h, h)
<1>1. h \in Containers /\ h.changes = <<>> /\ ~h.pending /\ h.full = Invalid
  BY DEF HubOK
<1>2. Effect(h.changes, h.values, h.values) /\ DOMAIN h.changes = {}
  BY <1>1, EmptyEffect
<1> QED BY <1>1, <1>2 DEF WorkOK

LEMMA MarkKeeps ==
    ASSUME NEW h, NEW n, NEW com, HubOK(h, n, com)
    PROVE  WorkOK(SetCurrentValueAsDefault(h), h)
<1> DEFINE yes == TRUE
           i == h.initialize
           p == h.pending
           d == h.default
           m == h.news
           r1 == [h EXCEPT !.default = yes]
           r2 == [r1 EXCEPT !.last_modified = Invalid]
           r3 == [r2 EXCEPT !.changes = <<>>]
<1>1. h \in Containers /\ h.changes = <<>> /\ ~p /\ h.full = Invalid
  BY DEF HubOK
<1>2. /\ h.values \in Maps /\ <<>> \in Changes /\ h.journal \in Seq(Sets)
      /\ i \in BOOLEAN /\ m \in BOOLEAN /\ p \in BOOLEAN /\ yes \in BOOLEAN
      /\ h.processed \in SeqRange /\ Invalid \in SeqRange
  BY <1>1, ContainerFacts, ConstantFacts
<1>3. SetCurrentValueAsDefault(h) = r3
  BY DEF SetCurrentValueAsDefault
<1>4. h = Record(h.last_modified, h.full, h.values, h.changes, h.journal, i, p, d, m,
                 h.processed)
  BY <1>1, ContainerRecord
<1> HIDE DEF yes, i, p, d, m, r1, r2, r3
<1>5. r3 = Record(Invalid, Invalid, h.values, <<>>, h.journal, i, p, yes, m, h.processed)
  <2>1. r1 = Record(h.last_modified, h.full, h.values, h.changes, h.journal, i, p, yes, m,
                    h.processed)
    BY ONLY <1>4, SMTT(30) DEF r1, Record
  <2>2. r2 = Record(Invalid, h.full, h.values, h.changes, h.journal, i, p, yes, m,
                    h.processed)
    BY ONLY <2>1, SMTT(30) DEF r2, Record
  <2>3. r3 = Record(Invalid, h.full, h.values, <<>>, h.journal, i, p, yes, m, h.processed)
    BY ONLY <2>2, SMTT(30) DEF r3, Record
  <2> QED BY ONLY <1>1, <2>3
<1>6. Effect(<<>>, h.values, h.values) /\ DOMAIN <<>> = {}
  BY EmptyEffect
<1>7. WorkOK(r3, h)
  BY ONLY <1>1, <1>2, <1>5, <1>6, WorkIs
<1> QED BY <1>3, <1>7

LEMMA WorkMergeable ==
    ASSUME NEW h, NEW n, NEW com, HubOK(h, n, com), NEW w, WorkOK(w, h)
    PROVE  Mergeable(w, h, n)
<1>1. n \in Nat /\ h.processed <= n /\ h.processed \in Int
  BY ContainerFacts, ConstantFacts DEF HubOK
<1> QED BY <1>1 DEF WorkOK, Mergeable

LEMMA ReceivedFields ==
    ASSUME NEW cs, NEW c, c = Received(cs)
    PROVE  /\ c.last_modified = ValidNonSequence /\ c.full = Invalid /\ c.changes = cs
           /\ c.journal = <<>> /\ ~c.initialize /\ c.pending /\ c.processed = Invalid
BY DEF Received

LEMMA SnapshotFields ==
    ASSUME NEW s, NEW v, NEW c, c = Snapshot(s, v)
    PROVE  /\ c.last_modified = ValidNonSequence /\ c.full = s /\ c.values = v
           /\ c.changes = <<>> /\ c.journal = <<>> /\ c.initialize /\ c.processed = s
BY DEF Snapshot, Record

\* Whatever stamped changes the origin sends, what is decoded may be merged.
LEMMA OriginDelta ==
    ASSUME NEW n \in Nat, n + 1 \in 1 .. MaxSeq, NEW h, NEW cs \in Changes, cs # <<>>,
           \A i \in DOMAIN cs : cs[i].sequence = n + 1
    PROVE  Mergeable(Unmarshal(MarshalChanges(Empty, cs)), h, n)
<1>1. Empty.values \in Maps
  BY ConstantFacts DEF Empty
<1>2. \A i \in DOMAIN cs : cs[i].sequence # ValidNonSequence
  BY ConstantFacts
<1>3. PICK ds \in Changes :
        /\ Unmarshal(MarshalChanges(Empty, cs)) = Received(ds) /\ Len(ds) = Len(cs)
        /\ \A i \in DOMAIN cs : Arrived(cs[i], Empty.values, ds[i])
  BY <1>1, <1>2, WireFacts
<1> DEFINE new == Received(ds)
<1>4. new \in Containers
  BY UnmarshalTypes
<1>5. /\ new.changes = ds /\ new.journal = <<>> /\ ~new.initialize /\ new.pending
      /\ new.processed = Invalid
  BY ReceivedFields
<1>6. /\ Len(cs) \in Nat /\ DOMAIN cs = 1 .. Len(cs) /\ DOMAIN ds = 1 .. Len(cs)
      /\ Len(cs) # 0 /\ ds # <<>>
  BY <1>3 DEF Changes
<1>7. \A i \in DOMAIN ds : /\ ds[i].sequence = n + 1
                           /\ ds[i].op # "remove" => ds[i].value \in Values
  BY <1>3, <1>6 DEF Arrived
<1> HIDE DEF new
<1>8. new.processed <= n + 1
  BY <1>5, ConstantFacts
<1>9. Mergeable(new, h, n)
  BY <1>4, <1>5, <1>6, <1>7, <1>8 DEF Mergeable, Valued
<1> QED BY <1>3, <1>9 DEF new

LEMMA OriginSnapshot ==
    ASSUME NEW n \in Nat, n + 1 \in 1 .. MaxSeq, NEW h, NEW v \in Maps, NEW c,
           c.last_modified = n + 1, c.values = v
    PROVE  Mergeable(Unmarshal(MarshalFull(c)), h, n)
<1> DEFINE new == Snapshot(n + 1, v)
           body == MarshalFull(c)
<1>1. body.mode = "full" /\ body.sequence = n + 1 /\ body.values = v
  BY DEF MarshalFull
<1>2. Unmarshal(body) = new
  BY <1>1, UnmarshalFull
<1>3. n + 1 \in SeqRange
  BY ConstantFacts
<1>4. new \in Containers
  BY <1>3, UnmarshalTypes
<1>5. new.changes = <<>> /\ new.initialize /\ new.processed = n + 1 /\ DOMAIN new.changes = {}
  BY SnapshotFields
<1> HIDE DEF new
<1>6. Mergeable(new, h, n)
  BY <1>4, <1>5 DEF Mergeable
<1> QED BY <1>2, <1>6 DEF new

-----------------------------------------------------------------------------
(* Messages.                                                               *)

\* What is true of a message on its way stays true when the hub merges more.
LEMMA MessageStays ==
    ASSUME NEW n \in Nat, NEW com, NEW com2, \A y \in 0 .. n : com2[y] = com[y],
           NEW m, m.seq \in 0 .. n
    PROVE  /\ SnapshotOK(m, com) => SnapshotOK(m, com2)
           /\ \A x \in Nat : DeltaOK(m, x, com) => DeltaOK(m, x, com2)
<1>1. \A a \in Nat : \A y : y \in a .. m.seq => y \in 0 .. n
  OBVIOUS
<1>2. \A a \in Nat : Steady(com, a, m.seq) => Steady(com2, a, m.seq)
  BY <1>1 DEF Steady
<1>3. com2[m.seq] = com[m.seq] /\ \A a \in 1 .. m.seq : a \in Nat
  OBVIOUS
<1>4. ASSUME SnapshotOK(m, com) PROVE SnapshotOK(m, com2)
  BY <1>2, <1>3, <1>4 DEF SnapshotOK
<1>5. ASSUME NEW x \in Nat, DeltaOK(m, x, com) PROVE DeltaOK(m, x, com2)
  BY <1>1, <1>2, <1>3, <1>5 DEF DeltaOK
<1> QED BY <1>4, <1>5

\* A snapshot of the hub, sent when there is something new.
LEMMA SendSnapshot ==
    ASSUME NEW h, NEW n, NEW com, HubOK(h, n, com), h.last_modified # Invalid, NEW m,
           m.seq = n, m.body = MarshalFull(h)
    PROVE  SnapshotOK(m, com) /\ m.body \in Bodies
<1>1. /\ h \in Containers /\ com[n] = h.values /\ h.last_modified \in 1 .. n
      /\ Steady(com, h.last_modified, n) /\ n \in 0 .. MaxSeq
  BY DEF HubOK
<1>2. h.last_modified \in SeqRange /\ h.values \in Maps
  BY <1>1, ContainerFacts
<1>3. m.body = [mode |-> "full", sequence |-> h.last_modified, values |-> h.values]
  BY DEF MarshalFull
<1>4. /\ m.body.mode = "full" /\ m.body.sequence = h.last_modified
      /\ m.body.values = h.values /\ m.body \in Bodies
  BY <1>2, <1>3 DEF Bodies
<1> DEFINE new == Unmarshal(m.body)
<1>5. new = Snapshot(h.last_modified, h.values)
  BY <1>4, UnmarshalFull
<1>6. new \in Containers
  BY <1>2, <1>5, UnmarshalTypes
<1> HIDE DEF new
<1>7. /\ new.last_modified = ValidNonSequence /\ new.full = h.last_modified
      /\ new.values = h.values /\ new.changes = <<>> /\ new.journal = <<>>
      /\ new.initialize /\ new.processed = h.last_modified
  BY ONLY <1>5, SnapshotFields
<1> USE DEF new
<1>8. SnapshotOK(m, com)
  <2>1. ValidNonSequence # Invalid
    BY ConstantFacts
  <2> HIDE DEF new
  <2>2. /\ new \in Containers /\ new.initialize /\ new.changes = <<>> /\ new.journal = <<>>
        /\ new.last_modified # Invalid /\ new.full = new.processed
        /\ new.full \in 1 .. m.seq /\ Steady(com, new.full, m.seq)
        /\ new.values = com[m.seq]
    BY <1>1, <1>6, <1>7, <2>1
  <2> QED BY <1>4, <2>2 DEF SnapshotOK, new
<1> QED BY <1>4, <1>8

\* The changes of the hub's journal since b: real merges stamped them.
LEMMA JournalStamps ==
    ASSUME NEW h, NEW n, NEW com, HubOK(h, n, com), NEW b, NEW C, C = Newer(h.journal, b)
    PROVE  C \in Changes /\ \A i \in DOMAIN C : C[i].sequence # ValidNonSequence
<1> DEFINE J == h.journal
<1>1. J \in Seq(Sets) /\ JournalOK(J, com, n)
  BY ContainerFacts DEF HubOK
<1> HIDE DEF J
<1>2. Gathered(C, J, b, Len(J))
  BY <1>1, NewerGathered DEF J
<1>3. /\ DOMAIN J = 1 .. Len(J)
      /\ \A j \in 1 .. Len(J) : J[j].sequence \in 1 .. MaxSeq
  BY <1>1, SetsOf
<1>4. \A j \in 1 .. Len(J) : \A p \in DOMAIN J[j].changes :
         J[j].changes[p].sequence \in {Invalid, J[j].sequence}
  BY <1>1, <1>3 DEF JournalOK, SetOK
<1>5. ASSUME NEW i \in DOMAIN C PROVE C[i].sequence # ValidNonSequence
  <2>1. PICK j \in 1 .. Len(J) : \E p \in DOMAIN J[j].changes : C[i] = J[j].changes[p]
    BY <1>2, <1>5 DEF Gathered
  <2>2. C[i].sequence \in {Invalid, J[j].sequence}
    BY <1>4, <2>1
  <2> QED BY <1>3, <2>2, ConstantFacts
<1> QED BY <1>2, <1>5 DEF Gathered

\* What marshal_since gives says truly what happened since the baseline.
LEMMA SendDelta ==
    ASSUME NEW h, NEW n, NEW com, HubOK(h, n, com), NEW b \in SeqRange,
           NEW x \in Nat, b <= x, MarshalSince(h, b) # MarshalFull(h), NEW m,
           m.seq = n, m.body = MarshalSince(h, b), ~m.gap => Complete(h.journal, com, b, n)
    PROVE  DeltaOK(m, x, com) /\ m.body \in Bodies /\ b # Invalid
<1> DEFINE C == Newer(h.journal, b)
           J == h.journal
           new == Unmarshal(m.body)
<1>1. /\ h \in Containers /\ com[n] = h.values /\ n \in 0 .. MaxSeq /\ n \in Nat
      /\ com \in [0 .. n -> Maps] /\ JournalOK(J, com, n) /\ h.changes = <<>>
  BY ConstantFacts DEF HubOK
<1>2. J \in Seq(Sets)
  BY <1>1, ContainerFacts
<1>3. C \in Changes /\ \A i \in DOMAIN C : C[i].sequence # ValidNonSequence
  BY JournalStamps
<1> HIDE DEF C, J
<1>4. /\ b # Invalid /\ C # <<>>
      /\ m.body \in Bodies /\ m.body.mode = "delta"
      /\ \E ds \in Changes : /\ Unmarshal(m.body) = Received(ds)
                             /\ Valued(ds) /\ Retold(C, ds, h.values)
  BY <1>1, <1>3, SinceFacts DEF C, J
<1>5. PICK ds \in Changes : new = Received(ds) /\ Valued(ds) /\ Retold(C, ds, h.values)
  BY <1>4
<1> HIDE DEF new
<1>6. /\ new \in Containers /\ ~new.initialize /\ new.pending /\ new.journal = <<>>
      /\ new.last_modified # Invalid /\ new.changes = ds
  <2>1. Received(ds) \in Containers
    BY UnmarshalTypes
  <2>2. ValidNonSequence # Invalid
    BY ConstantFacts
  <2> QED BY <1>5, <2>1, <2>2, ReceivedFields
<1>7. /\ Len(ds) = Len(C) /\ Len(C) \in Nat /\ Len(C) # 0 /\ ds # <<>>
      /\ Len(C) \in DOMAIN C /\ DOMAIN ds = DOMAIN C
      /\ ds[Len(ds)].sequence = C[Len(C)].sequence
  <2>1. /\ Len(ds) = Len(C) /\ Len(C) \in Nat /\ Len(C) # 0 /\ DOMAIN ds = DOMAIN C
        /\ Len(C) \in DOMAIN C /\ ds # <<>>
    BY <1>3, <1>4, <1>5 DEF Retold, Changes
  <2> QED BY <1>5, <2>1 DEF Retold
<1>8. /\ Settles(C, h.values) => Settles(ds, h.values)
      /\ \A f : Effect(C, f, h.values) => Effect(ds, f, h.values)
  BY <1>3, <1>5, RetoldFacts
<1>9. b \in Int /\ b \in -1 .. MaxSeq
  BY ConstantFacts
<1>10. Settles(ds, com[n])
  <2>1. Settles(C, com[n])
    BY <1>1, <1>2, <1>9, JournalSettles DEF C, J
  <2> QED BY <1>1, <1>8, <2>1
<1>11. ASSUME ~m.gap, NEW y \in x .. n PROVE Effect(ds, com[y], com[n])
  <2>1. b \in 0 .. n /\ y \in b .. n
    BY <1>1, <1>4, <1>9, <1>11, ConstantFacts
  <2>2. Complete(J, com, b, n)
    BY <1>11 DEF J
  <2>3. \A z \in b .. n : Effect(C, com[z], com[n])
    BY <1>1, <1>2, <2>1, <2>2, JournalLeads DEF C, J
  <2> QED BY <1>1, <1>8, <2>1, <2>3
<1>12. \/ ds[Len(ds)].sequence = Invalid
       \/ ds[Len(ds)].sequence \in 1 .. n /\ Steady(com, ds[Len(ds)].sequence, n)
  BY <1>1, <1>2, <1>4, <1>7, <1>9, JournalLast DEF C, J
<1>13. DeltaOK(m, x, com)
  BY <1>4, <1>5, <1>6, <1>7, <1>10, <1>11, <1>12 DEF DeltaOK, new
<1> QED BY <1>4, <1>13

-----------------------------------------------------------------------------
(* The client.                                                             *)

LEMMA ClientStays ==
    ASSUME NEW n \in Nat, NEW com, NEW com2, \A y \in 0 .. n : com2[y] = com[y],
           NEW r \in 0 .. n, NEW c, ClientOK(c, com, r)
    PROVE  ClientOK(c, com2, r)
<1>1. \A a \in 1 .. r : \A y : y \in a .. r => y \in 0 .. n
  OBVIOUS
<1>2. \A a \in 1 .. r : Steady(com2, a, r) => Steady(com, a, r)
  BY <1>1 DEF Steady
<1>3. com2[r] = com[r]
  OBVIOUS
<1> QED BY <1>2, <1>3 DEF ClientOK

\* With no journal of its own an incoming value is judged by its changes or by its
\* snapshot alone.
LEMMA AcceptsIs ==
    ASSUME NEW old \in Containers, NEW new \in Containers, new.journal = <<>>,
           new.last_modified # Invalid
    PROVE  Accepts(old, new) <=>
             \/ new.changes # <<>> /\ \/ old.processed = Invalid
                                      \/ old.processed < new.changes[Len(new.changes)].sequence
             \/ new.initialize /\ (old.processed = Invalid \/ old.processed < new.full)
<1> DEFINE J == old.journal
<1>1. J \in Seq(Sets)
  BY ContainerFacts
<1>2. EndSequence(new) = Invalid
  BY DEF EndSequence
<1>3. ~(EndSequence(old) < Invalid)
  <2>1. CASE J = <<>>
    BY <2>1, ConstantFacts DEF EndSequence
  <2>2. CASE J # <<>>
    <3>1. Len(J) \in 1 .. Len(J) /\ Last(J) = J[Len(J)]
      BY <1>1, <2>2 DEF Last
    <3>2. Last(J).sequence \in 1 .. MaxSeq
      BY <1>1, <3>1, SetsOf
    <3> QED BY <2>2, <3>2, ConstantFacts DEF EndSequence
  <2> QED BY <2>1, <2>2
<1>4. Last(new.changes) = new.changes[Len(new.changes)]
  BY DEF Last
<1> QED BY <1>2, <1>3, <1>4 DEF Accepts, HasNewValue

LEMMA LogPush ==
    ASSUME NEW J \in Seq(Sets), NEW r \in Nat, LogOK(J, r), NEW set \in Sets,
           NEW s \in Nat, set.sequence = s, r <= s
    PROVE  LogOK(PushJournal(J, set), s)
<1> DEFINE K == PushJournal(J, set)
           N == Len(J)
<1>1. /\ N \in Nat /\ DOMAIN J = 1 .. N
      /\ \A i \in 1 .. N : J[i].sequence \in Int
  BY SetsOf
<1>2. /\ N <= JournalSize
      /\ \A i \in 1 .. N : /\ J[i].sequence <= r
                           /\ i > 1 => J[i - 1].sequence <= J[i].sequence
  BY <1>1 DEF LogOK
<1>3. /\ K \in Seq(Sets) /\ Len(K) <= JournalSize
      /\ \E d \in {0, 1} :
           /\ d <= N /\ Len(K) = N - d + 1
           /\ \A i \in 1 .. N - d : K[i] = J[i + d]
           /\ K[N - d + 1] = set
  BY <1>2, PushFacts
<1> HIDE DEF K, N
<1>4. PICK d \in {0, 1} :
           /\ d <= N /\ Len(K) = N - d + 1
           /\ \A i \in 1 .. N - d : K[i] = J[i + d]
           /\ K[N - d + 1] = set
  BY <1>3
<1>5. DOMAIN K = 1 .. N - d + 1
  BY <1>3, <1>4, SetsOf
<1>6. ASSUME NEW i \in 1 .. N - d + 1
      PROVE  /\ K[i].sequence <= s
             /\ i > 1 => K[i - 1].sequence <= K[i].sequence
  <2>1. CASE i = N - d + 1
    <3>1. K[i].sequence = s
      BY <1>4, <2>1
    <3>2. ASSUME i > 1 PROVE K[i - 1].sequence <= K[i].sequence
      <4>1. i - 1 \in 1 .. N - d /\ (i - 1) + d \in 1 .. N
        BY <1>1, <1>4, <2>1, <3>2
      <4>2. K[i - 1].sequence = J[(i - 1) + d].sequence
        BY <1>4, <4>1
      <4> QED BY <1>1, <1>2, <3>1, <4>1, <4>2
    <3> QED BY <3>1, <3>2
  <2>2. CASE i # N - d + 1
    <3>1. i \in 1 .. N - d /\ i + d \in 1 .. N /\ i + d > 0
      BY <1>1, <1>4, <2>2
    <3>2. K[i].sequence = J[i + d].sequence /\ J[i + d].sequence <= r
      BY <1>2, <1>4, <3>1
    <3>3. J[i + d].sequence \in Int
      BY <1>1, <3>1
    <3>4. ASSUME i > 1 PROVE K[i - 1].sequence <= K[i].sequence
      <4>1. i - 1 \in 1 .. N - d /\ (i - 1) + d = (i + d) - 1 /\ i + d > 1
        BY <1>1, <1>4, <3>1, <3>4
      <4>2. K[i - 1].sequence = J[(i + d) - 1].sequence
        BY <1>4, <4>1
      <4> QED BY <1>2, <3>1, <3>2, <4>1, <4>2
    <3> QED BY <3>2, <3>3, <3>4
  <2> QED BY <2>1, <2>2
<1> QED BY <1>3, <1>5, <1>6 DEF LogOK, K

LEMMA SteadyFacts ==
    ASSUME NEW com, NEW a \in Int, NEW b \in Int, NEW r \in Int, NEW s \in Int,
           a <= b, b <= r, r <= s, Steady(com, a, s)
    PROVE  Steady(com, b, r) /\ com[r] = com[s]
<1>1. \A x \in b .. r : x \in a .. s
  OBVIOUS
<1>2. r \in a .. s
  OBVIOUS
<1> QED BY <1>1, <1>2 DEF Steady

\* The client's container c has the values of the merge r.
Level(c, com, r) == c.values = com[r]

\* The merge of old into c told its owner what it changed and forgot no news.
Told(old, c) == (c.values # old.values => c.news) /\ (old.news => c.news)

\* A snapshot brings the client up to date, accepted or not.
LEMMA TakesSnapshot ==
    ASSUME NEW com, NEW r \in Nat, NEW old, ClientOK(old, com, r), NEW m,
           NEW s \in 1 .. MaxSeq, m.seq = s, r <= s, SnapshotOK(m, com), com[s] \in Maps,
           NEW new, new = Unmarshal(m.body),
           NEW c, c = MergeAndUpdateSequence(old, new, s, TRUE)
    PROVE  ClientOK(c, com, s) /\ Level(c, com, s) /\ Told(old, c)
<1> DEFINE set == [sequence |-> s, changes |-> new.changes]
           yes == TRUE
           t == IF s <= old.last_modified THEN s ELSE old.last_modified
<1>1. /\ new \in Containers /\ new.initialize /\ new.changes = <<>> /\ new.journal = <<>>
      /\ new.last_modified # Invalid /\ new.full = new.processed
      /\ new.full \in 1 .. s /\ Steady(com, new.full, s) /\ new.values = com[s]
  BY DEF SnapshotOK
<1>2. /\ old \in Containers /\ LogOK(old.journal, r)
      /\ old.processed = Invalid \/ old.processed \in 1 .. r
      /\ (old.processed # Invalid /\ Steady(com, old.processed, r)) => old.values = com[r]
  BY DEF ClientOK
<1>3. /\ old.last_modified \in SeqRange /\ old.values \in Maps /\ old.journal \in Seq(Sets)
      /\ old.news \in BOOLEAN /\ old.processed \in SeqRange /\ new.values \in Maps
      /\ new.processed \in SeqRange /\ s \in Nat /\ s \in Int /\ s \in SeqRange
      /\ yes \in BOOLEAN /\ yes
  BY <1>1, <1>2, ContainerFacts, ConstantFacts
<1>4. set \in Sets /\ set.sequence = s
  BY <1>1, ContainerFacts DEF Sets
<1>5. Accepts(old, new) <=> old.processed = Invalid \/ old.processed < new.full
  BY <1>1, <1>2, AcceptsIs
<1>6. CASE Accepts(old, new)
  <2> DEFINE J == PushJournal(<<>>, set)
  <2>1. c = Merged(s, new.values, J, new.processed, yes)
    BY <1>1, <1>6, MergeInitializes
  <2>2. J \in Seq(Sets) /\ LogOK(J, s)
    <3>1. <<>> \in Seq(Sets) /\ LogOK(<<>>, r)
      BY ConstantFacts DEF LogOK
    <3>2. Len(<<>>) <= JournalSize
      BY ConstantFacts
    <3> QED BY <1>3, <1>4, <3>1, <3>2, PushFacts, LogPush
  <2> DEFINE v == new.values
             q == new.processed
  <2>3. /\ v \in Maps /\ q \in SeqRange /\ c = Merged(s, v, J, q, yes) /\ s \in SeqRange
        /\ yes \in BOOLEAN
    BY <1>3, <2>1
  <2> HIDE DEF J, yes, v, q
  <2>4. c \in Containers /\ c.values = v /\ c.journal = J /\ c.processed = q
    BY ONLY <2>3, <2>2, MergedFacts
  <2>5. c.news = yes
    BY ONLY <2>1, MergedValues
  <2>6. ClientOK(c, com, s)
    BY <1>1, <2>2, <2>4 DEF ClientOK, v, q
  <2> QED BY <1>1, <1>3, <2>4, <2>5, <2>6 DEF v, Level, Told
<1>7. CASE ~Accepts(old, new)
  <2>1. c = Merged(t, old.values, old.journal, old.processed, old.news)
    BY <1>2, <1>3, <1>7, MergeRejects
  <2>2. t \in SeqRange
    BY <1>3
  <2> DEFINE n == old.news
             v == old.values
             q == old.processed
             J == old.journal
  <2>3. /\ n \in BOOLEAN /\ v \in Maps /\ q \in SeqRange /\ J \in Seq(Sets)
        /\ c = Merged(t, v, J, q, n)
    BY <1>3, <2>1
  <2> HIDE DEF yes, t, n, v, q, J
  <2>4. c \in Containers /\ c.values = v /\ c.journal = J /\ c.processed = q
    BY ONLY <2>2, <2>3, MergedFacts
  <2>5. /\ c \in Containers /\ c.values = old.values /\ c.journal = old.journal
        /\ c.processed = old.processed
    BY <2>4 DEF v, q, J
  <2>6. c.news = n
    BY ONLY <2>3, MergedValues
  <2>7. old.processed \in new.full .. r /\ new.full \in Int /\ old.processed # Invalid
    BY <1>1, <1>2, <1>3, <1>5, <1>7, ConstantFacts
  <2>8. Steady(com, old.processed, r) /\ com[r] = com[s]
    <3> DEFINE p == old.processed
               a == new.full
    <3>1. /\ a \in Int /\ p \in Int /\ r \in Int /\ s \in Int /\ a <= p /\ p <= r /\ r <= s
          /\ Steady(com, a, s)
      BY <1>1, <1>3, <2>7
    <3> HIDE DEF p, a
    <3>2. Steady(com, p, r) /\ com[r] = com[s]
      BY ONLY <3>1, SteadyFacts, SMTT(30)
    <3> QED BY <3>2 DEF p
  <2>9. c.values = com[s]
    BY <1>2, <2>5, <2>7, <2>8
  <2>10. LogOK(old.journal, s)
    <3>1. \A i \in DOMAIN old.journal : old.journal[i].sequence \in Int
      BY <1>3, SetsOf
    <3> QED BY <1>2, <1>3, <3>1 DEF LogOK
  <2>11. old.processed = Invalid \/ old.processed \in 1 .. s
    BY <1>2, <1>3
  <2>12. ClientOK(c, com, s)
    BY <2>5, <2>9, <2>10, <2>11 DEF ClientOK
  <2> QED BY <2>5, <2>6, <2>9, <2>12 DEF n, Level, Told
<1> QED BY <1>6, <1>7

\* A delta keeps an up-to-date client up to date, unless it passes it over.
LEMMA TakesDelta ==
    ASSUME NEW com, NEW r \in Nat, NEW old, ClientOK(old, com, r), NEW m,
           NEW s \in 1 .. MaxSeq, m.seq = s, r <= s, DeltaOK(m, r, com), com[s] \in Maps,
           NEW new, new = Unmarshal(m.body),
           NEW c, c = MergeAndUpdateSequence(old, new, s, TRUE)
    PROVE  /\ ClientOK(c, com, s)
           /\ (/\ Level(old, com, r) /\ ~m.gap
               /\ \/ Accepts(old, new)
                  \/ Last(new.changes).sequence # Invalid)
                => Level(c, com, s)
           /\ Told(old, c)
<1> DEFINE cs == new.changes
           set == [sequence |-> s, changes |-> cs]
           yes == TRUE
           t == IF s <= old.last_modified THEN s ELSE old.last_modified
           last == cs[Len(cs)].sequence
<1>1. /\ new \in Containers /\ ~new.initialize /\ new.pending /\ new.journal = <<>>
      /\ new.last_modified # Invalid
      /\ cs # <<>> /\ Valued(cs) /\ Settles(cs, com[s])
      /\ ~m.gap => /\ \A y \in r .. s : Effect(cs, com[y], com[s])
                   /\ \/ last = Invalid
                      \/ last \in 1 .. s /\ Steady(com, last, s)
  BY DEF DeltaOK
<1>2. /\ old \in Containers /\ LogOK(old.journal, r)
      /\ old.processed = Invalid \/ old.processed \in 1 .. r
      /\ (old.processed # Invalid /\ Steady(com, old.processed, r)) => old.values = com[r]
  BY DEF ClientOK
<1>3. /\ old.last_modified \in SeqRange /\ old.values \in Maps /\ old.journal \in Seq(Sets)
      /\ old.news \in BOOLEAN /\ old.processed \in SeqRange /\ cs \in Changes
      /\ s \in Nat /\ s \in Int /\ s \in SeqRange /\ yes \in BOOLEAN /\ yes
  BY <1>1, <1>2, ContainerFacts, ConstantFacts
<1>4. set \in Sets /\ set.sequence = s
  BY <1>3 DEF Sets
<1>5. Accepts(old, new) <=> old.processed = Invalid \/ old.processed < last
  BY <1>1, <1>2, AcceptsIs
<1>6. Last(cs).sequence = last
  BY DEF Last
<1>7. CASE Accepts(old, new)
  <2> DEFINE J == PushJournal(old.journal, set)
             v == ApplyChanges(old.values, cs)
             q == old.processed
  <2>1. c = Merged(s, v, J, q, yes)
    BY <1>1, <1>2, <1>3, <1>7, MergeDelta
  <2>2. J \in Seq(Sets) /\ LogOK(J, s)
    <3>1. Len(old.journal) <= JournalSize
      BY <1>2 DEF LogOK
    <3> QED BY <1>2, <1>3, <1>4, <3>1, PushFacts, LogPush
  <2>3. v \in Maps /\ Effect(cs, old.values, v)
    BY <1>1, <1>3, ApplyEffect
  <2>4. q \in SeqRange /\ s \in SeqRange /\ yes \in BOOLEAN
    BY <1>3
  <2> HIDE DEF J, v, yes, cs, last, q
  <2>5. c \in Containers /\ c.values = v /\ c.journal = J /\ c.processed = q
    BY ONLY <2>4, <2>1, <2>2, <2>3, MergedFacts
  <2>6. /\ c \in Containers /\ c.values = v /\ c.journal = J
        /\ c.processed = old.processed
    BY <2>5 DEF q
  <2>7. c.news = yes
    BY ONLY <2>1, MergedValues
  <2>8. ASSUME Effect(cs, old.values, com[s]) PROVE c.values = com[s]
    <3>1. com[s] \in Maps
      OBVIOUS
    <3> QED BY <1>1, <1>3, <2>3, <2>6, <2>8, <3>1, EffectDetermines
  <2>9. ASSUME old.values = com[r], ~m.gap PROVE c.values = com[s]
    <3>1. r \in r .. s
      OBVIOUS
    <3> QED BY <1>1, <2>8, <2>9, <3>1
  <2>10. ASSUME old.processed # Invalid, Steady(com, old.processed, s)
        PROVE  c.values = com[s]
    <3> DEFINE p == old.processed
    <3>1. /\ p \in Int /\ r <= s /\ r \in Int /\ s \in Int /\ p <= p /\ p <= r
          /\ Steady(com, p, s)
      BY <1>2, <2>10
    <3> HIDE DEF p
    <3>2. Steady(com, p, r) /\ com[r] = com[s]
      BY ONLY <3>1, SteadyFacts
    <3>3. Steady(com, old.processed, r) /\ com[r] = com[s]
      BY <3>2 DEF p
    <3>4. old.values = com[s]
      BY <1>2, <2>10, <3>3
    <3>5. Effect(cs, com[s], com[s])
      BY <1>1 DEF Effect, Same
    <3> QED BY <2>8, <3>4, <3>5
  <2>11. old.processed = Invalid \/ old.processed \in 1 .. s
    BY <1>2, <1>3
  <2>12. ClientOK(c, com, s)
    BY <2>2, <2>6, <2>10, <2>11 DEF ClientOK
  <2> QED BY <1>3, <2>6, <2>7, <2>9, <2>12 DEF Level, Told
<1>8. CASE ~Accepts(old, new)
  <2>1. c = Merged(t, old.values, old.journal, old.processed, old.news)
    BY <1>2, <1>3, <1>8, MergeRejects
  <2>2. t \in SeqRange
    BY <1>3
  <2> DEFINE n == old.news
             v == old.values
             q == old.processed
             J == old.journal
  <2>3. /\ n \in BOOLEAN /\ v \in Maps /\ q \in SeqRange /\ J \in Seq(Sets)
        /\ c = Merged(t, v, J, q, n)
    BY <1>3, <2>1
  <2>4. Last(new.changes).sequence = last
    BY <1>6
  <2> HIDE DEF yes, t, n, v, q, J, cs, last
  <2>5. c \in Containers /\ c.values = v /\ c.journal = J /\ c.processed = q
    BY ONLY <2>2, <2>3, MergedFacts
  <2>6. /\ c \in Containers /\ c.values = old.values /\ c.journal = old.journal
        /\ c.processed = old.processed
    BY <2>5 DEF v, q, J
  <2>7. c.news = n
    BY ONLY <2>3, MergedValues
  <2>8. ASSUME old.values = com[r], ~m.gap, last # Invalid PROVE c.values = com[s]
    <3>1. last \in 1 .. s /\ Steady(com, last, s) /\ last \in Int
      BY <1>1, <2>8
    <3>2. old.processed \in last .. r
      BY <1>2, <1>3, <1>5, <1>8, <3>1, ConstantFacts
    <3> DEFINE p == old.processed
    <3>3. /\ last \in Int /\ p \in Int /\ r \in Int /\ s \in Int /\ last <= p /\ p <= r /\ r <= s
          /\ Steady(com, last, s)
      BY <1>3, <3>1, <3>2
    <3> HIDE DEF p
    <3>4. com[r] = com[s]
      BY ONLY <3>3, SteadyFacts
    <3> QED BY <2>6, <2>8, <3>4
  <2>9. ASSUME old.processed # Invalid, Steady(com, old.processed, s)
        PROVE  c.values = com[s]
    <3> DEFINE p == old.processed
    <3>1. /\ p \in Int /\ r <= s /\ r \in Int /\ s \in Int /\ p <= p /\ p <= r
          /\ Steady(com, p, s)
      BY <1>2, <2>9
    <3> HIDE DEF p
    <3>2. Steady(com, p, r) /\ com[r] = com[s]
      BY ONLY <3>1, SteadyFacts
    <3>3. Steady(com, old.processed, r) /\ com[r] = com[s]
      BY <3>2 DEF p
    <3> QED BY <1>2, <2>6, <2>9, <3>3
  <2>10. LogOK(old.journal, s)
    <3>1. \A i \in DOMAIN old.journal : old.journal[i].sequence \in Int
      BY <1>3, SetsOf
    <3> QED BY <1>2, <1>3, <3>1 DEF LogOK
  <2>11. old.processed = Invalid \/ old.processed \in 1 .. s
    BY <1>2, <1>3
  <2>12. ClientOK(c, com, s)
    BY <2>6, <2>9, <2>10, <2>11 DEF ClientOK
  <2> QED BY <1>8, <2>4, <2>7, <2>6, <2>8, <2>12 DEF n, Level, Told
<1> QED BY <1>7, <1>8

-----------------------------------------------------------------------------
(* The actions.                                                            *)

LEMMA NetFacts ==
    ASSUME NetInv
    PROVE  /\ Len(net) \in Nat /\ DOMAIN net = 1 .. Len(net) /\ received \in Nat
           /\ \A i \in DOMAIN net : /\ net[i] \in Messages /\ net[i].seq \in 1 .. MaxSeq
                                    /\ Before(i) \in Nat
<1>1. net \in Seq(Messages) /\ received \in Nat
  BY DEF NetInv
<1>2. \A m \in Messages : m.seq \in 1 .. MaxSeq
  BY DEF Messages
<1>3. Len(net) \in Nat /\ DOMAIN net = 1 .. Len(net) /\ \A i \in DOMAIN net : net[i] \in Messages
  BY <1>1
<1>4. ASSUME NEW i \in DOMAIN net PROVE Before(i) \in Nat
  <2>1. CASE i = 1
    BY <1>1, <2>1 DEF Before
  <2>2. CASE i # 1
    <3>1. i - 1 \in DOMAIN net
      BY <1>3, <2>2
    <3>2. net[i - 1].seq \in Nat
      BY <1>2, <1>3, <3>1
    <3> QED BY <2>2, <3>2 DEF Before
  <2> QED BY <2>1, <2>2
<1> QED BY <1>1, <1>2, <1>3, <1>4

\* What the hub does leaves the messages and the client in order.
LEMMA HubLeaves ==
    ASSUME NetInv, ClientInv, seq \in Nat, seq' \in Nat, seq <= seq',
           \A y \in 0 .. seq : committed'[y] = committed[y],
           UNCHANGED <<net, sent, clientVars>>
    PROVE  NetInv' /\ ClientInv'
<1>1. /\ Len(net) \in Nat /\ DOMAIN net = 1 .. Len(net) /\ received \in Nat
      /\ \A i \in DOMAIN net : Before(i) \in Nat
  BY NetFacts
<1>2. /\ net' = net /\ sent' = sent /\ client' = client /\ received' = received
      /\ missed' = missed /\ unseen' = unseen
  BY DEF clientVars
<1>3. received \in 0 .. seq
  BY DEF NetInv
<1>4. ASSUME NEW i \in DOMAIN net
      PROVE  /\ net'[i].seq \in received' .. seq'
             /\ \A j \in 1 .. i : net'[j].seq <= net'[i].seq
             /\ net'[i].seq <= sent'
             /\ SnapshotOK(net'[i], committed') \/ DeltaOK(net'[i], Before(i)', committed')
  <2>1. /\ net[i].seq \in received .. seq
        /\ \A j \in 1 .. i : net[j].seq <= net[i].seq
        /\ net[i].seq <= sent
        /\ SnapshotOK(net[i], committed) \/ DeltaOK(net[i], Before(i), committed)
    BY DEF NetInv
  <2>2. net[i].seq \in 0 .. seq
    BY <1>3, <2>1
  <2>3. Before(i)' = Before(i)
    BY <1>2 DEF Before
  <2>4. /\ SnapshotOK(net[i], committed) => SnapshotOK(net[i], committed')
        /\ \A x \in Nat : DeltaOK(net[i], x, committed) => DeltaOK(net[i], x, committed')
    BY <2>2, MessageStays
  <2> QED BY <1>1, <1>2, <1>3, <2>1, <2>3, <2>4
<1>5. NetInv'
  <2>1. received' \in 0 .. seq'
    BY <1>2, <1>3
  <2>2. /\ net' \in Seq(Messages) /\ Len(net') <= MaxNet
        /\ IF net' # <<>> THEN sent' = net'[Len(net')].seq
           ELSE sent' = received' \/ (sent' = Invalid /\ received' = 0)
    BY <1>2 DEF NetInv
  <2> QED BY <1>2, <1>4, <2>1, <2>2 DEF NetInv
<1>6. ClientInv'
  <2>1. ClientOK(client', committed', received')
    BY <1>2, <1>3, ClientStays DEF ClientInv
  <2>2. InSync' /\ NewsKept'
    BY <1>2, <1>3 DEF ClientInv, InSync, NewsKept
  <2> QED BY <1>2, <2>1, <2>2 DEF ClientInv
<1> QED BY <1>5, <1>6

LEMMA HubFacts ==
    ASSUME HubInv
    PROVE  /\ seq \in Nat /\ seq \in 0 .. MaxSeq /\ hub \in Containers /\ hub.values \in Maps
           /\ committed \in [0 .. seq -> Maps] /\ HubOK(hub, seq, committed)
BY ContainerFacts DEF HubInv, HubOK

LEMMA MergeStep ==
    ASSUME IndInv, NEW new, Mergeable(new, hub, seq), Merge(new)
    PROVE  IndInv'
<1>1. HubInv /\ NetInv /\ ClientInv
  BY DEF IndInv
<1>2. /\ seq \in Nat /\ seq \in 0 .. MaxSeq /\ committed \in [0 .. seq -> Maps]
      /\ HubOK(hub, seq, committed)
  BY <1>1, HubFacts
<1>3. /\ seq < MaxSeq /\ seq' = seq + 1
      /\ hub' = MergeAndUpdateSequence(hub, new, seq + 1, TRUE) /\ work' = hub'
      /\ committed' = [s \in 0 .. seq + 1 |-> IF s = seq + 1 THEN hub'.values ELSE committed[s]]
      /\ UNCHANGED <<edits, net, sent, clientVars>>
  BY DEF Merge
<1>4. committed' = With(committed, seq, hub'.values)
  BY <1>3 DEF With
<1>5. HubOK(hub', seq', committed')
  <2>1. /\ HubOK(hub, seq, committed) /\ seq < MaxSeq /\ Mergeable(new, hub, seq)
        /\ hub' = MergeAndUpdateSequence(hub, new, seq + 1, TRUE)
    BY <1>2, <1>3
  <2>2. HubOK(hub', seq + 1, With(committed, seq, hub'.values))
    BY ONLY <2>1, MergeHub
  <2> QED BY <1>3, <1>4, <2>2
<1>6. HubInv'
  BY <1>1, <1>3, <1>5 DEF HubInv
<1>7. WorkInv'
  BY <1>3, <1>5, SelfOK DEF WorkInv
<1>8. ASSUME NEW y \in 0 .. seq PROVE committed'[y] = committed[y]
  <2>1. y \in 0 .. seq + 1 /\ y # seq + 1
    BY <1>2
  <2> QED BY <1>4, <2>1 DEF With
<1>9. NetInv' /\ ClientInv'
  <2>1. seq' \in Nat /\ seq <= seq' /\ UNCHANGED <<net, sent, clientVars>>
    BY <1>2, <1>3
  <2> QED BY <1>1, <1>2, <1>8, <2>1, HubLeaves
<1> QED BY <1>6, <1>7, <1>9 DEF IndInv

\* Nothing but the owner's copy changes.
LEMMA WorkStep ==
    ASSUME IndInv, WorkOK(work', hub), edits' \in 0 .. MaxEdits,
           UNCHANGED <<hub, seq, committed, net, sent, clientVars>>
    PROVE  IndInv'
<1>1. HubInv /\ NetInv /\ ClientInv
  BY DEF IndInv
<1>2. HubInv'
  BY <1>1 DEF HubInv
<1>3. WorkInv'
  BY DEF WorkInv
<1>4. NetInv' /\ ClientInv'
  <2>1. /\ seq \in Nat /\ seq' \in Nat /\ seq <= seq'
        /\ \A y \in 0 .. seq : committed'[y] = committed[y]
    BY <1>1, HubFacts
  <2> QED BY <1>1, <2>1, HubLeaves
<1> QED BY <1>2, <1>3, <1>4 DEF IndInv

LEMMA EditStep == IndInv /\ Edit => IndInv'
<1> SUFFICES ASSUME IndInv, Edit PROVE IndInv'
  OBVIOUS
<1>1. edits' \in 0 .. MaxEdits /\ UNCHANGED <<hub, seq, committed, net, sent, clientVars>>
  BY ConstantFacts DEF Edit, IndInv, HubInv
<1>2. hub.values \in Maps /\ WorkOK(work, hub)
  BY HubFacts DEF IndInv, WorkInv
<1>3. PICK k \in Keys :
        \/ \E v \in Values :
             work' = Push(work, IF k \in DOMAIN work.values THEN "update" ELSE "add", k, v)
        \/ work' = Push(work, "remove", k, None)
  BY DEF Edit
<1>4. WorkOK(work', hub)
  <2>1. CASE work' = Push(work, "remove", k, None)
    <3>1. "remove" \in Ops /\ None \in Values \cup {None}
      BY DEF Ops
    <3> QED BY <1>2, <2>1, <3>1, EditKeeps
  <2>2. ASSUME NEW v \in Values,
               work' = Push(work, IF k \in DOMAIN work.values THEN "update" ELSE "add", k, v)
        PROVE  WorkOK(work', hub)
    <3> DEFINE op == IF k \in DOMAIN work.values THEN "update" ELSE "add"
    <3>1. op \in Ops /\ v \in Values \cup {None} /\ work' = Push(work, op, k, v)
      BY <2>2 DEF Ops
    <3> HIDE DEF op
    <3> QED BY <1>2, <2>2, <3>1, EditKeeps
  <2> QED BY <1>3, <2>1, <2>2
<1> QED BY <1>1, <1>4, WorkStep

LEMMA MarkStep == IndInv /\ MarkDefault => IndInv'
<1> SUFFICES ASSUME IndInv, MarkDefault PROVE IndInv'
  OBVIOUS
<1>1. /\ edits' \in 0 .. MaxEdits /\ UNCHANGED <<hub, seq, committed, net, sent, clientVars>>
      /\ work' = SetCurrentValueAsDefault(hub)
  BY ConstantFacts DEF MarkDefault, IndInv, HubInv
<1>2. WorkOK(work', hub)
  BY <1>1, HubFacts, MarkKeeps DEF IndInv
<1> QED BY <1>1, <1>2, WorkStep

LEMMA CommitStep == IndInv /\ Commit => IndInv'
<1> SUFFICES ASSUME IndInv, Commit PROVE IndInv'
  OBVIOUS
<1>1. Mergeable(work, hub, seq)
  BY HubFacts, WorkMergeable DEF IndInv, WorkInv
<1> QED BY <1>1, MergeStep DEF Commit

LEMMA OriginStep == IndInv /\ FromOrigin => IndInv'
<1> SUFFICES ASSUME IndInv, FromOrigin PROVE IndInv'
  OBVIOUS
<1>1. seq \in Nat
  BY HubFacts DEF IndInv
<1>2. ASSUME NEW cs \in Batches, Merge(Unmarshal(MarshalChanges(Empty, cs)))
      PROVE  IndInv'
  <2>1. seq + 1 \in 1 .. MaxSeq /\ seq + 1 \in SeqRange
    BY <1>1, <1>2, ConstantFacts DEF Merge
  <2> DEFINE stamped(op, k, v) == [op |-> op, key |-> k, value |-> v, sequence |-> seq + 1]
  <2>2. \A k \in Keys, v \in Values :
           /\ stamped("update", k, v) \in Change(SeqRange)
           /\ stamped("update", k, v).sequence = seq + 1
           /\ stamped("remove", k, None) \in Change(SeqRange)
           /\ stamped("remove", k, None).sequence = seq + 1
    BY <2>1 DEF Change, Ops
  <2>3. \/ \E k \in Keys, v \in Values : cs = <<stamped("update", k, v)>>
        \/ \E k \in Keys : cs = <<stamped("remove", k, None)>>
        \/ \E k \in Keys, k2 \in Keys, v \in Values :
              cs = <<stamped("update", k, v), stamped("remove", k2, None)>>
    BY DEF Batches
  <2> HIDE DEF stamped
  <2>4. /\ cs \in Changes /\ cs # <<>>
        /\ \A i \in DOMAIN cs : cs[i].sequence = seq + 1
    <3>1. \A k \in Keys : stamped("remove", k, None) \in Change(SeqRange)
                           /\ stamped("remove", k, None).sequence = seq + 1
      BY <2>2, ConstantFacts
    <3>2. ASSUME NEW k \in Keys, NEW v \in Values, cs = <<stamped("update", k, v)>>
          PROVE  /\ cs \in Changes /\ cs # <<>>
                 /\ \A i \in DOMAIN cs : cs[i].sequence = seq + 1
      BY <2>2, <3>2 DEF Changes
    <3>3. ASSUME NEW k \in Keys, cs = <<stamped("remove", k, None)>>
          PROVE  /\ cs \in Changes /\ cs # <<>>
                 /\ \A i \in DOMAIN cs : cs[i].sequence = seq + 1
      BY <3>1, <3>3 DEF Changes
    <3>4. ASSUME NEW k \in Keys, NEW k2 \in Keys, NEW v \in Values,
                 cs = <<stamped("update", k, v), stamped("remove", k2, None)>>
          PROVE  /\ cs \in Changes /\ cs # <<>>
                 /\ \A i \in DOMAIN cs : cs[i].sequence = seq + 1
      BY <2>2, <3>1, <3>4 DEF Changes
    <3> QED BY <2>3, <3>2, <3>3, <3>4
  <2>5. Mergeable(Unmarshal(MarshalChanges(Empty, cs)), hub, seq)
    BY <1>1, <2>1, <2>4, OriginDelta
  <2> QED BY <1>2, <2>5, MergeStep
<1>3. ASSUME NEW v \in Values,
             Merge(Unmarshal(MarshalFull([Empty EXCEPT !.values = [k \in Keys |-> v],
                                                       !.last_modified = seq + 1])))
      PROVE  IndInv'
  <2> DEFINE w == [k \in Keys |-> v]
             c == [Empty EXCEPT !.values = w, !.last_modified = seq + 1]
  <2>1. seq + 1 \in 1 .. MaxSeq
    BY <1>1, <1>3, ConstantFacts DEF Merge
  <2>2. w \in Maps
    BY MapIs
  <2> HIDE DEF w
  <2>3. c.last_modified = seq + 1 /\ c.values = w
    BY DEF Empty
  <2> HIDE DEF c
  <2>4. Mergeable(Unmarshal(MarshalFull(c)), hub, seq)
    BY <1>1, <2>1, <2>2, <2>3, OriginSnapshot
  <2> QED BY <1>3, <2>4, MergeStep DEF c, w
<1> QED BY <1>2, <1>3 DEF FromOrigin

LEMMA SendStep == IndInv /\ Send => IndInv'
<1> SUFFICES ASSUME IndInv, Send PROVE IndInv'
  OBVIOUS
<1>1. HubInv /\ WorkInv /\ NetInv /\ ClientInv
  BY DEF IndInv
<1>2. /\ seq \in Nat /\ seq \in 0 .. MaxSeq /\ hub \in Containers
      /\ HubOK(hub, seq, committed) /\ hub.changes = <<>>
      /\ hub.last_modified = Invalid \/ hub.last_modified \in 1 .. seq
  BY <1>1, HubFacts DEF HubOK
<1>3. PICK b \in {received, sent} :
        /\ IsDirty(hub, b)
        /\ \E body \in {MarshalSince(hub, b), MarshalCurrent(hub)} :
             net' = Append(net, [seq |-> seq, body |-> body,
                                 gap |-> body.mode = "delta" /\ ~Journaled(b)])
  BY DEF Send
<1>4. PICK body \in {MarshalSince(hub, b), MarshalCurrent(hub)} :
        net' = Append(net, [seq |-> seq, body |-> body,
                            gap |-> body.mode = "delta" /\ ~Journaled(b)])
  BY <1>3
<1>5. /\ Len(net) < MaxNet /\ sent' = seq
      /\ UNCHANGED <<hub, work, edits, seq, committed, client, received, missed, unseen>>
  BY DEF Send, hubVars, clientVars
<1> DEFINE m == [seq |-> seq, body |-> body, gap |-> body.mode = "delta" /\ ~Journaled(b)]
           x == IF net = <<>> THEN received ELSE sent
<1>6. PICK N \in Nat : N = Len(net)
  BY <1>1, NetFacts
<1>7. /\ N \in Nat /\ DOMAIN net = 1 .. N /\ received \in 0 .. seq /\ net \in Seq(Messages)
      /\ \A i \in DOMAIN net : net[i] \in Messages /\ net[i].seq \in 1 .. MaxSeq
      /\ \A i \in DOMAIN net :
           /\ net[i].seq \in received .. seq
           /\ \A j \in 1 .. i : net[j].seq <= net[i].seq
           /\ net[i].seq <= sent
           /\ SnapshotOK(net[i], committed) \/ DeltaOK(net[i], Before(i), committed)
      /\ IF net # <<>> THEN sent = net[N].seq
         ELSE sent = received \/ (sent = Invalid /\ received = 0)
  BY <1>1, <1>6, NetFacts DEF NetInv
<1>8. net # <<>> => N \in 1 .. N
  BY <1>7
<1>9. x \in Nat /\ x <= seq /\ b <= x /\ b \in SeqRange
  <2>1. CASE net = <<>>
    BY <1>2, <1>7, <2>1, ConstantFacts
  <2>2. CASE net # <<>>
    <3>1. sent = net[N].seq /\ net[N].seq \in received .. seq
      BY <1>7, <1>8, <2>2
    <3> QED BY <1>2, <1>7, <2>2, <3>1, ConstantFacts
  <2> QED BY <2>1, <2>2
<1>10. hub.last_modified \in 1 .. seq /\ hub.last_modified # Invalid /\ seq \in 1 .. MaxSeq
  BY <1>2, <1>3, <1>9, ConstantFacts DEF IsDirty
<1>11. m.seq = seq /\ m.body = body /\ m.gap \in BOOLEAN
       /\ (~m.gap /\ body.mode = "delta" => Journaled(b))
  OBVIOUS
<1>12. /\ SnapshotOK(m, committed) \/ DeltaOK(m, x, committed)
       /\ m.body \in Bodies
  <2>1. MarshalCurrent(hub) = MarshalFull(hub)
    BY <1>2 DEF MarshalCurrent
  <2>2. CASE body = MarshalFull(hub)
    <3> HIDE DEF m
    <3> QED BY <1>2, <1>10, <1>11, <2>2, SendSnapshot
  <2>3. CASE body # MarshalFull(hub)
    <3>1. body = MarshalSince(hub, b)
      BY <1>4, <2>1, <2>3
    <3>2. /\ MarshalSince(hub, b).mode = "delta"
      BY <2>3, <3>1 DEF MarshalSince, MarshalChanges
    <3>3. ~m.gap => Complete(hub.journal, committed, b, seq)
      BY <1>11, <3>1, <3>2 DEF Journaled, Complete
    <3> HIDE DEF m, x
    <3> QED BY <1>2, <1>9, <1>11, <2>3, <3>1, <3>3, SendDelta
  <2> QED BY <2>2, <2>3
<1>13. m \in Messages
  BY <1>10, <1>11, <1>12 DEF Messages
<1>14. net' = Append(net, m)
  BY <1>4
<1> HIDE DEF m, x
<1>15. /\ net' \in Seq(Messages) /\ Len(net') = N + 1 /\ DOMAIN net' = 1 .. N + 1
       /\ \A i \in 1 .. N : net'[i] = net[i]
       /\ net'[N + 1] = m
  BY <1>6, <1>7, <1>13, <1>14
<1>16. /\ \A i \in 1 .. N : Before(i)' = Before(i)
       /\ Before(N + 1)' = x
  <2>1. ASSUME NEW i \in 1 .. N PROVE Before(i)' = Before(i)
    <3>1. i # 1 => i - 1 \in 1 .. N
      BY <1>7
    <3> QED BY <1>5, <1>15, <3>1 DEF Before
  <2>2. Before(N + 1)' = x
    <3>1. CASE net = <<>>
      <4>1. N = 0
        BY <1>6, <3>1
      <4> QED BY <1>5, <3>1, <4>1 DEF Before, x
    <3>2. CASE net # <<>>
      <4>1. N \in 1 .. N /\ N + 1 # 1 /\ (N + 1) - 1 = N
        BY <1>7, <1>8, <3>2
      <4> QED BY <1>7, <1>15, <3>2, <4>1 DEF Before, x
    <3> QED BY <3>1, <3>2
  <2> QED BY <2>1, <2>2
<1>17. ASSUME NEW i \in DOMAIN net'
       PROVE  /\ net'[i].seq \in received' .. seq'
              /\ \A j \in 1 .. i : net'[j].seq <= net'[i].seq
              /\ net'[i].seq <= sent'
              /\ SnapshotOK(net'[i], committed') \/ DeltaOK(net'[i], Before(i)', committed')
  <2>1. CASE i \in 1 .. N
    <3>1. net'[i] = net[i] /\ Before(i)' = Before(i) /\ \A j \in 1 .. i : net'[j] = net[j]
      BY <1>7, <1>15, <1>16, <2>1
    <3>2. /\ net[i].seq \in received .. seq
          /\ \A j \in 1 .. i : net[j].seq <= net[i].seq
          /\ SnapshotOK(net[i], committed) \/ DeltaOK(net[i], Before(i), committed)
      BY <1>7, <2>1
    <3> QED BY <1>2, <1>5, <3>1, <3>2
  <2>2. CASE i = N + 1
    <3>1. net'[i] = m /\ net'[i].seq = seq /\ Before(i)' = x
      BY <1>11, <1>15, <1>16, <2>2
    <3>2. ASSUME NEW j \in 1 .. i PROVE net'[j].seq <= seq
      <4>1. j \in 1 .. N \/ j = N + 1
        BY <1>7, <2>2
      <4> QED BY SMTT(40), <1>2, <1>7, <1>11, <1>15, <4>1
    <3> QED BY <1>2, <1>5, <1>7, <1>12, <3>1, <3>2
  <2> QED BY <1>7, <1>15, <2>1, <2>2
<1>18. NetInv'
  <2>1. Len(net') <= MaxNet /\ net' # <<>> /\ sent' = net'[Len(net')].seq
    <3>1. MaxNet \in Nat
      BY SyncAssumption
    <3> QED BY <1>5, <1>7, <1>11, <1>15, <1>6, <3>1
  <2> QED BY <1>5, <1>7, <1>15, <1>17, <2>1 DEF NetInv
<1>19. HubInv' /\ WorkInv' /\ ClientInv'
  BY <1>1, <1>5 DEF HubInv, WorkInv, ClientInv, InSync, NewsKept
<1> QED BY SMTT(40), <1>18, <1>19 DEF IndInv

LEMMA DeliverStep == IndInv /\ Deliver => IndInv'
<1> SUFFICES ASSUME IndInv, Deliver PROVE IndInv'
  OBVIOUS
<1>1. HubInv /\ WorkInv /\ NetInv /\ ClientInv
  BY DEF IndInv
<1>2. seq \in Nat /\ committed \in [0 .. seq -> Maps]
  BY <1>1, HubFacts
<1>3. PICK m : m = Head(net)
  OBVIOUS
<1>4. PICK N \in Nat : N = Len(net)
  BY <1>1, NetFacts
<1>5. /\ client' = MergeAndUpdateSequence(client, Unmarshal(m.body), m.seq, TRUE)
      /\ received' = m.seq
      /\ unseen' = (unseen \/ client'.values # client.values)
      /\ missed' = /\ m.body.mode = "delta"
                   /\ \/ missed \/ m.gap
                      \/ /\ ~Accepts(client, Unmarshal(m.body))
                         /\ Last(Unmarshal(m.body).changes).sequence = Invalid
      /\ net # <<>> /\ net' = Tail(net)
      /\ UNCHANGED <<hub, work, edits, seq, committed, sent>>
  BY <1>3 DEF Deliver, hubVars
<1>6. /\ DOMAIN net = 1 .. N /\ received \in 0 .. seq /\ received \in Nat
      /\ net \in Seq(Messages) /\ Len(net) <= MaxNet
      /\ \A i \in 1 .. N : net[i] \in Messages /\ net[i].seq \in 1 .. MaxSeq
      /\ \A i \in 1 .. N :
           /\ net[i].seq \in received .. seq
           /\ \A j \in 1 .. i : net[j].seq <= net[i].seq
           /\ net[i].seq <= sent
           /\ SnapshotOK(net[i], committed) \/ DeltaOK(net[i], Before(i), committed)
      /\ sent = net[N].seq
  BY <1>1, <1>4, <1>5, NetFacts DEF NetInv
<1>7. 1 \in 1 .. N /\ N \in 1 .. N /\ m = net[1]
  BY <1>3, <1>4, <1>5, <1>6
<1>8. /\ m.seq \in 1 .. MaxSeq /\ m.seq \in received .. seq /\ m.seq \in 0 .. seq
      /\ SnapshotOK(m, committed) \/ DeltaOK(m, received, committed)
      /\ committed[m.seq] \in Maps
  <2>1. /\ m.seq \in 1 .. MaxSeq /\ m.seq \in received .. seq
        /\ SnapshotOK(m, committed) \/ DeltaOK(m, received, committed)
    BY <1>6, <1>7 DEF Before
  <2>2. m.seq \in 0 .. seq
    BY <1>6, <2>1
  <2> QED BY <1>2, <2>1, <2>2
<1>9. /\ net' \in Seq(Messages) /\ Len(net') = N - 1 /\ DOMAIN net' = 1 .. N - 1
      /\ \A i \in 1 .. N - 1 : net'[i] = net[i + 1]
  <2>1. Tail(net) \in Seq(Messages) /\ Len(Tail(net)) = N - 1
    BY <1>4, <1>5, <1>6
  <2>2. \A i \in 1 .. N - 1 : Tail(net)[i] = net[i + 1]
    BY <1>4, <1>5, <1>6
  <2>3. DOMAIN Tail(net) = 1 .. N - 1
    BY <2>1
  <2> QED BY <1>5, <2>1, <2>2, <2>3
<1>10. ASSUME NEW i \in 1 .. N - 1 PROVE Before(i)' = Before(i + 1)
  <2>1. i + 1 # 1 /\ (i + 1) - 1 = i
    OBVIOUS
  <2>2. CASE i = 1
    BY <1>5, <1>7, <2>1, <2>2 DEF Before
  <2>3. CASE i # 1
    <3>1. i - 1 \in 1 .. N - 1 /\ (i - 1) + 1 = i
      BY <1>4, <2>3
    <3>2. net'[i - 1] = net[i]
      BY <1>9, <3>1
    <3> QED BY <2>1, <2>3, <3>2 DEF Before
  <2> QED BY <2>2, <2>3
<1>11. ASSUME NEW i \in 1 .. N - 1
       PROVE  /\ net'[i].seq \in received' .. seq'
              /\ \A j \in 1 .. i : net'[j].seq <= net'[i].seq
              /\ net'[i].seq <= sent'
              /\ SnapshotOK(net'[i], committed') \/ DeltaOK(net'[i], Before(i)', committed')
  <2>1. i + 1 \in 1 .. N /\ 1 \in 1 .. i + 1
    BY <1>4
  <2>2. /\ net[i + 1].seq \in received .. seq
        /\ \A j \in 1 .. i + 1 : net[j].seq <= net[i + 1].seq
        /\ net[i + 1].seq <= sent
        /\ SnapshotOK(net[i + 1], committed) \/ DeltaOK(net[i + 1], Before(i + 1), committed)
    BY <1>6, <2>1
  <2>3. net'[i] = net[i + 1] /\ Before(i)' = Before(i + 1)
    BY <1>9, <1>10
  <2>4. net'[i].seq \in received' .. seq'
    BY <1>2, <1>5, <1>6, <1>7, <1>8, <2>1, <2>2, <2>3
  <2>5. ASSUME NEW j \in 1 .. i PROVE net'[j].seq <= net'[i].seq
    <3>1. j + 1 \in 1 .. i + 1 /\ j \in 1 .. N - 1
      BY <1>4
    <3>2. net'[j] = net[j + 1]
      BY <1>9, <3>1
    <3> QED BY <2>2, <2>3, <3>1, <3>2
  <2> QED BY <1>5, <2>2, <2>3, <2>4, <2>5
<1>12. NetInv'
  <2>1. IF net' # <<>> THEN sent' = net'[Len(net')].seq
        ELSE sent' = received' \/ (sent' = Invalid /\ received' = 0)
    <3>1. CASE N = 1
      <4>1. net' = <<>>
        BY <1>9, <3>1
      <4> QED BY <1>5, <1>6, <1>7, <3>1, <4>1
    <3>2. CASE N # 1
      <4>1. N - 1 \in 1 .. N - 1 /\ (N - 1) + 1 = N
        BY <1>4, <1>7, <3>2
      <4>2. net'[Len(net')] = net[N] /\ net' # <<>>
        BY <1>9, <4>1
      <4> QED BY <1>5, <1>6, <4>2
    <3> QED BY <3>1, <3>2
  <2>2. Len(net') <= MaxNet
    <3>1. MaxNet \in Nat
      BY SyncAssumption
    <3> QED BY <1>4, <1>6, <1>9, <3>1
  <2>3. received' \in 0 .. seq'
    BY <1>5, <1>8
  <2> QED BY <1>9, <1>11, <2>1, <2>2, <2>3 DEF NetInv
<1>13. HubInv' /\ WorkInv'
  BY <1>1, <1>5 DEF HubInv, WorkInv
<1>14. /\ ClientOK(client, committed, received) /\ missed \in BOOLEAN /\ unseen \in BOOLEAN
       /\ ~missed => client.values = committed[received]
       /\ unseen => client.news
  BY <1>1 DEF ClientInv, InSync, NewsKept
<1>15. /\ ClientOK(client', committed, m.seq)
       /\ ~missed' => client'.values = committed[m.seq]
       /\ client'.values # client.values => client'.news
       /\ client.news => client'.news
  <2>1. received <= m.seq
    BY <1>6, <1>8
  <2>2. PICK c : c = client
    OBVIOUS
  <2>3. PICK d : d = client'
    OBVIOUS
  <2>4. PICK com : com = committed
    OBVIOUS
  <2>5. PICK r \in Nat : r = received
    BY <1>6
  <2>6. PICK s \in 1 .. MaxSeq : m.seq = s
    BY <1>8
  <2>7. PICK new : new = Unmarshal(m.body)
    OBVIOUS
  <2>8. /\ ClientOK(c, com, r) /\ r \in Nat /\ s \in 1 .. MaxSeq /\ m.seq = s /\ r <= s
        /\ com[s] \in Maps /\ new = Unmarshal(m.body)
        /\ d = MergeAndUpdateSequence(c, new, s, TRUE)
    BY <1>5, <1>8, <1>14, <2>1, <2>2, <2>3, <2>4, <2>5, <2>6, <2>7
  <2>9. CASE SnapshotOK(m, committed)
    <3>1. SnapshotOK(m, com)
      BY <2>9, <2>4
    <3>2. ClientOK(d, com, s) /\ Level(d, com, s) /\ Told(c, d)
      BY ONLY <2>8, <3>1, TakesSnapshot, ZenonT(30)
    <3> QED BY <2>2, <2>3, <2>4, <2>6, <3>2 DEF Level, Told
  <2>10. CASE DeltaOK(m, received, committed)
    <3>1. m.body.mode = "delta" /\ DeltaOK(m, r, com)
      BY <2>10, <2>4, <2>5 DEF DeltaOK
    <3>2. /\ ClientOK(d, com, s)
          /\ (/\ Level(c, com, r) /\ ~m.gap
              /\ Accepts(c, new) \/ Last(new.changes).sequence # Invalid)
               => Level(d, com, s)
          /\ Told(c, d)
      BY ONLY <2>8, <3>1, TakesDelta, ZenonT(30)
    <3>3. missed' = (missed \/ m.gap \/ (~Accepts(c, new) /\ Last(new.changes).sequence = Invalid))
      BY <1>5, <2>2, <2>7, <3>1
    <3>4. ~missed' => d.values = com[s]
      BY <1>14, <2>2, <2>4, <2>5, <3>2, <3>3 DEF Level
    <3> QED BY <2>2, <2>3, <2>4, <2>6, <3>2, <3>4 DEF Level, Told
  <2> QED BY <1>8, <2>9, <2>10
<1>16. ClientInv'
  <2>1. ClientOK(client', committed', received')
    BY <1>5, <1>15
  <2>2. InSync'
    BY <1>5, <1>15 DEF InSync
  <2>3. NewsKept'
    BY <1>5, <1>14, <1>15 DEF NewsKept
  <2>4. missed' \in BOOLEAN /\ unseen' \in BOOLEAN
    BY <1>5
  <2> QED BY <2>1, <2>2, <2>3, <2>4 DEF ClientInv
<1> QED BY <1>12, <1>13, <1>16 DEF IndInv

\* The owner's news are a flag of the client's container.
LEMMA TakesNews ==
    ASSUME NEW c \in Containers, NEW d, d = ResetHasNewNetworkData(c)
    PROVE  /\ d \in Containers /\ d.values = c.values /\ d.journal = c.journal
           /\ d.processed = c.processed
<1> DEFINE no == FALSE
           i == c.initialize
           p == c.pending
           f == c.default
           n == c.news
           r1 == [c EXCEPT !.news = no]
<1>1. /\ c.last_modified \in SeqRange /\ c.full \in SeqRange /\ c.values \in Maps
      /\ c.changes \in Changes /\ c.journal \in Seq(Sets) /\ i \in BOOLEAN /\ p \in BOOLEAN
      /\ f \in BOOLEAN /\ no \in BOOLEAN /\ c.processed \in SeqRange
  BY ContainerFacts
<1>2. d = r1
  BY DEF ResetHasNewNetworkData
<1>3. c = Record(c.last_modified, c.full, c.values, c.changes, c.journal, i, p, f, n,
                 c.processed)
  BY ContainerRecord
<1> HIDE DEF no, i, p, f, n, r1
<1>4. r1 = Record(c.last_modified, c.full, c.values, c.changes, c.journal, i, p, f, no,
                  c.processed)
  BY ONLY <1>3, SMTT(30) DEF r1, Record
<1> DEFINE t == c.last_modified
           u == c.full
           v == c.values
           cs == c.changes
           J == c.journal
           q == c.processed
<1>5. d = Record(t, u, v, cs, J, i, p, f, no, q)
  BY <1>2, <1>4
<1>6. /\ t \in SeqRange /\ u \in SeqRange /\ v \in Maps /\ cs \in Changes /\ J \in Seq(Sets)
      /\ q \in SeqRange
  BY <1>1
<1> HIDE DEF t, u, v, cs, J, q
<1>7. Record(t, u, v, cs, J, i, p, f, no, q) \in Containers
  BY ONLY <1>1, <1>6, RecordTypes
<1>8. d.values = v /\ d.journal = J /\ d.processed = q
  BY ONLY <1>5, RecordFields
<1> QED BY <1>5, <1>7, <1>8 DEF v, J, q

LEMMA TakeNewsStep == IndInv /\ TakeNews => IndInv'
<1> SUFFICES ASSUME IndInv, TakeNews PROVE IndInv'
  OBVIOUS
<1>1. HubInv /\ WorkInv /\ NetInv /\ ClientInv
  BY DEF IndInv
<1>2. /\ client' = ResetHasNewNetworkData(client) /\ unseen' = FALSE
      /\ UNCHANGED <<hub, work, edits, seq, committed, net, sent, received, missed>>
  BY DEF TakeNews, hubVars
<1>3. client \in Containers
  BY <1>1 DEF ClientInv, ClientOK
<1>4. /\ client' \in Containers /\ client'.values = client.values
      /\ client'.journal = client.journal /\ client'.processed = client.processed
  BY <1>2, <1>3, TakesNews
<1>5. HubInv' /\ WorkInv'
  BY <1>1, <1>2 DEF HubInv, WorkInv
<1>6. NetInv'
  BY <1>1, <1>2 DEF NetInv, Before
<1>7. ClientInv'
  BY <1>1, <1>2, <1>4 DEF ClientInv, ClientOK, InSync, NewsKept
<1> QED BY <1>5, <1>6, <1>7 DEF IndInv

LEMMA StutterStep == IndInv /\ UNCHANGED vars => IndInv'
<1> SUFFICES ASSUME IndInv, UNCHANGED vars PROVE IndInv'
  OBVIOUS
<1> USE DEF vars
<1>1. HubInv' /\ WorkInv'
  BY DEF IndInv, HubInv, WorkInv
<1>2. NetInv'
  BY DEF IndInv, NetInv, Before
<1>3. ClientInv'
  BY DEF IndInv, ClientInv, InSync, NewsKept
<1> QED BY <1>1, <1>2, <1>3 DEF IndInv

LEMMA NextInv == IndInv /\ [Next]_vars => IndInv'
BY EditStep, MarkStep, CommitStep, OriginStep, SendStep, DeliverStep, TakeNewsStep, StutterStep
   DEF Next

LEMMA InitInv == Init => IndInv
<1> SUFFICES ASSUME Init PROVE IndInv
  OBVIOUS
<1> DEFINE com == [s \in {0} |-> NoValues]
<1>1. /\ hub = Empty /\ work = Empty /\ client = Empty /\ edits = 0 /\ seq = 0
      /\ committed = com /\ net = <<>> /\ sent = Invalid /\ received = 0
      /\ missed = FALSE /\ unseen = FALSE
  BY DEF Init
<1>2. /\ Empty \in Containers /\ Empty.values = NoValues /\ Empty.changes = <<>>
      /\ ~Empty.pending /\ Empty.full = Invalid /\ Empty.processed = Invalid
      /\ Empty.last_modified = Invalid /\ Empty.journal = <<>> /\ ~Empty.news
  BY ConstantFacts DEF Empty, Containers
<1>3. com \in [0 .. 0 -> Maps] /\ com[0] = NoValues
  <2>1. 0 .. 0 = {0} /\ NoValues \in Maps
    BY ConstantFacts
  <2> QED BY <2>1
<1>4. Steady(com, 0, 0)
  BY DEF Steady
<1>5. HubOK(Empty, 0, com)
  <2>1. Len(<<>>) <= JournalSize /\ JournalOK(<<>>, com, 0)
    BY ConstantFacts DEF JournalOK
  <2>2. 0 \in 0 .. MaxSeq /\ Invalid <= 0
    BY ConstantFacts
  <2> QED BY <1>2, <1>3, <1>4, <2>1, <2>2 DEF HubOK
<1>6. HubInv
  BY <1>1, <1>5, ConstantFacts DEF HubInv
<1>7. WorkInv
  BY <1>1, <1>5, SelfOK DEF WorkInv
<1>8. NetInv
  <2>1. <<>> \in Seq(Messages) /\ Len(<<>>) = 0 /\ DOMAIN <<>> = {}
    OBVIOUS
  <2>2. 0 <= MaxNet
    BY SyncAssumption
  <2> QED BY <1>1, <2>1, <2>2 DEF NetInv
<1>9. ClientInv
  <2>1. LogOK(<<>>, 0)
    BY ConstantFacts DEF LogOK
  <2>2. ClientOK(Empty, com, 0)
    BY <1>2, <2>1 DEF ClientOK
  <2> QED BY <1>1, <1>2, <1>3, <2>2 DEF ClientInv, InSync, NewsKept
<1> QED BY <1>6, <1>7, <1>8, <1>9 DEF IndInv

LEMMA Invariance == Spec => []IndInv
BY InitInv, NextInv, PTL DEF Spec

-----------------------------------------------------------------------------
(* The theorems.                                                           *)

LEMMA JournaledIs == \A b : Journaled(b) <=> Complete(hub.journal, committed, b, seq)
BY DEF Journaled, Complete

\* A client of a clean hub with nothing on its way has merged all that changed.
LEMMA CleanIsCurrent ==
    ASSUME IndInv, net = <<>>, ~IsDirty(hub, sent), ~missed
    PROVE  client.values = hub.values
<1>1. /\ seq \in Nat /\ committed[seq] = hub.values
      /\ \/ hub.last_modified = Invalid /\ Steady(committed, 0, seq)
         \/ hub.last_modified \in 1 .. seq /\ Steady(committed, hub.last_modified, seq)
  BY HubFacts DEF IndInv, HubInv, HubOK
<1>2. received \in 0 .. seq /\ (sent = received \/ (sent = Invalid /\ received = 0))
  BY DEF IndInv, NetInv
<1>3. client.values = committed[received]
  BY DEF IndInv, ClientInv, InSync
<1>4. committed[received] = committed[seq]
  <2>1. CASE hub.last_modified = Invalid /\ Steady(committed, 0, seq)
    BY <1>1, <1>2, <2>1 DEF Steady
  <2>2. CASE hub.last_modified \in 1 .. seq /\ Steady(committed, hub.last_modified, seq)
    <3>1. hub.last_modified <= sent
      BY <1>1, <1>2, <2>2, ConstantFacts DEF IsDirty
    <3>2. received \in hub.last_modified .. seq
      BY <1>1, <1>2, <2>2, <3>1, ConstantFacts
    <3> QED BY <2>2, <3>2 DEF Steady
  <2> QED BY <1>1, <2>1, <2>2
<1> QED BY <1>1, <1>3, <1>4

\* A delta since a baseline the journal reaches yields the hub's values.
LEMMA DeltaYields ==
    ASSUME IndInv, NEW b \in 0 .. seq, Journaled(b), MarshalSince(hub, b).mode = "delta"
    PROVE  ApplyChanges(committed[b], Unmarshal(MarshalSince(hub, b)).changes) = hub.values
<1> DEFINE m == [seq |-> seq, body |-> MarshalSince(hub, b), gap |-> FALSE]
           cs == Unmarshal(MarshalSince(hub, b)).changes
<1>1. /\ seq \in Nat /\ seq \in 0 .. MaxSeq /\ committed[seq] = hub.values
      /\ committed \in [0 .. seq -> Maps] /\ HubOK(hub, seq, committed)
      /\ hub.values \in Maps
  BY HubFacts DEF IndInv, HubInv, HubOK
<1>2. b \in SeqRange /\ b \in Nat /\ b <= b /\ b \in b .. seq
  BY <1>1, ConstantFacts
<1>3. MarshalSince(hub, b) # MarshalFull(hub)
  BY DEF MarshalFull
<1>4. Complete(hub.journal, committed, b, seq)
  BY JournaledIs
<1>5. m.seq = seq /\ m.body = MarshalSince(hub, b) /\ ~m.gap
  OBVIOUS
<1> HIDE DEF m
<1>6. DeltaOK(m, b, committed)
  BY <1>1, <1>2, <1>3, <1>4, <1>5, SendDelta
<1>7. /\ Unmarshal(m.body) \in Containers /\ Valued(Unmarshal(m.body).changes)
      /\ \A y \in b .. m.seq : Effect(Unmarshal(m.body).changes, committed[y], committed[m.seq])
  BY <1>5, <1>6 DEF DeltaOK
<1>8. cs \in Changes
  BY <1>5, <1>7, ContainerFacts
<1>9. Valued(cs) /\ Effect(cs, committed[b], hub.values)
  BY <1>1, <1>2, <1>5, <1>7
<1>10. committed[b] \in Maps
  BY <1>1
<1> HIDE DEF cs
<1>11. /\ ApplyChanges(committed[b], cs) \in Maps
       /\ Effect(cs, committed[b], ApplyChanges(committed[b], cs))
  BY <1>8, <1>9, <1>10, ApplyEffect
<1>12. ApplyChanges(committed[b], cs) = hub.values
  BY <1>1, <1>8, <1>9, <1>11, EffectDetermines
<1> QED BY <1>12 DEF cs

\* A container with a bounded journal in order is well-formed.
LEMMA WellFormed ==
    ASSUME NEW c \in Containers, Len(c.journal) <= JournalSize,
           \A i \in DOMAIN c.journal : i > 1 => c.journal[i - 1].sequence <= c.journal[i].sequence
    PROVE  IsContainer(c)
<1>1. /\ c.last_modified \in SeqRange /\ c.full \in SeqRange /\ c.values \in Maps
      /\ c.changes \in Changes /\ c.journal \in Seq(Sets) /\ c.initialize \in BOOLEAN
      /\ c.pending \in BOOLEAN /\ c.default \in BOOLEAN /\ c.news \in BOOLEAN
      /\ c.processed \in SeqRange
  BY ContainerFacts
<1>2. \A cs \in Changes : \A i \in DOMAIN cs : cs[i] \in Change(SeqRange)
  BY DEF Changes
<1>3. \A i \in DOMAIN c.journal :
        c.journal[i].sequence \in 1 .. MaxSeq /\ c.journal[i].changes \in Changes
  BY <1>1, SetsOf
<1> QED BY <1>1, <1>2, <1>3 DEF IsContainer

\* Types, with the limit that push_journal keeps on the change journal of hub,
\* owner and client and the order in which merges push to it: at most JournalSize
\* change sets, with sequence numbers that never decrease.
THEOREM TypeCorrect == Spec => []TypeOK
<1>1. IndInv => TypeOK
  <2> SUFFICES ASSUME IndInv PROVE TypeOK
    OBVIOUS
  <2>1. /\ seq \in Nat /\ seq \in 0 .. MaxSeq /\ edits \in 0 .. MaxEdits
        /\ hub \in Containers /\ Len(hub.journal) <= JournalSize
        /\ JournalOK(hub.journal, committed, seq) /\ committed \in [0 .. seq -> Maps]
        /\ hub.journal \in Seq(Sets)
    BY HubFacts, ContainerFacts DEF IndInv, HubInv, HubOK
  <2>2. work \in Containers /\ work.journal = hub.journal
    BY DEF IndInv, WorkInv, WorkOK
  <2>3. /\ client \in Containers /\ LogOK(client.journal, received)
        /\ missed \in BOOLEAN /\ unseen \in BOOLEAN
    BY DEF IndInv, ClientInv, ClientOK
  <2>4. \A i \in DOMAIN hub.journal :
          i > 1 => hub.journal[i - 1].sequence <= hub.journal[i].sequence
    <3>1. DOMAIN hub.journal = 1 .. Len(hub.journal) /\ Len(hub.journal) \in Nat
      BY <2>1
    <3>2. \A i \in DOMAIN hub.journal : hub.journal[i].sequence \in Int
      BY <2>1, SetsOf
    <3> SUFFICES ASSUME NEW i \in DOMAIN hub.journal, i > 1
                 PROVE  hub.journal[i - 1].sequence <= hub.journal[i].sequence
      OBVIOUS
    <3>3. i \in Int /\ i - 1 \in DOMAIN hub.journal /\ i - 1 < i
      BY <3>1
    <3>4. hub.journal[i - 1].sequence < hub.journal[i].sequence
      BY <2>1, <3>3 DEF JournalOK
    <3> QED BY <3>2, <3>3, <3>4
  <2>5. IsContainer(hub) /\ IsContainer(work)
    BY <2>1, <2>2, <2>4, WellFormed
  <2>6. IsContainer(client)
    BY <2>3, WellFormed DEF LogOK
  <2>7. Len(net) <= MaxNet /\ received \in 0 .. seq
    BY DEF IndInv, NetInv
  <2>8. sent \in Invalid .. seq
    <3>1. CASE net = <<>>
      BY <2>1, <2>7, <3>1, ConstantFacts DEF IndInv, NetInv
    <3>2. CASE net # <<>>
      <4>1. Len(net) \in DOMAIN net
        BY <3>2, NetFacts DEF IndInv, NetInv
      <4>2. sent = net[Len(net)].seq /\ net[Len(net)].seq \in received .. seq
        BY <3>2, <4>1 DEF IndInv, NetInv
      <4> QED BY <2>1, <2>7, <4>2, ConstantFacts
    <3> QED BY <3>1, <3>2
  <2> QED BY <2>1, <2>3, <2>5, <2>6, <2>7, <2>8 DEF TypeOK
<1> QED BY <1>1, Invariance, PTL

\* What summarize_changes and marshal_since give for a baseline that the journal
\* still reaches leads a container from its values at the baseline to the hub's
\* values of now, though later changes of a key overtake earlier ones, key-only
\* changes are told with the values of now and the wire leaves out repeated sequence
\* numbers; and is_dirty never calls the hub clean for a client that lags.
THEOREM DeltasAreComplete == Spec => []DeltaComplete
<1>1. IndInv => DeltaComplete
  BY CleanIsCurrent, DeltaYields DEF DeltaComplete
<1> QED BY <1>1, Invariance, PTL

\* merge_and_update_sequence leaves the client with the hub's values at the sequence
\* number of the last message it merged, whichever baselines the deltas were cut
\* from, however the journals overflowed in between and whatever the sequence test
\* rejected, unless it was passed over (see Deliver).
THEOREM ClientKeepsUp == Spec => []InSync
<1>1. IndInv => InSync
  BY DEF IndInv, ClientInv
<1> QED BY <1>1, Invariance, PTL

\* has_new_network_data is set as long as the client's owner has not taken the news
\* of a change: neither a snapshot or delta that is rejected nor one that changes
\* nothing takes it back.
THEOREM NewsStay == Spec => []NewsKept
<1>1. IndInv => NewsKept
  BY DEF IndInv, ClientInv
<1> QED BY <1>1, Invariance, PTL

=============================================================================
