----------------------------- MODULE StateProofs -----------------------------
(***************************************************************************)
(* Proofs about StateSync, for every kind of state, every set of clients,  *)
(* of samples and of declared defaults, and every number of edits, merges  *)
(* and messages: the stamps say what changed, the deltas cut against them  *)
(* bring the client what the hub said, nothing is disclosed, no news are   *)
(* lost, a peer that is sent the whole state mirrors it, and the value a   *)
(* field was set to is what is read back out of its slots.                 *)
(***************************************************************************)
EXTENDS StateSync, Residues, SequenceTheorems, NaturalsInduction

-----------------------------------------------------------------------------
(* The types.                                                              *)

Stamps == Invalid .. MaxSeq
SlotOf(V) == [value : V \cup {None}, last_modified : Stamps, default : V \cup {None},
              news : BOOLEAN]
Whitelists == [Clients -> Nat]

States(k) ==
    [fields : [StateSlots(k) -> SlotOf(Int)], lists : [Groups -> SlotOf(Whitelists)],
     bits : [Groups -> SlotOf(SUBSET StateSlots(k))],
     sequence : Stamps, last_modified : Stamps,
     merged : BOOLEAN, news : BOOLEAN, detected : BOOLEAN]

Contents(k) == UNION {[D -> Int] : D \in SUBSET StateSlots(k)}
Messages(k) == [seq : 0 .. MaxSeq, contents : Contents(k), groups : SUBSET Groups]
Bodies(k) ==
    [contents : Contents(k),
     attributes : [lists : UNION {[D -> Whitelists] : D \in SUBSET Groups},
                   bits : UNION {[D -> SUBSET StateSlots(k)] : D \in SUBSET Groups}],
     metadata : [fields : [StateSlots(k) -> Stamps],
                 lists : [Groups -> 0 .. MaxSeq]]]

Sayings(k) ==
    [values : [StateSlots(k) -> Int], asked : Nat, decoded : [StateSlots(k) -> Int],
     visible : [Clients -> SUBSET Groups]]

\* A whitelist is present, has a stamp and no default.
ListsOK(state) ==
    \A g \in Groups : /\ state.lists[g].value # None /\ state.lists[g].default = None
                      /\ IsValid(state.lists[g].last_modified)

\* A slot that has a stamp has a value; the slots of the compressed field have
\* no default.
SlotsOK(state, k) ==
    /\ \A s \in StateSlots(k) :
          IsValid(state.fields[s].last_modified) => state.fields[s].value # None
    /\ \A s \in Slots(k) : state.fields[s].default = None

Types ==
    /\ kind \in Kinds /\ fixed \in BOOLEAN /\ audience \in {"client", "peer"}
    /\ {hub, work, client, peer} \subseteq States(kind)
    /\ \A state \in {hub, work, client, peer} : ListsOK(state)
    /\ \A state \in {hub, work, client} : SlotsOK(state, kind)
    /\ seq \in 0 .. MaxSeq /\ edits \in 0 .. MaxEdits
    /\ committed \in [0 .. seq -> Sayings(kind)] /\ asked \in Nat
    /\ acked \in [Groups -> Invalid .. seq] /\ unseen \in BOOLEAN
    /\ net \in Seq(Messages(kind)) /\ Len(net) <= MaxNet
    /\ wire = << >> \/ \E w \in [seq : 0 .. MaxSeq, body : Bodies(kind)] : wire = << w >>

-----------------------------------------------------------------------------
(* The inductive invariant.                                                *)

Says(said, state, k) ==
    /\ said.values = Reading(state, k)
    /\ said.decoded = Saying(state, k, 0).decoded
    /\ said.visible = Saying(state, k, 0).visible

\* The stamps of the hub's state tell what changed since when.
HubInv ==
    /\ Says(committed[0], NewState(kind), kind) /\ Says(committed[seq], hub, kind)
    /\ \A s \in StateSlots(kind) : \A t \in 0 .. seq :
          hub.fields[s].last_modified <= t =>
              /\ committed[t].values[s] = committed[seq].values[s]
              /\ committed[t].decoded[s] = committed[seq].decoded[s]
    /\ \A g \in Groups : \A t \in 0 .. seq : hub.lists[g].last_modified <= t =>
          \A c \in Clients : g \in committed[t].visible[c] <=> g \in committed[seq].visible[c]
    /\ seq > 0 =>
          /\ \A s \in StateSlots(kind) : hub.fields[s].last_modified <= hub.last_modified
          /\ \A g \in Groups : hub.lists[g].last_modified <= hub.last_modified

\* Where the client stands with a group.
Base(g) == IF IsValid(acked[g]) THEN acked[g] ELSE 0

\* The client, group by group, whether it acknowledged something or not.
ClientInv ==
    /\ \A g \in Groups : \A s \in GroupSlots(kind, g) \ Declared :
          Reading(client, kind)[s] = committed[Base(g)].decoded[s]
    /\ \A s \in StateSlots(kind) : client.fields[s].last_modified <= seq
    /\ NotDisclosed

\* Unseen changes are still marked on some slot.
NewsInv ==
    /\ unseen => \E s \in StateSlots(kind) : client.fields[s].news
    /\ (\E s \in StateSlots(kind) : client.fields[s].news) => client.news

\* A message says what the hub said when it was cut, of the groups the client
\* could see then; what it leaves out of them has not changed since any state
\* the client can be in when the message arrives.
MessageInv(m) ==
    /\ m.seq <= seq /\ \A g \in Groups : acked[g] <= m.seq
    /\ m.groups = committed[m.seq].visible[Client]
    /\ \A s \in DOMAIN m.contents :
          /\ \E g \in m.groups : s \in GroupSlots(kind, g)
          /\ m.contents[s] = committed[m.seq].decoded[s]
    /\ \A g \in m.groups : \A s \in GroupSlots(kind, g) \ DOMAIN m.contents :
          \A t \in Base(g) .. m.seq : committed[t].decoded[s] = committed[m.seq].decoded[s]

NetInv ==
    /\ \A i \in 1 .. Len(net) : MessageInv(net[i])
    /\ \A i, j \in 1 .. Len(net) : i < j => net[i].seq <= net[j].seq

\* A slot that never changed is as in a new state at the hub, at the peer and
\* in the message between them; of the others the message has what the hub said.
WireInv(w) ==
    /\ w.seq <= seq
    /\ \A s \in DOMAIN w.body.contents :
          /\ w.body.contents[s] = committed[w.seq].decoded[s]
          /\ IsValid(w.body.metadata.fields[s]) /\ IsValid(hub.fields[s].last_modified)
    /\ \A s \in StateSlots(kind) \ DOMAIN w.body.contents :
          /\ ~IsValid(w.body.metadata.fields[s])
          /\ Reading(peer, kind)[s] = committed[0].decoded[s]
          /\ committed[w.seq].decoded[s] = committed[0].decoded[s]
    /\ DOMAIN w.body.attributes.lists = Groups
    /\ \A g \in Groups : \A c \in Clients :
          (\/ w.body.attributes.lists[g] = NoClients
           \/ w.body.attributes.lists[g][c] > 0) <=> g \in committed[w.seq].visible[c]

\* The hub sends the peer its whole state, never a delta.
PeerInv ==
    ~PeerDeltas =>
        /\ peer.merged => peer.sequence \in 0 .. seq
        /\ PeerMirrors
        /\ \A s \in StateSlots(kind) :
              ~IsValid(hub.fields[s].last_modified) =>
                  Reading(peer, kind)[s] = committed[0].decoded[s]
        /\ \A i \in 1 .. Len(wire) : WireInv(wire[i])

IndInv == Types /\ HubInv /\ ClientInv /\ NewsInv /\ NetInv /\ PeerInv

-----------------------------------------------------------------------------
(* Slots.                                                                  *)

LEMMA ConstantFacts ==
    /\ ByteSize \in Nat \ {0, 1} /\ DeltaRange \in Nat \ {0} /\ Rollover \in Nat \ {0}
    /\ None \notin Int /\ None \notin Clients /\ None \notin Whitelists
    /\ MaxSeq \in Nat /\ MaxEdits \in Nat /\ MaxNet \in Nat
    /\ Samples \subseteq Nat /\ Client \in Clients /\ Declared \subseteq Plain
    /\ FieldKinds \subseteq Kinds /\ FixedKinds \subseteq Kinds /\ PeerDeltas \in BOOLEAN
BY FieldAssumption, StateAssumption, SyncAssumption DEF Whitelists

LEMMA StampFacts ==
    /\ Invalid \in Stamps /\ ValidNonSequence \in Stamps /\ Stamps \subseteq Int
    /\ 0 .. MaxSeq \subseteq Stamps /\ Invalid \notin 0 .. MaxSeq
    /\ \A t \in Stamps : IsValid(t) <=> t \in 0 .. MaxSeq
BY ConstantFacts DEF Stamps, Invalid, ValidNonSequence, IsValid

LEMMA KindFacts ==
    ASSUME NEW k \in Kinds
    PROVE  /\ Slots(k) \subseteq 0 .. 3 /\ {0, 1} \subseteq Slots(k)
           /\ Slots(k) \cap Plain = {}
           /\ \A s \in StateSlots(k) : Zero(k, s) \in Int
           /\ \A g \in Groups : GroupSlots(k, g) \subseteq StateSlots(k)
           /\ \A s \in StateSlots(k) : \E g \in Groups : s \in GroupSlots(k, g)
           /\ \A g, h \in Groups : \A s : s \in GroupSlots(k, g) /\ s \in GroupSlots(k, h) => g = h
<1>1. Slots(k) = 0 .. 1 \/ Slots(k) = 0 .. 2 \/ Slots(k) = 0 .. 3
  BY DEF Kinds, Slots
<1>2. Slots(k) \subseteq 0 .. 3 /\ {0, 1} \subseteq Slots(k) /\ Slots(k) \cap Plain = {}
  BY <1>1 DEF Plain, Name, Secret
<1>3. \A s \in StateSlots(k) : Zero(k, s) \in Int
  BY ConstantFacts DEF Zero, SlotZero, ZeroSentinel
<1>4. \A g \in Groups : GroupSlots(k, g) \subseteq StateSlots(k)
  BY DEF Groups, GroupSlots, StateSlots, Plain
<1>5. \A s \in StateSlots(k) : \E g \in Groups : s \in GroupSlots(k, g)
  BY DEF Groups, GroupSlots, StateSlots, Plain
<1>6. \A g, h \in Groups : \A s : s \in GroupSlots(k, g) /\ s \in GroupSlots(k, h) => g = h
  BY <1>2 DEF Groups, GroupSlots, Name, Secret
<1> QED BY <1>2, <1>3, <1>4, <1>5, <1>6

\* merge_and_update_sequence of a slot: it is taken and stamped, or it is kept
\* with its stamp and says what it said.  What is set or at its default wins.
\* What changed is news, and news stay.
Wins(new) == IsDefaultValue(new) \/ IsValid(new.last_modified)
Taken(r, new, n) == r.last_modified = n /\ r.value = new.value /\ Wins(new)
Kept(r, old, new, zero) ==
    /\ r.last_modified = old.last_modified /\ Effective(r, zero) = Effective(old, zero)
    /\ r.value = old.value \/ (IsDefaultValue(new) /\ r.value = new.value)
Merged(r, old, new, n, zero) ==
    /\ Taken(r, new, n) \/ Kept(r, old, new, zero)
    /\ Wins(new) => Effective(r, zero) = Effective(new, zero)
    /\ ~Wins(new) => Effective(r, zero) = Effective(old, zero)
    /\ r.default = IF old.default # None THEN old.default ELSE new.default
Noted(r, old, zero) == (old.news \/ Effective(r, zero) # Effective(old, zero)) => r.news

LEMMA MergeFieldFacts ==
    ASSUME NEW V, None \notin V, NEW zero \in V, NEW old \in SlotOf(V), NEW new \in SlotOf(V),
           NEW n \in 0 .. MaxSeq
    PROVE  /\ MergeField(old, new, n, TRUE, zero) \in SlotOf(V)
           /\ Merged(MergeField(old, new, n, TRUE, zero), old, new, n, zero)
           /\ Noted(MergeField(old, new, n, TRUE, zero), old, zero)
<1> USE DEF Merged, Noted, Wins, Taken, Kept
<1> DEFINE equal == Effective(old, zero) = Effective(new, zero)
           default == IF old.default # None THEN old.default ELSE new.default
           kept == [old EXCEPT !.default = default, !.news = TRUE /\ old.news]
           taken == [value |-> new.value, last_modified |-> n, default |-> default,
                     news |-> TRUE]
           r == MergeField(old, new, n, TRUE, zero)
<1>1. default \in V \cup {None} /\ n \in Stamps
  BY StampFacts DEF SlotOf
<1>2. kept \in SlotOf(V) /\ kept.value = old.value /\ kept.last_modified = old.last_modified
      /\ kept.news = old.news /\ kept.default = default
  BY <1>1 DEF SlotOf
<1>3. taken \in SlotOf(V) /\ taken.value = new.value /\ taken.last_modified = n /\ taken.news
      /\ taken.default = default
  BY <1>1 DEF SlotOf
<1>4. CASE IsDefaultValue(new) /\ equal
  <2>1. r = [kept EXCEPT !.value = new.value,
                         !.news = old.news /\ (TRUE \/ IsValid(old.last_modified))]
    BY <1>4 DEF MergeField
  <2>2. new.value \in V
    BY <1>4 DEF IsDefaultValue, SlotOf
  <2>3. r \in SlotOf(V) /\ r.value = new.value /\ r.last_modified = old.last_modified
        /\ r.news = old.news /\ r.default = default
    BY <1>2, <2>1, <2>2 DEF SlotOf
  <2>4. Effective(r, zero) = Effective(new, zero)
    BY <2>3 DEF Effective
  <2> QED BY <1>4, <2>3, <2>4
<1>5. CASE IsDefaultValue(new) /\ ~equal
  <2>1. r = taken
    BY <1>5 DEF MergeField
  <2>2. Effective(r, zero) = Effective(new, zero)
    BY <1>3, <2>1 DEF Effective
  <2> QED BY <1>3, <1>5, <2>1, <2>2
<1>6. CASE ~IsDefaultValue(new) /\ IsValid(new.last_modified)
  <2>1. r = IF IsValid(old.last_modified) /\ equal THEN kept ELSE taken
    BY <1>6 DEF MergeField
  <2>2. Effective(r, zero) = Effective(new, zero)
    BY <1>2, <1>3, <2>1 DEF Effective
  <2>3. r = kept => Effective(r, zero) = Effective(old, zero)
    BY <1>2 DEF Effective
  <2> QED BY <1>2, <1>3, <1>6, <2>1, <2>2, <2>3
<1>7. CASE ~IsDefaultValue(new) /\ ~IsValid(new.last_modified)
  <2>1. r = kept
    BY <1>7 DEF MergeField
  <2>2. Effective(r, zero) = Effective(old, zero)
    BY <1>2, <2>1 DEF Effective
  <2> QED BY <1>2, <1>7, <2>1, <2>2
<1> QED BY <1>4, <1>5, <1>6, <1>7

\* The same without a word on None, for the default bits.
LEMMA MergeFieldType ==
    ASSUME NEW V, NEW zero \in V, NEW old \in SlotOf(V), NEW new \in SlotOf(V), NEW n \in Stamps
    PROVE  MergeField(old, new, n, TRUE, zero) \in SlotOf(V)
<1> DEFINE default == IF old.default # None THEN old.default ELSE new.default
           kept == [old EXCEPT !.default = default, !.news = TRUE /\ old.news]
           taken == [value |-> new.value, last_modified |-> n, default |-> default,
                     news |-> TRUE]
           mixed == [kept EXCEPT !.value = new.value,
                                 !.news = old.news /\ (TRUE \/ IsValid(old.last_modified))]
<1>1. default \in V \cup {None}
  BY DEF SlotOf
<1>2. kept \in SlotOf(V) /\ taken \in SlotOf(V)
  BY <1>1 DEF SlotOf
<1>3. mixed \in SlotOf(V)
  BY ZenonT(60), <1>2 DEF SlotOf
<1>4. MergeField(old, new, n, TRUE, zero) \in {kept, taken, mixed}
  BY DEF MergeField
<1> QED BY <1>2, <1>3, <1>4

\* A non-empty set of stamps has a latest one.
LEMMA LatestStamp ==
    ASSUME NEW T \in SUBSET Stamps, T # {}
    PROVE  \E t \in T : \A u \in T : u <= t
<1> DEFINE D == {MaxSeq - t : t \in T}
<1>1. \A t \in T : t \in Int /\ t <= MaxSeq
  BY ConstantFacts DEF Stamps, Invalid
<1>2. D \in SUBSET Nat /\ D # {}
  BY <1>1, ConstantFacts
<1> HIDE DEF D
<1>3. PICK x \in D : \A y \in D : ~(<<y, x>> \in OpToRel(<, Nat))
  BY <1>2, NatLessThanWellFounded, WFMin
<1>4. \A y \in D : ~(y < x) /\ y \in Nat /\ x \in Nat
  BY <1>2, <1>3 DEF OpToRel
<1>5. PICK t \in T : x = MaxSeq - t
  BY DEF D
<1>6. ASSUME NEW u \in T PROVE u <= t
  <2>1. MaxSeq - u \in D
    BY DEF D
  <2> QED BY <1>1, <1>4, <1>5, <2>1, ConstantFacts
<1> QED BY <1>6

-----------------------------------------------------------------------------
(* States.                                                                 *)

LEMMA NewStateFacts ==
    ASSUME NEW k \in Kinds
    PROVE  /\ NewState(k) \in States(k) /\ ListsOK(NewState(k)) /\ SlotsOK(NewState(k), k)
           /\ \A s \in StateSlots(k) :
                 /\ ~IsValid(NewState(k).fields[s].last_modified)
                 /\ ~NewState(k).fields[s].news
                 /\ s \notin Declared => NewState(k).fields[s] = Unset
           /\ \A g \in Groups : NewState(k).lists[g] = Some(NoClients)
           /\ NewState(k).sequence = Invalid /\ ~NewState(k).merged
<1>1. NoClients \in Whitelists /\ {} \in SUBSET StateSlots(k)
  BY DEF NoClients, Whitelists
<1>2. Unset \in SlotOf(Int) /\ SetDefaultValue(Unset, DefaultValue) \in SlotOf(Int)
      /\ ~IsValid(Unset.last_modified) /\ Unset.default = None /\ ~Unset.news
      /\ ~IsValid(SetDefaultValue(Unset, DefaultValue).last_modified)
      /\ ~SetDefaultValue(Unset, DefaultValue).news
  <2>1. Unset = [value |-> None, last_modified |-> Invalid, default |-> None, news |-> FALSE]
    BY DEF Unset
  <2>2. ~IsValid(Unset.last_modified)
    BY <2>1 DEF IsValid
  <2>3. SetDefaultValue(Unset, DefaultValue) =
            [value |-> 1, last_modified |-> Invalid, default |-> 1, news |-> FALSE]
    BY <2>1, <2>2 DEF SetDefaultValue, DefaultValue
  <2>4. Invalid \in Stamps
    BY StampFacts
  <2>5. ~Unset.news /\ ~SetDefaultValue(Unset, DefaultValue).news
    <3>1. Unset.news = FALSE
      BY <2>1
    <3>2. SetDefaultValue(Unset, DefaultValue).news = FALSE
      BY <2>3
    <3> QED BY <3>1, <3>2
  <2>6. Unset.default = None /\ SetDefaultValue(Unset, DefaultValue).last_modified = Invalid
    BY <2>1, <2>3
  <2>7. Unset \in SlotOf(Int)
    BY <2>1, <2>4 DEF SlotOf
  <2>8. SetDefaultValue(Unset, DefaultValue) \in SlotOf(Int)
    BY <2>3, <2>4 DEF SlotOf
  <2> QED BY <2>2, <2>5, <2>6, <2>7, <2>8 DEF IsValid
<1>3. /\ Some(NoClients) \in SlotOf(Whitelists) /\ Some(NoClients).value = NoClients
      /\ Some(NoClients).default = None /\ Some(NoClients).last_modified = 0
  BY <1>1, StampFacts DEF Some, Unset, SlotOf, ValidNonSequence
<1>4. Some({}) \in SlotOf(SUBSET StateSlots(k))
  BY <1>1, StampFacts DEF Some, Unset, SlotOf, ValidNonSequence
<1> DEFINE F == [s \in StateSlots(k) |->
                   IF s \in Declared THEN SetDefaultValue(Unset, DefaultValue) ELSE Unset]
           L == [g \in Groups |-> Some(NoClients)]
           B == [g \in Groups |-> Some({})]
           N == NewState(k)
<1>5. F \in [StateSlots(k) -> SlotOf(Int)] /\ L \in [Groups -> SlotOf(Whitelists)]
      /\ B \in [Groups -> SlotOf(SUBSET StateSlots(k))]
  BY <1>2, <1>3, <1>4
<1> HIDE DEF F, L, B
<1>6. N \in States(k) /\ N.fields = F /\ N.lists = L /\ N.sequence = Invalid /\ ~N.merged
  <2>1. N = [fields |-> F, lists |-> L, bits |-> B, sequence |-> Invalid,
             last_modified |-> Invalid, merged |-> FALSE, news |-> FALSE, detected |-> FALSE]
    BY DEF NewState, F, L, B
  <2>2. Invalid \in Stamps /\ FALSE \in BOOLEAN
    BY StampFacts
  <2> HIDE DEF N
  <2>3. N \in States(k)
    BY <1>5, <2>1, <2>2 DEF States
  <2>4. N.fields = F /\ N.lists = L /\ N.sequence = Invalid
    BY <2>1
  <2>5. N.merged = FALSE
    BY <2>1
  <2> QED BY <2>3, <2>4, <2>5
<1>7. ListsOK(N)
  BY <1>1, <1>3, <1>6, ConstantFacts DEF ListsOK, L, IsValid, Invalid
<1>8. SlotsOK(N, k)
  <2>1. \A s \in Slots(k) : s \in StateSlots(k) /\ s \notin Declared
    BY KindFacts, ConstantFacts DEF StateSlots
  <2> QED BY <1>2, <1>6, <2>1 DEF SlotsOK, F
<1> QED BY <1>2, <1>6, <1>7, <1>8 DEF F, L

\* merge_and_update_sequence and finish_merge of a state.
LEMMA MergeStateFacts ==
    ASSUME NEW k \in Kinds, NEW old \in States(k), NEW new \in States(k), NEW n \in 0 .. MaxSeq
    PROVE  LET r == MergeState(old, new, k, n, TRUE)
           IN  /\ r \in States(k) /\ r.merged /\ r.sequence = n
               /\ \A s \in StateSlots(k) :
                     /\ r.fields[s] = MergeField(old.fields[s], new.fields[s], n, TRUE, Zero(k, s))
                     /\ r.fields[s].last_modified <= r.last_modified
                     /\ r.fields[s].news => r.news
               /\ \A g \in Groups :
                     /\ r.lists[g] = MergeField(old.lists[g], new.lists[g], n, TRUE, NoClients)
                     /\ r.lists[g].last_modified <= r.last_modified
<1> DEFINE fields == [s \in StateSlots(k) |->
                        MergeField(old.fields[s], new.fields[s], n, TRUE, Zero(k, s))]
           lists == [g \in Groups |->
                        MergeField(old.lists[g], new.lists[g], n, TRUE, NoClients)]
           bits == [g \in Groups |-> MergeField(old.bits[g], new.bits[g], n, TRUE, {})]
           parts == {fields[s] : s \in StateSlots(k)}
                    \cup {[f EXCEPT !.value = None] : f \in {lists[g] : g \in Groups}}
                    \cup {[f EXCEPT !.value = None] : f \in {bits[g] : g \in Groups}}
           stamps == {f.last_modified : f \in parts}
           latest == CHOOSE t \in stamps : \A u \in stamps : u <= t
           news == \E f \in parts : f.news
           detected == \/ \E s \in StateSlots(k) :
                            Detected(old.fields[s], new.fields[s], Zero(k, s))
                       \/ \E g \in Groups : \/ Detected(old.lists[g], new.lists[g], NoClients)
                                            \/ Detected(old.bits[g], new.bits[g], {})
           r == MergeState(old, new, k, n, TRUE)
<1>1. r = [fields |-> fields, lists |-> lists, bits |-> bits, sequence |-> n,
           last_modified |-> latest, merged |-> TRUE, news |-> news, detected |-> detected]
  BY DEF MergeState
<1>2. /\ old.fields \in [StateSlots(k) -> SlotOf(Int)] /\ new.fields \in [StateSlots(k) -> SlotOf(Int)]
      /\ old.lists \in [Groups -> SlotOf(Whitelists)] /\ new.lists \in [Groups -> SlotOf(Whitelists)]
      /\ old.bits \in [Groups -> SlotOf(SUBSET StateSlots(k))]
      /\ new.bits \in [Groups -> SlotOf(SUBSET StateSlots(k))]
  BY DEF States
<1>3. fields \in [StateSlots(k) -> SlotOf(Int)]
  <2>1. \A s \in StateSlots(k) :
           MergeField(old.fields[s], new.fields[s], n, TRUE, Zero(k, s)) \in SlotOf(Int)
    BY <1>2, KindFacts, ConstantFacts, MergeFieldFacts
  <2> QED BY <2>1
<1>4. lists \in [Groups -> SlotOf(Whitelists)]
  <2>1. NoClients \in Whitelists
    BY DEF NoClients, Whitelists
  <2>2. \A g \in Groups :
           MergeField(old.lists[g], new.lists[g], n, TRUE, NoClients) \in SlotOf(Whitelists)
    BY <1>2, <2>1, ConstantFacts, MergeFieldFacts
  <2> QED BY <2>2
<1>5. bits \in [Groups -> SlotOf(SUBSET StateSlots(k))]
  <2>1. \A g \in Groups : MergeField(old.bits[g], new.bits[g], n, TRUE, {})
                             \in SlotOf(SUBSET StateSlots(k))
    <3> SUFFICES ASSUME NEW g \in Groups
                 PROVE  MergeField(old.bits[g], new.bits[g], n, TRUE, {})
                             \in SlotOf(SUBSET StateSlots(k))
      OBVIOUS
    <3>1. {} \in SUBSET StateSlots(k) /\ n \in Stamps
      BY StampFacts
    <3> QED BY <1>2, <3>1, MergeFieldType
  <2> QED BY <2>1
<1> HIDE DEF fields, lists, bits
<1>6. stamps \in SUBSET Stamps
  <2>1. \A s \in StateSlots(k) : fields[s].last_modified \in Stamps
    BY <1>3 DEF SlotOf
  <2>2. \A g \in Groups : [lists[g] EXCEPT !.value = None].last_modified \in Stamps
    BY <1>4 DEF SlotOf
  <2>3. \A g \in Groups : [bits[g] EXCEPT !.value = None].last_modified \in Stamps
    BY <1>5 DEF SlotOf
  <2>4. \A f \in parts : f.last_modified \in Stamps
    BY ZenonT(60), <2>1, <2>2, <2>3
  <2> QED BY <2>4
<1>7. \A s \in StateSlots(k) : fields[s] \in parts
  OBVIOUS
<1>8. \A s \in StateSlots(k) : fields[s].last_modified \in stamps
  BY <1>7
<1>9. \A g \in Groups : lists[g].last_modified \in stamps
  <2>1. \A g \in Groups : [lists[g] EXCEPT !.value = None] \in parts
                          /\ [lists[g] EXCEPT !.value = None].last_modified = lists[g].last_modified
    BY <1>4 DEF SlotOf
  <2> QED BY <2>1
<1>10. \A s \in StateSlots(k) : fields[s].news => news
  BY <1>7
<1>11. stamps # {}
  BY <1>9 DEF Groups
<1> HIDE DEF parts, stamps
<1>12. latest \in stamps /\ \A u \in stamps : u <= latest
  BY <1>6, <1>11, LatestStamp
<1>13. news \in BOOLEAN /\ detected \in BOOLEAN
  OBVIOUS
<1>14. latest \in Stamps /\ n \in Stamps
  BY <1>6, <1>12, StampFacts
<1> HIDE DEF news, detected, latest
<1>15. TRUE \in BOOLEAN
  OBVIOUS
<1>16. /\ r \in States(k) /\ r.merged = TRUE /\ r.sequence = n /\ r.fields = fields
       /\ r.lists = lists /\ r.news = news /\ r.last_modified = latest
  <2> HIDE DEF r
  <2>1. r \in States(k)
    BY <1>1, <1>3, <1>4, <1>5, <1>13, <1>14, <1>15 DEF States
  <2>2. r.merged = TRUE
    BY <1>1
  <2>3. r.sequence = n /\ r.fields = fields /\ r.lists = lists /\ r.last_modified = latest
    BY <1>1
  <2>4. r.news = news
    BY <1>1
  <2> QED BY <2>1, <2>2, <2>3, <2>4
<1>17. \A s \in StateSlots(k) :
          fields[s] = MergeField(old.fields[s], new.fields[s], n, TRUE, Zero(k, s))
  BY DEF fields
<1>18. \A g \in Groups : lists[g] = MergeField(old.lists[g], new.lists[g], n, TRUE, NoClients)
  BY DEF lists
<1> QED BY <1>8, <1>9, <1>10, <1>12, <1>16, <1>17, <1>18

LEMMA MergeSlots ==
    ASSUME NEW k \in Kinds, NEW old \in States(k), NEW new \in States(k), NEW n \in 0 .. MaxSeq,
           NEW s \in StateSlots(k)
    PROVE  LET r == MergeState(old, new, k, n, TRUE)
           IN  /\ Merged(r.fields[s], old.fields[s], new.fields[s], n, Zero(k, s))
               /\ Noted(r.fields[s], old.fields[s], Zero(k, s))
<1>1. old.fields[s] \in SlotOf(Int) /\ new.fields[s] \in SlotOf(Int) /\ Zero(k, s) \in Int
      /\ None \notin Int
  BY KindFacts, ConstantFacts DEF States
<1>2. MergeState(old, new, k, n, TRUE).fields[s] =
          MergeField(old.fields[s], new.fields[s], n, TRUE, Zero(k, s))
  BY MergeStateFacts
<1> QED BY ZenonT(60), <1>1, <1>2, MergeFieldFacts

\* The whitelists of a merged state are those of the newer one.
LEMMA MergeLists ==
    ASSUME NEW k \in Kinds, NEW old \in States(k), NEW new \in States(k), NEW n \in 0 .. MaxSeq,
           ListsOK(old), ListsOK(new)
    PROVE  LET r == MergeState(old, new, k, n, TRUE)
           IN  /\ ListsOK(r)
               /\ \A g \in Groups :
                     /\ r.lists[g].value = new.lists[g].value
                     /\ \/ r.lists[g].last_modified = n
                        \/ /\ r.lists[g].last_modified = old.lists[g].last_modified
                           /\ r.lists[g].value = old.lists[g].value
<1> DEFINE r == MergeState(old, new, k, n, TRUE)
<1>1. ASSUME NEW g \in Groups
      PROVE  /\ r.lists[g].value = new.lists[g].value
             /\ \/ r.lists[g].last_modified = n
                \/ /\ r.lists[g].last_modified = old.lists[g].last_modified
                   /\ r.lists[g].value = old.lists[g].value
             /\ r.lists[g].value # None /\ r.lists[g].default = None
             /\ IsValid(r.lists[g].last_modified)
  <2> DEFINE o == old.lists[g]
             w == new.lists[g]
  <2>1. /\ o \in SlotOf(Whitelists) /\ w \in SlotOf(Whitelists) /\ NoClients \in Whitelists
        /\ None \notin Whitelists
    BY ConstantFacts DEF States, NoClients, Whitelists
  <2>2. r.lists[g] = MergeField(o, w, n, TRUE, NoClients)
    BY ZenonT(60), MergeStateFacts
  <2>3. o.value # None /\ w.value # None /\ o.default = None /\ w.default = None
        /\ IsValid(o.last_modified) /\ IsValid(w.last_modified)
    BY DEF ListsOK
  <2> HIDE DEF o, w, r
  <2> DEFINE m == MergeField(o, w, n, TRUE, NoClients)
  <2>4. ~IsDefaultValue(w)
    BY <2>3 DEF IsDefaultValue
  <2>5. /\ \/ m.last_modified = n /\ m.value = w.value
           \/ /\ m.last_modified = o.last_modified
              /\ m.value = o.value
        /\ Effective(m, NoClients) = Effective(w, NoClients)
        /\ m.default = None
    <3>1. Merged(m, o, w, n, NoClients)
      BY <2>1, MergeFieldFacts
    <3> HIDE DEF m
    <3> QED BY <2>3, <2>4, <3>1 DEF Merged, Taken, Kept, Wins
  <2>6. m.value # None
    BY <2>3, <2>5
  <2>7. m.value = w.value
    BY <2>3, <2>5, <2>6 DEF Effective
  <2>8. IsValid(m.last_modified)
    BY <2>3, <2>5, StampFacts DEF IsValid
  <2> HIDE DEF m
  <2>9. r.lists[g] = m
    BY <2>2 DEF m
  <2> QED BY <2>5, <2>6, <2>7, <2>8, <2>9 DEF o, w
<1>2. ListsOK(r)
  BY <1>1 DEF ListsOK
<1> QED BY <1>1, <1>2

LEMMA MergeSlotsOK ==
    ASSUME NEW k \in Kinds, NEW old \in States(k), NEW new \in States(k), NEW n \in 0 .. MaxSeq,
           SlotsOK(old, k), SlotsOK(new, k)
    PROVE  LET r == MergeState(old, new, k, n, TRUE)
           IN  /\ SlotsOK(r, k)
               /\ \A s \in Slots(k) :
                     \/ r.fields[s].last_modified = n
                     \/ /\ r.fields[s].last_modified = old.fields[s].last_modified
                        /\ r.fields[s].value = old.fields[s].value
<1> DEFINE r == MergeState(old, new, k, n, TRUE)
<1>1. ASSUME NEW s \in StateSlots(k), IsValid(r.fields[s].last_modified)
      PROVE  r.fields[s].value # None
  <2>1. IsDefaultValue(new.fields[s]) => new.fields[s].value # None
    BY DEF IsDefaultValue
  <2>2. IsValid(new.fields[s].last_modified) => new.fields[s].value # None
    BY DEF SlotsOK
  <2>3. IsValid(old.fields[s].last_modified) => old.fields[s].value # None
    BY DEF SlotsOK
  <2> HIDE DEF r
  <2>4. \/ /\ r.fields[s].value = new.fields[s].value
           /\ IsDefaultValue(new.fields[s]) \/ IsValid(new.fields[s].last_modified)
        \/ /\ r.fields[s].last_modified = old.fields[s].last_modified
           /\ r.fields[s].value = old.fields[s].value
    <3>1. Merged(r.fields[s], old.fields[s], new.fields[s], n, Zero(k, s))
      BY MergeSlots DEF r
    <3> QED BY <3>1 DEF Merged, Taken, Kept, Wins
  <2> QED BY <1>1, <2>1, <2>2, <2>3, <2>4
<1>2. ASSUME NEW s \in Slots(k)
      PROVE  /\ r.fields[s].default = None
             /\ \/ r.fields[s].last_modified = n
                \/ /\ r.fields[s].last_modified = old.fields[s].last_modified
                   /\ r.fields[s].value = old.fields[s].value
  <2>1. s \in StateSlots(k) /\ old.fields[s].default = None /\ new.fields[s].default = None
    BY DEF SlotsOK, StateSlots
  <2>2. ~IsDefaultValue(new.fields[s])
    BY <2>1 DEF IsDefaultValue
  <2>3. Merged(r.fields[s], old.fields[s], new.fields[s], n, Zero(k, s))
    BY <2>1, MergeSlots
  <2> HIDE DEF r
  <2> QED BY <2>1, <2>2, <2>3 DEF Merged, Taken, Kept
<1> QED BY <1>1, <1>2 DEF SlotsOK

-----------------------------------------------------------------------------
(* Edits.                                                                  *)

LEMMA WithFields ==
    ASSUME NEW k, NEW state \in States(k), NEW F \in [StateSlots(k) -> SlotOf(Int)]
    PROVE  /\ [state EXCEPT !.fields = F] \in States(k)
           /\ [state EXCEPT !.fields = F].fields = F
           /\ [state EXCEPT !.fields = F].lists = state.lists
BY DEF States

LEMMA WithList ==
    ASSUME NEW k, NEW state \in States(k), NEW g \in Groups, NEW f \in SlotOf(Whitelists)
    PROVE  /\ [state EXCEPT !.lists[g] = f] \in States(k)
           /\ [state EXCEPT !.lists[g] = f].fields = state.fields
           /\ \A h \in Groups : [state EXCEPT !.lists[g] = f].lists[h] =
                                    IF h = g THEN f ELSE state.lists[h]
<1>1. state.lists \in [Groups -> SlotOf(Whitelists)]
  BY DEF States
<1>2. [state.lists EXCEPT ![g] = f] \in [Groups -> SlotOf(Whitelists)]
  BY <1>1
<1>3. [state EXCEPT !.lists[g] = f] = [state EXCEPT !.lists = [state.lists EXCEPT ![g] = f]]
  OBVIOUS
<1>4. [state EXCEPT !.lists[g] = f].lists = [state.lists EXCEPT ![g] = f]
  BY DEF States
<1> QED BY <1>1, <1>2, <1>3, <1>4 DEF States

LEMMA SetValueFacts ==
    ASSUME NEW f \in SlotOf(Int), NEW v \in Int
    PROVE  SetValue(f, v) \in SlotOf(Int) /\ SetValue(f, v).value = v
           /\ SetValue(f, v).default = f.default
BY StampFacts DEF SetValue, SlotOf

LEMMA ClearValueFacts ==
    ASSUME NEW f \in SlotOf(Int)
    PROVE  ClearValue(f) \in SlotOf(Int) /\ ~IsValid(ClearValue(f).last_modified)
BY StampFacts DEF ClearValue, SlotOf, IsValid

LEMMA CurrentAsDefaultFacts ==
    ASSUME NEW f \in SlotOf(Int), NEW z \in Int
    PROVE  /\ SetCurrentValueAsDefault(f, z) \in SlotOf(Int)
           /\ ~IsValid(SetCurrentValueAsDefault(f, z).last_modified)
           /\ Effective(SetCurrentValueAsDefault(f, z), z) = Effective(f, z)
<1>1. Effective(f, z) \in Int
  BY DEF Effective, SlotOf
<1>2. Effective(f, z) # None
  BY <1>1, ConstantFacts
<1> QED BY <1>1, <1>2, StampFacts DEF SetCurrentValueAsDefault, SlotOf, IsValid, Effective

LEMMA AccessFacts ==
    ASSUME NEW f \in SlotOf(Whitelists), NEW v \in Whitelists
    PROVE  Access(f, v) \in SlotOf(Whitelists) /\ Access(f, v).value = v
           /\ Access(f, v).default = f.default /\ IsValid(Access(f, v).last_modified)
<1>1. 0 \in Stamps /\ Invalid # 0
  BY StampFacts DEF ValidNonSequence, Invalid
<1>2. Access(f, v) \in SlotOf(Whitelists) /\ Access(f, v).value = v
      /\ Access(f, v).default = f.default
  BY <1>1 DEF Access, SlotOf, ValidNonSequence
<1>3. Access(f, v).last_modified = 0
  BY DEF Access, SlotOf, ValidNonSequence
<1> QED BY <1>1, <1>2, <1>3 DEF IsValid

LEMMA WithField ==
    ASSUME NEW k, NEW state \in States(k), NEW s \in StateSlots(k), NEW f \in SlotOf(Int)
    PROVE  /\ [state EXCEPT !.fields[s] = f] \in States(k)
           /\ [state EXCEPT !.fields[s] = f].lists = state.lists
           /\ \A t \in StateSlots(k) : [state EXCEPT !.fields[s] = f].fields[t] =
                                           IF t = s THEN f ELSE state.fields[t]
<1>1. state.fields \in [StateSlots(k) -> SlotOf(Int)]
  BY DEF States
<1>2. [state.fields EXCEPT ![s] = f] \in [StateSlots(k) -> SlotOf(Int)]
  BY <1>1
<1>3. [state EXCEPT !.fields[s] = f] = [state EXCEPT !.fields = [state.fields EXCEPT ![s] = f]]
  OBVIOUS
<1>4. [state EXCEPT !.fields[s] = f].fields = [state.fields EXCEPT ![s] = f]
  BY DEF States
<1> QED BY <1>1, <1>2, <1>3, <1>4 DEF States

\* The setters of the compressed fields set slots, and declare no default.
SetsSlots(r, f, D) ==
    /\ r \in [D -> SlotOf(Int)]
    /\ \A s \in D : r[s].default = f[s].default /\ (r[s] = f[s] \/ r[s].value \in Int)

LEMMA SetOne ==
    ASSUME NEW D, NEW f \in [D -> SlotOf(Int)], NEW i \in D, NEW v \in Int
    PROVE  SetsSlots([f EXCEPT ![i] = SetValue(@, v)], f, D)
<1>1. SetValue(f[i], v) \in SlotOf(Int) /\ SetValue(f[i], v).value = v
      /\ SetValue(f[i], v).default = f[i].default
  BY SetValueFacts
<1> QED BY <1>1 DEF SetsSlots

LEMMA SetTwo ==
    ASSUME NEW D, NEW f \in [D -> SlotOf(Int)], NEW i \in D, NEW v \in Int,
           NEW j \in D, NEW w \in Int, i # j
    PROVE  SetsSlots([f EXCEPT ![i] = SetValue(@, v), ![j] = SetValue(@, w)], f, D)
<1>1. SetValue(f[i], v) \in SlotOf(Int) /\ SetValue(f[i], v).value = v
      /\ SetValue(f[i], v).default = f[i].default
  BY SetValueFacts
<1>2. SetValue(f[j], w) \in SlotOf(Int) /\ SetValue(f[j], w).value = w
      /\ SetValue(f[j], w).default = f[j].default
  BY SetValueFacts
<1> QED BY <1>1, <1>2 DEF SetsSlots

LEMMA SetThree ==
    ASSUME NEW D, NEW f \in [D -> SlotOf(Int)], NEW i \in D, NEW v \in Int,
           NEW j \in D, NEW w \in Int, NEW l \in D, NEW x \in Int, i # j, i # l, j # l
    PROVE  SetsSlots([f EXCEPT ![i] = SetValue(@, v), ![j] = SetValue(@, w),
                               ![l] = SetValue(@, x)], f, D)
<1>1. SetValue(f[i], v) \in SlotOf(Int) /\ SetValue(f[i], v).value = v
      /\ SetValue(f[i], v).default = f[i].default
  BY SetValueFacts
<1>2. SetValue(f[j], w) \in SlotOf(Int) /\ SetValue(f[j], w).value = w
      /\ SetValue(f[j], w).default = f[j].default
  BY SetValueFacts
<1>3. SetValue(f[l], x) \in SlotOf(Int) /\ SetValue(f[l], x).value = x
      /\ SetValue(f[l], x).default = f[l].default
  BY SetValueFacts
<1> QED BY <1>1, <1>2, <1>3 DEF SetsSlots

LEMMA EffectiveType ==
    ASSUME NEW f \in SlotOf(Int), NEW z \in Int
    PROVE  Effective(f, z) \in Int
BY DEF Effective, SlotOf

LEMMA QuantizeFacts == ASSUME NEW d \in Int PROVE Quantize(d) \in Int
<1>1. (d + DeltaRange) \div 2 \in Int
  BY ConstantFacts
<1> QED BY <1>1, ConstantFacts DEF Quantize, Clamp

LEMMA WeightFacts == ASSUME NEW i \in 0 .. 3 PROVE Weight(i) \in Nat \ {0}
<1>1. ByteSize * ByteSize \in Nat \ {0}
  BY ConstantFacts
<1>2. ByteSize * ByteSize * ByteSize \in Nat \ {0}
  BY <1>1, ConstantFacts
<1> QED BY <1>1, <1>2, ConstantFacts DEF Weight

LEMMA SetFieldFacts ==
    ASSUME NEW k \in Kinds, NEW f \in [Slots(k) -> SlotOf(Int)], NEW v \in Nat
    PROVE  SetsSlots(SetField(f, k, v), f, Slots(k))
<1> DEFINE D == Slots(k)
<1>0. 0 \in D /\ 1 \in D /\ Effective(f[0], 0) \in Int
  BY KindFacts, EffectiveType
<1>5. 0 \in Int /\ 0 # 1 /\ 0 # 2 /\ 1 # 2 /\ f \in [D -> SlotOf(Int)]
  OBVIOUS
<1>1. CASE k = "delta"
  <2>1. SetField(f, k, v) = SetDelta(f, v)
    BY <1>1 DEF SetField
  <2> DEFINE d == v - Effective(f[0], 0)
  <2>2. d \in Int /\ v \in Int
    BY <1>0
  <2>3. SetDelta(f, v) \in {[f EXCEPT ![1] = SetValue(@, d)],
                            [f EXCEPT ![0] = SetValue(@, v), ![1] = SetValue(@, 0)]}
    BY DEF SetDelta
  <2> HIDE DEF d, D
  <2>4. SetsSlots([f EXCEPT ![1] = SetValue(@, d)], f, D)
    BY <1>0, <2>2, SetOne DEF D
  <2>5. SetsSlots([f EXCEPT ![0] = SetValue(@, v), ![1] = SetValue(@, 0)], f, D)
    BY ONLY <1>0, <1>5, <2>2, SetTwo
  <2> QED BY <2>1, <2>3, <2>4, <2>5 DEF D
<1>2. CASE k = "counter"
  <2>1. SetField(f, k, v) = SetCounter(f, v)
    BY <1>2 DEF SetField
  <2> DEFINE d == v - Effective(f[0], 0)
             rest == v % ByteSize
             base == v - rest
  <2>2. d \in Int /\ rest \in Int /\ base \in Int
    BY <1>0, ConstantFacts
  <2>3. SetCounter(f, v) \in {[f EXCEPT ![1] = SetValue(@, d)],
                              [f EXCEPT ![0] = SetValue(@, base), ![1] = SetValue(@, rest)]}
    BY DEF SetCounter
  <2> HIDE DEF d, rest, base, D
  <2>4. SetsSlots([f EXCEPT ![1] = SetValue(@, d)], f, D)
    BY <1>0, <2>2, SetOne DEF D
  <2>5. SetsSlots([f EXCEPT ![0] = SetValue(@, base), ![1] = SetValue(@, rest)], f, D)
    BY ONLY <1>0, <1>5, <2>2, SetTwo
  <2> QED BY <2>1, <2>3, <2>4, <2>5 DEF D
<1>3. CASE k = "dynamic"
  <2>1. SetField(f, k, v) = SetDynamic(f, v, DeltaRange)
    BY <1>3 DEF SetField
  <2>2. 2 \in D
    BY <1>3 DEF Slots
  <2> DEFINE d == Quantize(v - Effective(f[0], 0))
  <2>3. d \in Int /\ v \in Int /\ ZeroSentinel \in Int /\ DeltaRange \in Int
    BY <1>0, QuantizeFacts, ConstantFacts DEF ZeroSentinel
  <2>4. SetDynamic(f, v, DeltaRange) \in
            {[f EXCEPT ![1] = SetValue(@, d)],
             [f EXCEPT ![0] = SetValue(@, v), ![1] = SetValue(@, ZeroSentinel),
                       ![2] = SetValue(@, DeltaRange)]}
    BY DEF SetDynamic
  <2> HIDE DEF d, D
  <2>5. SetsSlots([f EXCEPT ![1] = SetValue(@, d)], f, D)
    BY <1>0, <2>3, SetOne DEF D
  <2>6. SetsSlots([f EXCEPT ![0] = SetValue(@, v), ![1] = SetValue(@, ZeroSentinel),
                            ![2] = SetValue(@, DeltaRange)], f, D)
    BY ONLY <1>0, <1>5, <2>2, <2>3, SetThree
  <2> QED BY <2>1, <2>4, <2>5, <2>6 DEF D
<1>4. CASE k = "timer"
  <2>1. SetField(f, k, v) = SetTimer(f, v)
    BY <1>4 DEF SetField
  <2>2. D = 0 .. 3
    BY <1>4 DEF Slots
  <2> DEFINE q == v % Rollover
             bytes == IF \A i \in 0 .. 3 : IsValid(f[i].last_modified)
                      THEN BytesRequired(q, RawTimer(f)) ELSE 4
             r == [i \in 0 .. 3 |-> IF i < bytes THEN SetValue(f[i], Byte(q, i)) ELSE f[i]]
  <2>3. q \in Int
    BY ConstantFacts
  <2>4. SetTimer(f, v) = r
    BY DEF SetTimer
  <2> HIDE DEF q, bytes
  <2>5. ASSUME NEW i \in 0 .. 3
        PROVE  /\ SetValue(f[i], Byte(q, i)) \in SlotOf(Int)
               /\ SetValue(f[i], Byte(q, i)).value \in Int
               /\ SetValue(f[i], Byte(q, i)).default = f[i].default
    <3>1. Byte(q, i) \in Int
      <4>1. q \div Weight(i) \in Int
        BY <2>3, WeightFacts
      <4> QED BY <4>1, ConstantFacts DEF Byte
    <3>2. f[i] \in SlotOf(Int)
      BY <2>2
    <3> QED BY <3>1, <3>2, SetValueFacts
  <2>6. r \in [0 .. 3 -> SlotOf(Int)]
    BY <2>2, <2>5
  <2>7. \A i \in 0 .. 3 : r[i].default = f[i].default /\ (r[i] = f[i] \/ r[i].value \in Int)
    BY <2>5
  <2> HIDE DEF r
  <2>8. SetsSlots(r, f, 0 .. 3)
    BY <2>6, <2>7 DEF SetsSlots
  <2> QED BY <2>1, <2>2, <2>4, <2>8
<1> QED BY <1>1, <1>2, <1>3, <1>4 DEF Kinds

\* An edited copy is a state, with whitelists, and its stamped slots have values.
Good(state, k) == state \in States(k) /\ ListsOK(state) /\ SlotsOK(state, k)

LEMMA SetCompressedGood ==
    ASSUME NEW k \in Kinds, NEW state, Good(state, k), NEW v \in Nat
    PROVE  Good(SetCompressed(state, k, v), k)
<1> DEFINE part == CompressedPart(state, k)
           set == SetField(part, k, v)
           F == [s \in StateSlots(k) |-> IF s \in Slots(k) THEN set[s] ELSE state.fields[s]]
           r == SetCompressed(state, k, v)
<1>1. state.fields \in [StateSlots(k) -> SlotOf(Int)] /\ Slots(k) \subseteq StateSlots(k)
      /\ state \in States(k)
  BY DEF Good, States, StateSlots
<1>2. part \in [Slots(k) -> SlotOf(Int)] /\ \A s \in Slots(k) : part[s] = state.fields[s]
  BY <1>1 DEF CompressedPart
<1> HIDE DEF part
<1>3. SetsSlots(set, part, Slots(k))
  BY <1>2, SetFieldFacts
<1> HIDE DEF set
<1>4. DOMAIN set = Slots(k) /\ DOMAIN state.fields = StateSlots(k)
  BY <1>1, <1>3 DEF SetsSlots
<1>5. F \in [StateSlots(k) -> SlotOf(Int)]
  BY <1>1, <1>3 DEF SetsSlots
<1>6. r = [state EXCEPT !.fields = F]
  BY <1>4 DEF SetCompressed, set, part
<1>7. \A s \in StateSlots(k) : F[s] = IF s \in Slots(k) THEN set[s] ELSE state.fields[s]
  OBVIOUS
<1> HIDE DEF F, r
<1>8. r \in States(k) /\ r.fields = F /\ r.lists = state.lists
  BY <1>1, <1>5, <1>6, WithFields
<1>9. ListsOK(r)
  BY <1>8 DEF ListsOK, Good
<1>10. SlotsOK(r, k)
  <2>1. ASSUME NEW s \in StateSlots(k), IsValid(F[s].last_modified) PROVE F[s].value # None
    <3>1. CASE F[s] = state.fields[s]
      BY <2>1, <3>1 DEF Good, SlotsOK
    <3>2. CASE s \in Slots(k) /\ set[s].value \in Int
      BY <1>7, <3>2, ConstantFacts
    <3> QED BY <1>2, <1>3, <1>7, <3>1, <3>2 DEF SetsSlots
  <2>2. \A s \in Slots(k) : F[s].default = None
    BY <1>1, <1>2, <1>3, <1>7 DEF SetsSlots, Good, SlotsOK
  <2> QED BY <1>8, <2>1, <2>2 DEF SlotsOK
<1> QED BY <1>8, <1>9, <1>10 DEF Good, r

LEMMA SetPlainGood ==
    ASSUME NEW k \in Kinds, NEW state, Good(state, k), NEW s \in Plain, NEW f \in SlotOf(Int),
           IsValid(f.last_modified) => f.value # None
    PROVE  Good([state EXCEPT !.fields[s] = f], k)
<1> DEFINE r == [state EXCEPT !.fields[s] = f]
<1>1. s \in StateSlots(k) /\ s \notin Slots(k) /\ state \in States(k)
      /\ Slots(k) \subseteq StateSlots(k)
  BY KindFacts DEF StateSlots, Good
<1>2. r \in States(k) /\ r.lists = state.lists
      /\ \A t \in StateSlots(k) : r.fields[t] = IF t = s THEN f ELSE state.fields[t]
  BY <1>1, WithField
<1> HIDE DEF r
<1>3. ListsOK(r)
  BY <1>2 DEF ListsOK, Good
<1>4. SlotsOK(r, k)
  BY <1>1, <1>2 DEF SlotsOK, Good
<1> QED BY <1>2, <1>3, <1>4 DEF Good, r

LEMMA SetListGood ==
    ASSUME NEW k \in Kinds, NEW state, Good(state, k), NEW g \in Groups, NEW v \in Whitelists
    PROVE  Good([state EXCEPT !.lists[g] = Access(@, v)], k)
<1> DEFINE f == Access(state.lists[g], v)
           r == [state EXCEPT !.lists[g] = f]
<1>1. state.lists[g] \in SlotOf(Whitelists) /\ state \in States(k)
  BY DEF Good, States
<1>2. f \in SlotOf(Whitelists) /\ f.value = v /\ f.default = state.lists[g].default
      /\ IsValid(f.last_modified)
  BY <1>1, AccessFacts
<1> HIDE DEF f
<1>3. r \in States(k) /\ r.fields = state.fields
      /\ \A h \in Groups : r.lists[h] = IF h = g THEN f ELSE state.lists[h]
  BY <1>1, <1>2, WithList
<1> HIDE DEF r
<1>4. ListsOK(r)
  BY <1>2, <1>3, ConstantFacts DEF ListsOK, Good
<1>5. SlotsOK(r, k)
  BY <1>3 DEF SlotsOK, Good
<1> QED BY <1>3, <1>4, <1>5 DEF Good, r, f

LEMMA WhitelistValue ==
    ASSUME NEW k \in Kinds, NEW state, Good(state, k), NEW g \in Groups
    PROVE  state.lists[g].value \in Whitelists
BY DEF Good, States, SlotOf, ListsOK

LEMMA AddClientGood ==
    ASSUME NEW k \in Kinds, NEW state, Good(state, k), NEW c \in Clients, NEW g \in Groups, NEW fx
    PROVE  Good(AddClient(state, c, g, fx), k)
<1> DEFINE list == state.lists[g].value
<1>1. list \in Whitelists
  BY WhitelistValue
<1> HIDE DEF list
<1>2. [list EXCEPT ![c] = @ + 1] \in Whitelists
  BY <1>1 DEF Whitelists
<1>3. Good([state EXCEPT !.lists[g] = Access(@, [list EXCEPT ![c] = @ + 1])], k)
  BY <1>2, SetListGood
<1>4. \/ AddClient(state, c, g, fx) = state
      \/ AddClient(state, c, g, fx) =
             [state EXCEPT !.lists[g] = Access(@, [list EXCEPT ![c] = @ + 1])]
  BY DEF AddClient, list
<1> QED BY <1>3, <1>4

LEMMA RemoveClientGood ==
    ASSUME NEW k \in Kinds, NEW state, Good(state, k), NEW c \in Clients, NEW g \in Groups
    PROVE  Good(RemoveClient(state, c, g), k)
<1> DEFINE list == state.lists[g].value
<1>1. list \in Whitelists
  BY WhitelistValue
<1>2. \/ RemoveClient(state, c, g) = state
      \/ /\ list[c] # 0
         /\ RemoveClient(state, c, g) =
                [state EXCEPT !.lists[g] = Access(@, [list EXCEPT ![c] = @ - 1])]
  BY DEF RemoveClient
<1> HIDE DEF list
<1>3. list[c] # 0 => [list EXCEPT ![c] = @ - 1] \in Whitelists
  BY <1>1 DEF Whitelists
<1> QED BY <1>2, <1>3, SetListGood

LEMMA ClearWhitelistGood ==
    ASSUME NEW k \in Kinds, NEW state, Good(state, k), NEW g \in Groups
    PROVE  Good(ClearWhitelist(state, g), k)
<1>1. NoClients \in Whitelists
  BY DEF NoClients, Whitelists
<1>2. \/ ClearWhitelist(state, g) = state
      \/ ClearWhitelist(state, g) = [state EXCEPT !.lists[g] = Access(@, NoClients)]
  BY DEF ClearWhitelist
<1> QED BY <1>1, <1>2, SetListGood

-----------------------------------------------------------------------------
(* What a state says.                                                      *)

\* What a receiver decodes of a slot.
Decodes(state, k, s) ==
    IF s \in Plain \/ state.fields[s].value = None THEN Effective(state.fields[s], Zero(k, s))
    ELSE OnTheWire(k, s, state.fields[s].value)

LEMMA WireValue ==
    ASSUME NEW k \in Kinds, NEW s, NEW v \in Int
    PROVE  OnTheWire(k, s, v) \in Int
<1>1. Unquantize(Quantize(v)) \in Int
  BY QuantizeFacts, ConstantFacts DEF Unquantize
<1>2. (v \div ByteSize) * ByteSize \in Int /\ v % ByteSize \in Int
  <2>1. v \div ByteSize \in Int /\ v % ByteSize \in Int
    BY ConstantFacts
  <2> QED BY <2>1, ConstantFacts
<1>3. OnTheWire(k, s, v) \in {Unquantize(Quantize(v)), (v \div ByteSize) * ByteSize,
                              v % ByteSize, v}
  <2>1. CASE k = "delta"
    BY <2>1 DEF OnTheWire
  <2>2. CASE k = "counter"
    BY <2>2 DEF OnTheWire
  <2>3. CASE k = "timer"
    BY <2>3 DEF OnTheWire
  <2>4. CASE k = "dynamic"
    BY <2>4 DEF OnTheWire
  <2> QED BY <2>1, <2>2, <2>3, <2>4 DEF Kinds
<1> QED BY <1>1, <1>2, <1>3

LEMMA FieldFacts ==
    ASSUME NEW k \in Kinds, NEW state \in States(k), NEW s \in StateSlots(k)
    PROVE  /\ state.fields[s] \in SlotOf(Int) /\ state.fields[s].last_modified \in Stamps
           /\ state.fields[s].value \in Int \cup {None}
           /\ Effective(state.fields[s], Zero(k, s)) \in Int
           /\ Decodes(state, k, s) \in Int
           /\ Reading(state, k)[s] = Effective(state.fields[s], Zero(k, s))
<1>1. state.fields[s] \in SlotOf(Int) /\ Zero(k, s) \in Int
  BY KindFacts DEF States
<1>2. state.fields[s].last_modified \in Stamps /\ state.fields[s].value \in Int \cup {None}
  BY <1>1 DEF SlotOf
<1>3. Effective(state.fields[s], Zero(k, s)) \in Int
  BY <1>1, EffectiveType
<1>4. Decodes(state, k, s) \in Int
  BY <1>2, <1>3, WireValue DEF Decodes
<1>5. Reading(state, k)[s] = Effective(state.fields[s], Zero(k, s))
  BY DEF Reading
<1> QED BY <1>1, <1>2, <1>3, <1>4, <1>5

LEMMA SayingFacts ==
    ASSUME NEW k \in Kinds, NEW state \in States(k), NEW v \in Nat
    PROVE  Saying(state, k, v) \in Sayings(k) /\ Says(Saying(state, k, v), state, k)
<1> DEFINE values == Reading(state, k)
           decoded == [s \in StateSlots(k) |->
                         IF s \in Plain \/ state.fields[s].value = None THEN Reading(state, k)[s]
                         ELSE OnTheWire(k, s, state.fields[s].value)]
           visible == [c \in Clients |-> {g \in Groups : ShouldSendToClient(state, c, g)}]
<1>1. values \in [StateSlots(k) -> Int]
  BY FieldFacts DEF Reading
<1>2. decoded \in [StateSlots(k) -> Int]
  <2>1. ASSUME NEW s \in StateSlots(k) PROVE decoded[s] \in Int
    <3>1. decoded[s] = Decodes(state, k, s)
      BY FieldFacts DEF Decodes
    <3> QED BY <3>1, FieldFacts
  <2> QED BY <2>1
<1>3. visible \in [Clients -> SUBSET Groups]
  OBVIOUS
<1> HIDE DEF values, decoded, visible
<1>4. /\ Saying(state, k, v) = [values |-> values, asked |-> v, decoded |-> decoded,
                                visible |-> visible]
      /\ Saying(state, k, 0) = [values |-> values, asked |-> 0, decoded |-> decoded,
                                visible |-> visible]
  BY DEF Saying, values, decoded, visible
<1> QED BY <1>1, <1>2, <1>3, <1>4 DEF Sayings, Says, values

LEMMA SaysFacts ==
    ASSUME NEW k \in Kinds, NEW state \in States(k), NEW said, Says(said, state, k)
    PROVE  /\ \A s \in StateSlots(k) :
                 /\ said.values[s] = Effective(state.fields[s], Zero(k, s))
                 /\ said.decoded[s] = Decodes(state, k, s)
           /\ \A c \in Clients : \A g \in Groups :
                 g \in said.visible[c] <=> ShouldSendToClient(state, c, g)
<1>1. ASSUME NEW s \in StateSlots(k)
      PROVE  said.values[s] = Effective(state.fields[s], Zero(k, s))
             /\ said.decoded[s] = Decodes(state, k, s)
  BY FieldFacts DEF Says, Saying, Decodes
<1>2. ASSUME NEW c \in Clients, NEW g \in Groups
      PROVE  g \in said.visible[c] <=> ShouldSendToClient(state, c, g)
  BY DEF Says, Saying
<1> QED BY <1>1, <1>2

\* A new state is decoded as it reads: its slots have no value, or a plain one.
LEMMA NewStateDecodes ==
    ASSUME NEW k \in Kinds, NEW s \in StateSlots(k)
    PROVE  /\ Decodes(NewState(k), k, s) = Effective(NewState(k).fields[s], Zero(k, s))
           /\ s \notin Declared => Effective(NewState(k).fields[s], Zero(k, s)) = Zero(k, s)
<1>1. NewState(k).fields[s].value = None \/ s \in Plain
  <2>1. s \in Declared \/ NewState(k).fields[s] = Unset
    BY NewStateFacts
  <2> QED BY <2>1, ConstantFacts DEF Unset
<1>2. s \notin Declared => NewState(k).fields[s].value = None
  <2>1. s \notin Declared => NewState(k).fields[s] = Unset
    BY NewStateFacts
  <2> QED BY <2>1 DEF Unset
<1> QED BY <1>1, <1>2 DEF Decodes, Effective

-----------------------------------------------------------------------------
(* The invariant holds initially.                                          *)

LEMMA InitInv == Init => IndInv
<1> SUFFICES ASSUME Init PROVE IndInv
  OBVIOUS
<1>1. kind \in Kinds /\ fixed \in BOOLEAN /\ audience \in {"client", "peer"}
  BY ConstantFacts DEF Init
<1>2. hub = NewState(kind) /\ work = NewState(kind) /\ peer = NewState(kind)
  BY DEF Init
<1> DEFINE N == NewState(kind)
           cl == SetInitialNews(N)
<1>3. N \in States(kind) /\ ListsOK(N) /\ SlotsOK(N, kind) /\ ~N.merged
  BY <1>1, NewStateFacts
<1>4. cl \in States(kind) /\ cl.fields = N.fields /\ cl.lists = N.lists /\ cl.news
  <2>1. cl = [N EXCEPT !.news = TRUE, !.detected = TRUE]
    BY DEF SetInitialNews
  <2> HIDE DEF N, cl
  <2>2. cl \in States(kind) /\ cl.fields = N.fields /\ cl.lists = N.lists
    BY <1>3, <2>1 DEF States
  <2>3. cl.news = TRUE
    BY <1>3, <2>1 DEF States
  <2> QED BY <2>2, <2>3
<1>5. client = cl /\ seq = 0 /\ edits = 0 /\ asked = 0 /\ net = << >> /\ wire = << >>
      /\ acked = [g \in Groups |-> Invalid] /\ unseen = FALSE
  BY DEF Init
<1>6. DOMAIN committed = 0 .. 0 /\ committed[0] = Saying(N, kind, 0)
  BY <1>2 DEF Init
<1>7. committed[0] \in Sayings(kind) /\ Says(committed[0], N, kind)
  BY <1>1, <1>3, <1>6, SayingFacts
<1>8. \A s \in StateSlots(kind) :
         /\ committed[0].decoded[s] = Effective(N.fields[s], Zero(kind, s))
         /\ Reading(N, kind)[s] = Effective(N.fields[s], Zero(kind, s))
         /\ Reading(cl, kind)[s] = Effective(N.fields[s], Zero(kind, s))
         /\ N.fields[s].last_modified = -1 /\ ~N.fields[s].news
  <2> SUFFICES ASSUME NEW s \in StateSlots(kind)
               PROVE  /\ committed[0].decoded[s] = Effective(N.fields[s], Zero(kind, s))
                      /\ Reading(N, kind)[s] = Effective(N.fields[s], Zero(kind, s))
                      /\ Reading(cl, kind)[s] = Effective(N.fields[s], Zero(kind, s))
                      /\ N.fields[s].last_modified = -1 /\ ~N.fields[s].news
    OBVIOUS
  <2>1. committed[0].decoded[s] = Decodes(N, kind, s)
    BY <1>1, <1>3, <1>7, SaysFacts
  <2>2. Decodes(N, kind, s) = Effective(N.fields[s], Zero(kind, s))
    BY <1>1, NewStateDecodes
  <2>3. ~IsValid(N.fields[s].last_modified) /\ ~N.fields[s].news
    BY <1>1, NewStateFacts
  <2> HIDE DEF N, cl
  <2>4. N.fields[s].last_modified = -1
    BY <2>3 DEF IsValid, Invalid
  <2> QED BY <1>4, <2>1, <2>2, <2>3, <2>4 DEF Reading
<1> HIDE DEF N, cl
<1>9. hub = N /\ work = N /\ peer = N
  BY <1>2 DEF N
<1>10. Types
  <2>1. ListsOK(cl) /\ SlotsOK(cl, kind)
    BY <1>3, <1>4 DEF ListsOK, SlotsOK
  <2>2. {hub, work, client, peer} \subseteq States(kind)
        /\ (\A state \in {hub, work, client, peer} : ListsOK(state))
        /\ (\A state \in {hub, work, client} : SlotsOK(state, kind))
    BY <1>3, <1>4, <1>5, <1>9, <2>1
  <2>3. committed \in [0 .. seq -> Sayings(kind)]
    <3>1. committed = [t \in 0 .. 0 |-> committed[t]]
      <4>1. committed = [t \in {0} |-> Saying(hub, kind, 0)]
        BY DEF Init
      <4> QED BY <1>6, <4>1
    <3> QED BY <1>5, <1>7, <3>1
  <2>4. acked \in [Groups -> Invalid .. seq]
    BY <1>5 DEF Invalid
  <2>5. net \in Seq(Messages(kind)) /\ Len(net) <= MaxNet
    BY <1>5, ConstantFacts
  <2>6. unseen \in BOOLEAN
    BY <1>5
  <2>7. seq \in 0 .. MaxSeq /\ edits \in 0 .. MaxEdits /\ asked \in Nat /\ wire = << >>
    BY <1>5, ConstantFacts
  <2> QED BY ONLY <1>1, <2>2, <2>3, <2>4, <2>5, <2>6, <2>7 DEF Types
<1>11. HubInv
  <2>1. seq = 0 /\ Says(committed[0], NewState(kind), kind) /\ Says(committed[seq], hub, kind)
    BY <1>5, <1>7, <1>9 DEF N
  <2> QED BY <2>1 DEF HubInv
<1>12. ClientInv
  <2>1. \A g \in Groups : acked[g] = Invalid /\ GroupSlots(kind, g) \subseteq StateSlots(kind)
    BY <1>1, <1>5, KindFacts
  <2>2. \A g \in Groups : Base(g) = 0
    BY <2>1 DEF Base, IsValid
  <2>3. \A s \in StateSlots(kind) : client.fields[s].last_modified = -1
    BY <1>4, <1>5, <1>8
  <2>4. NotDisclosed
    BY <2>1, <2>3 DEF NotDisclosed
  <2> QED BY <1>5, <1>8, <2>1, <2>2, <2>3, <2>4 DEF ClientInv
<1>13. NewsInv
  BY <1>4, <1>5, <1>8 DEF NewsInv
<1>14. NetInv
  BY <1>5 DEF NetInv
<1>15. PeerInv
  BY <1>3, <1>5, <1>8, <1>9 DEF PeerInv, PeerMirrors
<1> QED BY <1>10, <1>11, <1>12, <1>13, <1>14, <1>15 DEF IndInv

-----------------------------------------------------------------------------
(* The parts of the invariant that a step leaves alone.                    *)

LEMMA HubFrame ==
    ASSUME HubInv, UNCHANGED <<kind, hub, seq, committed>>
    PROVE  HubInv'
BY DEF HubInv

LEMMA ClientFrame ==
    ASSUME ClientInv, UNCHANGED <<kind, client, acked, seq, committed>>
    PROVE  ClientInv'
BY DEF ClientInv, Base, NotDisclosed

LEMMA NewsFrame ==
    ASSUME NewsInv, UNCHANGED <<kind, client, unseen>>
    PROVE  NewsInv'
BY DEF NewsInv

LEMMA NetFrame ==
    ASSUME NetInv, UNCHANGED <<kind, net, acked, seq, committed>>
    PROVE  NetInv'
BY SMTT(30) DEF NetInv, MessageInv, Base

LEMMA PeerFrame ==
    ASSUME PeerInv, UNCHANGED <<kind, hub, seq, committed, wire, peer>>
    PROVE  PeerInv'
BY DEF PeerInv, PeerMirrors, WireInv

-----------------------------------------------------------------------------
(* The owner's steps.                                                      *)

LEMMA EditInv ==
    ASSUME IndInv, NEW state, Good(state, kind), Edit(state), asked' \in Nat
    PROVE  IndInv'
<1>1. /\ work' = state /\ edits' = edits + 1 /\ edits < MaxEdits
      /\ UNCHANGED <<kind, fixed, audience, hub, seq, committed, net, acked, client, unseen,
                     wire, peer>>
  BY DEF Edit, config, clientVars, peerVars
<1>2. Types'
  <2>1. Types
    BY DEF IndInv
  <2>2. edits' \in 0 .. MaxEdits
    BY <1>1, <2>1, ConstantFacts DEF Types
  <2> QED BY <1>1, <2>1, <2>2 DEF Types, Good
<1> QED BY <1>1, <1>2, HubFrame, ClientFrame, NewsFrame, NetFrame, PeerFrame DEF IndInv

LEMMA OwnerInv ==
    ASSUME IndInv, SetCompressedValue \/ SetPlain \/ ChangeWhitelist
    PROVE  IndInv'
<1>1. kind \in Kinds /\ Good(work, kind) /\ asked \in Nat
  BY DEF IndInv, Types, Good
<1>2. CASE SetCompressedValue
  <2>1. PICK v \in Samples : Edit(SetCompressed(work, kind, v)) /\ asked' = v
    BY <1>2 DEF SetCompressedValue
  <2>2. v \in Nat
    BY ConstantFacts
  <2> QED BY <1>1, <2>1, <2>2, SetCompressedGood, EditInv
<1>3. CASE SetPlain
  <2>1. PICK s \in Plain :
           /\ \/ \E v \in {0, 1} : Edit([work EXCEPT !.fields[s] = SetValue(@, v)])
              \/ Edit([work EXCEPT !.fields[s] = ClearValue(@)])
              \/ Edit([work EXCEPT !.fields[s] = SetCurrentValueAsDefault(@, 0)])
           /\ asked' = asked
    BY <1>3 DEF SetPlain
  <2>2. work.fields[s] \in SlotOf(Int)
    BY <1>1 DEF Good, States, StateSlots
  <2>3. ASSUME NEW v \in {0, 1} PROVE Good([work EXCEPT !.fields[s] = SetValue(@, v)], kind)
    <3>1. SetValue(work.fields[s], v) \in SlotOf(Int) /\ SetValue(work.fields[s], v).value = v
          /\ v # None
      BY SMTT(30), <2>2, SetValueFacts, ConstantFacts
    <3> QED BY <1>1, <3>1, SetPlainGood
  <2>4. Good([work EXCEPT !.fields[s] = ClearValue(@)], kind)
    BY <1>1, <2>2, ClearValueFacts, SetPlainGood
  <2>5. Good([work EXCEPT !.fields[s] = SetCurrentValueAsDefault(@, 0)], kind)
    BY <1>1, <2>2, CurrentAsDefaultFacts, SetPlainGood
  <2>6. asked' \in Nat
    BY <1>1, <2>1
  <2> QED BY <2>1, <2>3, <2>4, <2>5, <2>6, EditInv
<1>4. CASE ChangeWhitelist
  <2>1. asked' \in Nat /\ 1 \in Groups
    BY <1>1, <1>4 DEF ChangeWhitelist, Groups
  <2>2. ASSUME NEW c \in Clients, Edit(AddClient(work, c, 1, fixed)) PROVE IndInv'
    BY <1>1, <2>1, <2>2, AddClientGood, EditInv
  <2>3. ASSUME NEW c \in Clients, Edit(RemoveClient(work, c, 1)) PROVE IndInv'
    BY <1>1, <2>1, <2>3, RemoveClientGood, EditInv
  <2>4. ASSUME NEW c \in Clients, Edit(SetOwningPlayer(work, c, fixed)) PROVE IndInv'
    <3>1. Good(ClearWhitelist(work, 1), kind)
      BY <1>1, <2>1, ClearWhitelistGood
    <3>2. Good(SetOwningPlayer(work, c, fixed), kind)
      BY <1>1, <2>1, <3>1, AddClientGood DEF SetOwningPlayer
    <3> QED BY <2>1, <2>4, <3>2, EditInv
  <2>5. ASSUME Edit(ClearWhitelist(work, 1)) PROVE IndInv'
    BY <1>1, <2>1, <2>5, ClearWhitelistGood, EditInv
  <2> QED BY <1>4, <2>2, <2>3, <2>4, <2>5 DEF ChangeWhitelist
<1> QED BY <1>2, <1>3, <1>4

\* What the hub says of a slot or of who sees a group changes only with a new stamp.
StampsTell(r, old, k, n) ==
    /\ \A s \in StateSlots(k) :
          \/ r.fields[s].last_modified = n
          \/ /\ r.fields[s].last_modified = old.fields[s].last_modified
             /\ Effective(r.fields[s], Zero(k, s)) = Effective(old.fields[s], Zero(k, s))
             /\ Decodes(r, k, s) = Decodes(old, k, s)
    /\ \A g \in Groups :
          \/ r.lists[g].last_modified = n
          \/ /\ r.lists[g].last_modified = old.lists[g].last_modified
             /\ \A c \in Clients :
                   ShouldSendToClient(r, c, g) <=> ShouldSendToClient(old, c, g)

LEMMA CommitKeeps ==
    ASSUME NEW k \in Kinds, NEW old, Good(old, k), NEW new, Good(new, k), NEW n \in 0 .. MaxSeq
    PROVE  /\ Good(MergeState(old, new, k, n, TRUE), k)
           /\ StampsTell(MergeState(old, new, k, n, TRUE), old, k, n)
<1> DEFINE r == MergeState(old, new, k, n, TRUE)
<1>1. old \in States(k) /\ new \in States(k) /\ ListsOK(old) /\ ListsOK(new)
      /\ SlotsOK(old, k) /\ SlotsOK(new, k)
  BY DEF Good
<1>2. Good(r, k)
  BY <1>1, MergeStateFacts, MergeLists, MergeSlotsOK DEF Good
<1>3. ASSUME NEW s \in StateSlots(k)
      PROVE  \/ r.fields[s].last_modified = n
             \/ /\ r.fields[s].last_modified = old.fields[s].last_modified
                /\ Effective(r.fields[s], Zero(k, s)) = Effective(old.fields[s], Zero(k, s))
                /\ Decodes(r, k, s) = Decodes(old, k, s)
  <2>1. Merged(r.fields[s], old.fields[s], new.fields[s], n, Zero(k, s))
    BY <1>1, MergeSlots
  <2>2. s \in Slots(k) => \/ r.fields[s].last_modified = n
                          \/ /\ r.fields[s].last_modified = old.fields[s].last_modified
                             /\ r.fields[s].value = old.fields[s].value
    BY <1>1, MergeSlotsOK
  <2>3. s \in Slots(k) \/ s \in Plain
    BY DEF StateSlots
  <2> HIDE DEF r
  <2>4. \/ r.fields[s].last_modified = n
        \/ /\ r.fields[s].last_modified = old.fields[s].last_modified
           /\ Effective(r.fields[s], Zero(k, s)) = Effective(old.fields[s], Zero(k, s))
    BY <2>1 DEF Merged, Taken, Kept
  <2>5. CASE s \in Plain
    BY <2>4, <2>5 DEF Decodes
  <2>6. CASE s \in Slots(k)
    BY <2>2, <2>6 DEF Decodes, Effective
  <2> QED BY <2>3, <2>5, <2>6
<1>4. ASSUME NEW g \in Groups
      PROVE  \/ r.lists[g].last_modified = n
             \/ /\ r.lists[g].last_modified = old.lists[g].last_modified
                /\ \A c \in Clients :
                      ShouldSendToClient(r, c, g) <=> ShouldSendToClient(old, c, g)
  <2>1. \/ r.lists[g].last_modified = n
        \/ /\ r.lists[g].last_modified = old.lists[g].last_modified
           /\ r.lists[g].value = old.lists[g].value
    BY ZenonT(60), <1>1, MergeLists
  <2> HIDE DEF r
  <2> QED BY <2>1 DEF ShouldSendToClient
<1> HIDE DEF r
<1>5. StampsTell(r, old, k, n)
  BY <1>3, <1>4 DEF StampsTell
<1> QED BY <1>2, <1>5 DEF r

LEMMA CommitInv ==
    ASSUME IndInv, Commit
    PROVE  IndInv'
<1>1. Types /\ HubInv /\ ClientInv /\ NewsInv /\ NetInv /\ PeerInv
  BY DEF IndInv
<1>2. kind \in Kinds /\ Good(hub, kind) /\ Good(work, kind) /\ seq \in Nat /\ asked \in Nat
  BY <1>1 DEF Types, Good
<1>3. seq < MaxSeq /\ seq' = seq + 1 /\ work' = hub' /\ seq + 1 \in 0 .. MaxSeq
      /\ hub' = MergeState(hub, work, kind, seq + 1, TRUE)
  BY <1>2, ConstantFacts DEF Commit
<1>4. UNCHANGED <<kind, fixed, audience, edits, asked, net, acked, client, unseen, wire, peer>>
  BY DEF Commit, config, clientVars, peerVars
<1>5. PICK n : n = seq + 1
  OBVIOUS
<1>6. PICK r : r = MergeState(hub, work, kind, n, TRUE)
  OBVIOUS
<1>8. /\ Good(r, kind)
      /\ \A s \in StateSlots(kind) :
            \/ r.fields[s].last_modified = n
            \/ /\ r.fields[s].last_modified = hub.fields[s].last_modified
               /\ Effective(r.fields[s], Zero(kind, s)) = Effective(hub.fields[s], Zero(kind, s))
               /\ Decodes(r, kind, s) = Decodes(hub, kind, s)
      /\ \A g \in Groups :
            \/ r.lists[g].last_modified = n
            \/ /\ r.lists[g].last_modified = hub.lists[g].last_modified
               /\ \A c \in Clients :
                     ShouldSendToClient(r, c, g) <=> ShouldSendToClient(hub, c, g)
  <2>1. Good(r, kind) /\ StampsTell(r, hub, kind, n)
    BY <1>2, <1>3, <1>5, <1>6, CommitKeeps
  <2> QED BY <2>1 DEF StampsTell
<1>9. /\ \A s \in StateSlots(kind) : r.fields[s].last_modified <= r.last_modified
      /\ \A g \in Groups : r.lists[g].last_modified <= r.last_modified
  BY <1>2, <1>3, <1>5, <1>6, MergeStateFacts DEF Good
<1>10. hub' = r /\ seq' = n /\ r \in States(kind) /\ hub \in States(kind) /\ n \in 1 .. MaxSeq
  <2>1. n \in 1 .. MaxSeq
    BY <1>2, <1>3, <1>5
  <2>2. hub' = r /\ seq' = n
    BY ONLY <1>3, <1>5, <1>6
  <2> QED BY <1>2, <1>8, <2>1, <2>2 DEF Good
<1>11. PICK said : said = Saying(r, kind, asked)
  OBVIOUS
<1>12. said \in Sayings(kind) /\ Says(said, r, kind)
  BY <1>2, <1>10, <1>11, SayingFacts
<1>13. committed' = [t \in 0 .. n |-> IF t = n THEN said ELSE committed[t]]
  BY <1>4, <1>5, <1>10, <1>11 DEF Commit
<1>14. committed'[n] = said /\ (\A t \in 0 .. seq : committed'[t] = committed[t])
       /\ 0 \in 0 .. seq /\ seq \in 0 .. seq
  BY <1>2, <1>5, <1>13
<1>15. committed' \in [0 .. n -> Sayings(kind)]
  <2>1. \A t \in 0 .. n : t = n \/ t \in 0 .. seq
    BY <1>2, <1>5
  <2>2. committed \in [0 .. seq -> Sayings(kind)]
    BY <1>1 DEF Types
  <2> QED BY <1>12, <1>13, <2>1, <2>2
<1>16. Types'
  <2>1. acked \in [Groups -> Invalid .. n]
    <3>1. \A g \in Groups : acked[g] \in Invalid .. n
      BY <1>1, <1>2, <1>5 DEF Types, Invalid
    <3> QED BY <1>1, <3>1 DEF Types
  <2>2. ListsOK(r) /\ SlotsOK(r, kind) /\ n \in 0 .. MaxSeq
    BY <1>8, <1>10 DEF Good
  <2>3. {hub', work', client', peer'} \subseteq States(kind')
        /\ (\A state \in {hub', work', client', peer'} : ListsOK(state))
        /\ (\A state \in {hub', work', client'} : SlotsOK(state, kind'))
    BY <1>1, <1>3, <1>4, <1>10, <2>2 DEF Types
  <2> QED BY <1>1, <1>4, <1>10, <1>15, <2>1, <2>2, <2>3 DEF Types
<1>17. HubInv'
  <2>1. Says(committed[0], NewState(kind), kind)' /\ Says(committed[seq], hub, kind)'
    BY <1>1, <1>4, <1>10, <1>12, <1>14 DEF HubInv
  <2>2. \A s \in StateSlots(kind) :
           /\ said.values[s] = Effective(r.fields[s], Zero(kind, s))
           /\ said.decoded[s] = Decodes(r, kind, s)
           /\ committed[seq].values[s] = Effective(hub.fields[s], Zero(kind, s))
           /\ committed[seq].decoded[s] = Decodes(hub, kind, s)
    BY <1>1, <1>2, <1>10, <1>12, SaysFacts DEF HubInv
  <2>3. \A c \in Clients : \A g \in Groups :
           /\ g \in said.visible[c] <=> ShouldSendToClient(r, c, g)
           /\ g \in committed[seq].visible[c] <=> ShouldSendToClient(hub, c, g)
    BY <1>1, <1>2, <1>10, <1>12, SaysFacts DEF HubInv
  <2>4. ASSUME NEW s \in StateSlots(kind), NEW t \in 0 .. n, r.fields[s].last_modified <= t
        PROVE  committed'[t].values[s] = said.values[s] /\ committed'[t].decoded[s] = said.decoded[s]
    <3>1. CASE t = n
      BY <1>14, <3>1
    <3>2. CASE t # n
      <4>1. t \in 0 .. seq /\ t < n
        BY <1>2, <1>5, <3>2
      <4>2. r.fields[s].last_modified # n
        BY <1>10, <2>4, <4>1
      <4>3. hub.fields[s].last_modified <= t
        BY <1>8, <2>4, <4>2
      <4>4. committed[t].values[s] = committed[seq].values[s]
            /\ committed[t].decoded[s] = committed[seq].decoded[s]
        BY <1>1, <4>1, <4>3 DEF HubInv
      <4> QED BY <1>8, <1>14, <2>2, <4>1, <4>2, <4>4
    <3> QED BY <3>1, <3>2
  <2>5. ASSUME NEW g \in Groups, NEW t \in 0 .. n, r.lists[g].last_modified <= t, NEW c \in Clients
        PROVE  g \in committed'[t].visible[c] <=> g \in said.visible[c]
    <3>1. CASE t = n
      BY <1>14, <3>1
    <3>2. CASE t # n
      <4>1. t \in 0 .. seq /\ t < n
        BY <1>2, <1>5, <3>2
      <4>2. r.lists[g].last_modified # n
        BY <1>10, <2>5, <4>1
      <4>3. hub.lists[g].last_modified <= t
        BY <1>8, <2>5, <4>2
      <4>4. g \in committed[t].visible[c] <=> g \in committed[seq].visible[c]
        BY <1>1, <4>1, <4>3 DEF HubInv
      <4> QED BY <1>8, <1>14, <2>3, <4>1, <4>2, <4>4
    <3> QED BY <3>1, <3>2
  <2> QED BY <1>4, <1>9, <1>10, <1>14, <2>1, <2>4, <2>5 DEF HubInv
<1>18. ClientInv'
  <2>1. \A g \in Groups : Base(g)' = Base(g) /\ Base(g) \in 0 .. seq
    BY <1>1, <1>2, <1>4 DEF Types, Base, IsValid, Invalid
  <2>2. \A s \in StateSlots(kind) : client.fields[s].last_modified \in Int
    BY <1>1, <1>2, FieldFacts, StampFacts DEF Types
  <2>3. \A s \in StateSlots(kind) : client.fields[s].last_modified <= seq
    BY <1>1 DEF ClientInv
  <2>4. \A s \in StateSlots(kind) :
           /\ client.fields[s].last_modified <= n
           /\ client.fields[s].last_modified > 0 => client.fields[s].last_modified \in 0 .. seq
    BY <1>2, <1>5, <2>2, <2>3
  <2>5. \A g \in Groups : GroupSlots(kind, g) \subseteq StateSlots(kind)
    BY <1>2, KindFacts
  <2>6. NotDisclosed'
    BY <1>1, <1>4, <1>14, <2>4, <2>5 DEF ClientInv, NotDisclosed
  <2>7. \A g \in Groups : \A s \in GroupSlots(kind, g) \ Declared :
           Reading(client, kind)[s] = committed'[Base(g)'].decoded[s]
    BY <1>1, <1>14, <2>1 DEF ClientInv
  <2> QED BY <1>4, <1>10, <2>4, <2>6, <2>7 DEF ClientInv
<1>19. NetInv'
  <2>1. ASSUME NEW i \in 1 .. Len(net) PROVE MessageInv(net[i])'
    <3>1. net[i] \in Messages(kind) /\ MessageInv(net[i])
      BY <1>1 DEF Types, NetInv
    <3>2. net[i].seq \in 0 .. seq /\ net[i].seq <= n
      BY <1>2, <1>5, <3>1 DEF Messages, MessageInv
    <3>3. \A g \in Groups : Base(g)' = Base(g) /\ Base(g) \in Nat
      BY <1>1, <1>2, <1>4 DEF Types, Base, IsValid, Invalid
    <3>4. \A g \in Groups : \A t \in Base(g) .. net[i].seq : committed'[t] = committed[t]
      BY <1>14, <3>2, <3>3
    <3>5. committed'[net[i].seq] = committed[net[i].seq] /\ net[i].groups \subseteq Groups
      BY <1>14, <3>1, <3>2 DEF Messages
    <3> QED BY <1>4, <1>10, <3>1, <3>2, <3>3, <3>4, <3>5 DEF MessageInv
  <2> QED BY <1>1, <1>4, <2>1 DEF NetInv
<1>20. PeerInv'
  <2> SUFFICES ASSUME ~PeerDeltas
               PROVE  /\ peer.merged => peer.sequence \in 0 .. n
                      /\ PeerMirrors'
                      /\ \A s \in StateSlots(kind) :
                            ~IsValid(r.fields[s].last_modified) =>
                                Reading(peer, kind)[s] = committed'[0].decoded[s]
                      /\ \A i \in 1 .. Len(wire) : WireInv(wire[i])'
    BY <1>4, <1>10 DEF PeerInv
  <2>1. IsValid(n)
    BY <1>10 DEF IsValid, Invalid
  <2>2. peer.merged => peer.sequence \in 0 .. seq
    BY <1>1 DEF PeerInv
  <2>3. peer.merged => peer.sequence \in 0 .. n
    BY <1>2, <1>5, <2>2
  <2>4. PeerMirrors'
    BY <1>1, <1>4, <1>14, <2>2 DEF PeerInv, PeerMirrors
  <2>5. \A s \in StateSlots(kind) :
           ~IsValid(r.fields[s].last_modified) => ~IsValid(hub.fields[s].last_modified)
    BY SMTT(30), <1>8, <2>1
  <2>6. ASSUME NEW i \in 1 .. Len(wire) PROVE WireInv(wire[i])'
    <3>1. WireInv(wire[i]) /\ wire[i] \in [seq : 0 .. MaxSeq, body : Bodies(kind)]
      BY <1>1 DEF PeerInv, Types
    <3>2. wire[i].seq \in 0 .. seq /\ wire[i].seq <= n
      BY <1>2, <1>5, <3>1 DEF WireInv
    <3>3. DOMAIN wire[i].body.contents \subseteq StateSlots(kind)
      BY <3>1 DEF Bodies, Contents
    <3> QED BY <1>4, <1>10, <1>14, <2>5, <3>1, <3>2, <3>3 DEF WireInv
  <2> QED BY <1>1, <1>14, <2>3, <2>4, <2>5, <2>6 DEF PeerInv
<1>21. NewsInv'
  BY <1>1, <1>4, NewsFrame
<1> QED BY <1>16, <1>17, <1>18, <1>19, <1>20, <1>21 DEF IndInv

-----------------------------------------------------------------------------
(* The client's steps.                                                     *)

LEMMA MarshalFacts ==
    ASSUME NEW k \in Kinds, NEW state, Good(state, k), NEW target, NEW b \in [Groups -> Stamps]
    PROVE  LET c == MarshalContents(state, k, target, b)
           IN  /\ c \in Contents(k)
               /\ \A s \in StateSlots(k) :
                     s \in DOMAIN c <=>
                         \E g \in Groups :
                             /\ target = None \/ ShouldSendToClient(state, target, g)
                             /\ s \in GroupSlots(k, g) /\ IsDirtySince(state.fields[s], b[g])
               /\ \A s \in DOMAIN c : /\ c[s] = Decodes(state, k, s)
                                      /\ IsValid(state.fields[s].last_modified)
<1> DEFINE visible == {g \in Groups : target = None \/ ShouldSendToClient(state, target, g)}
           dirty == UNION {DirtySlots(state, k, g, b[g]) : g \in visible}
           c == MarshalContents(state, k, target, b)
<1>1. c = [s \in dirty |-> IF s \in Plain THEN state.fields[s].value
                           ELSE OnTheWire(k, s, state.fields[s].value)]
  BY DEF MarshalContents
<1>2. \A s : s \in dirty <=>
                 \E g \in Groups :
                     /\ target = None \/ ShouldSendToClient(state, target, g)
                     /\ s \in GroupSlots(k, g) /\ IsDirtySince(state.fields[s], b[g])
  BY DEF DirtySlots
<1>3. dirty \subseteq StateSlots(k)
  BY <1>2, KindFacts
<1> HIDE DEF visible, dirty, c
<1>4. ASSUME NEW s \in dirty
      PROVE  /\ c[s] = Decodes(state, k, s) /\ c[s] \in Int
             /\ IsValid(state.fields[s].last_modified)
  <2>1. IsValid(state.fields[s].last_modified) /\ s \in StateSlots(k)
    BY <1>2, <1>3, <1>4 DEF IsDirtySince
  <2>2. state.fields[s].value # None
    BY <2>1 DEF Good, SlotsOK
  <2>3. c[s] = Decodes(state, k, s)
    BY <1>1, <2>2 DEF Decodes, Effective
  <2>4. Decodes(state, k, s) \in Int
    BY <2>1, FieldFacts DEF Good
  <2> QED BY <2>1, <2>3, <2>4
<1>5. DOMAIN c = dirty
  BY <1>1
<1>6. c \in [dirty -> Int]
  BY <1>1, <1>4
<1>7. c \in Contents(k)
  BY <1>3, <1>6 DEF Contents
<1> QED BY <1>2, <1>4, <1>5, <1>7 DEF c

LEMMA SendInv ==
    ASSUME IndInv, Send
    PROVE  IndInv'
<1>1. Types /\ HubInv /\ ClientInv /\ NewsInv /\ NetInv /\ PeerInv
  BY DEF IndInv
<1>2. kind \in Kinds /\ Good(hub, kind) /\ hub \in States(kind) /\ seq \in 0 .. MaxSeq
      /\ seq \in Nat
  BY <1>1, ConstantFacts DEF Types, Good
<1>3. UNCHANGED <<kind, fixed, audience, hub, work, edits, seq, committed, asked, acked, client,
                  unseen, wire, peer>>
  BY DEF Send, config, hubVars, peerVars
<1>4. PICK c : c = MarshalContents(hub, kind, Client, acked)
  OBVIOUS
<1>5. PICK shown : shown = {g \in Groups : ShouldSendToClient(hub, Client, g)}
  OBVIOUS
<1>6. PICK m : m = [seq |-> seq, contents |-> c, groups |-> shown]
  OBVIOUS
<1>7. net' = Append(net, m) /\ Len(net) < MaxNet
  BY <1>4, <1>5, <1>6 DEF Send
<1>8. acked \in [Groups -> Stamps] /\ \A g \in Groups : acked[g] \in Invalid .. seq
  <2>1. Invalid .. seq \subseteq Stamps
    BY <1>2, ConstantFacts DEF Stamps, Invalid
  <2> QED BY <1>1, <2>1 DEF Types
<1>9. Client \in Clients /\ Client # None
  BY ConstantFacts
<1>10. /\ c \in Contents(kind)
       /\ \A s \in StateSlots(kind) :
             s \in DOMAIN c <=>
                 \E g \in Groups :
                     /\ ShouldSendToClient(hub, Client, g)
                     /\ s \in GroupSlots(kind, g) /\ IsDirtySince(hub.fields[s], acked[g])
       /\ \A s \in DOMAIN c : c[s] = Decodes(hub, kind, s)
  BY <1>2, <1>4, <1>8, <1>9, MarshalFacts
<1>11. m \in Messages(kind) /\ m.seq = seq /\ m.contents = c /\ m.groups = shown
  BY <1>2, <1>5, <1>6, <1>10 DEF Messages
<1>12. MessageInv(m)
  <2>1. /\ \A s \in StateSlots(kind) : committed[seq].decoded[s] = Decodes(hub, kind, s)
        /\ \A g \in Groups : g \in committed[seq].visible[Client]
                                 <=> ShouldSendToClient(hub, Client, g)
    BY <1>1, <1>2, <1>9, SaysFacts DEF HubInv
  <2>2. committed[seq].visible[Client] \in SUBSET Groups
    BY <1>1, <1>2, <1>9 DEF Types, Sayings
  <2>3. shown = committed[seq].visible[Client]
    BY <1>5, <2>1, <2>2
  <2>4. DOMAIN c \subseteq StateSlots(kind)
    BY <1>10 DEF Contents
  <2>5. \A s \in DOMAIN c : /\ \E g \in shown : s \in GroupSlots(kind, g)
                            /\ c[s] = committed[seq].decoded[s]
    BY <1>5, <1>10, <2>1, <2>4
  <2>6. ASSUME NEW g \in shown, NEW s \in GroupSlots(kind, g) \ DOMAIN c, NEW t \in Base(g) .. seq
        PROVE  committed[t].decoded[s] = committed[seq].decoded[s]
    <3>1. g \in Groups /\ s \in StateSlots(kind) /\ ShouldSendToClient(hub, Client, g)
      BY <1>2, <1>5, KindFacts
    <3>2. ~IsDirtySince(hub.fields[s], acked[g])
      BY <1>10, <3>1
    <3>3. hub.fields[s].last_modified \in Int /\ acked[g] \in Int
      BY <1>2, <1>8, <3>1, FieldFacts, StampFacts DEF Invalid
    <3>4. Base(g) \in 0 .. seq /\ (acked[g] <= Base(g))
      BY <1>2, <1>8, <3>1 DEF Base, IsValid, Invalid
    <3>5. t \in 0 .. seq /\ Base(g) <= t
      BY <1>2, <3>4
    <3>6. hub.fields[s].last_modified <= t
      BY <3>2, <3>3, <3>4, <3>5 DEF IsDirtySince, IsValid, Invalid
    <3> QED BY <1>1, <3>1, <3>5, <3>6 DEF HubInv
  <2>7. \A g \in Groups : acked[g] <= seq
    BY <1>2, <1>8 DEF Invalid
  <2> QED BY <1>2, <1>11, <2>3, <2>5, <2>6, <2>7 DEF MessageInv
<1>13. net \in Seq(Messages(kind)) /\ net' \in Seq(Messages(kind)) /\ Len(net') = Len(net) + 1
       /\ (\A i \in 1 .. Len(net) : net'[i] = net[i]) /\ net'[Len(net) + 1] = m
  BY <1>1, <1>7, <1>11 DEF Types
<1>14. Len(net) \in Nat /\ Len(net') <= MaxNet
  BY <1>7, <1>13, ConstantFacts
<1>15. Types'
  BY <1>1, <1>3, <1>13, <1>14 DEF Types
<1>16. NetInv'
  <2>1. ASSUME NEW i \in 1 .. Len(net') PROVE MessageInv(net'[i]) /\ net'[i].seq <= seq
    <3>1. CASE i \in 1 .. Len(net)
      BY SMTT(30), <1>1, <1>13, <3>1 DEF NetInv, MessageInv
    <3>2. CASE i = Len(net) + 1
      BY <1>12, <1>13, <3>2 DEF MessageInv
    <3> QED BY <1>13, <1>14, <3>1, <3>2
  <2>2. ASSUME NEW i \in 1 .. Len(net') PROVE MessageInv(net[i])'
    BY <1>3, <2>1 DEF MessageInv, Base
  <2>3. ASSUME NEW i \in 1 .. Len(net'), NEW j \in 1 .. Len(net'), i < j
        PROVE  net'[i].seq <= net'[j].seq
    <3>1. i \in 1 .. Len(net)
      BY <1>13, <1>14, <2>3
    <3>2. CASE j \in 1 .. Len(net)
      BY <1>1, <1>13, <2>3, <3>1, <3>2 DEF NetInv
    <3>3. CASE j = Len(net) + 1
      BY <1>11, <1>13, <2>1, <3>3
    <3> QED BY <1>13, <1>14, <3>2, <3>3
  <2> QED BY <2>2, <2>3 DEF NetInv
<1> QED BY <1>1, <1>3, <1>15, <1>16, HubFrame, ClientFrame, NewsFrame, PeerFrame DEF IndInv

LEMMA TailFacts ==
    ASSUME NEW S, NEW q \in Seq(S), q # << >>
    PROVE  /\ Tail(q) \in Seq(S) /\ Len(Tail(q)) = Len(q) - 1 /\ Len(q) \in Nat \ {0}
           /\ \A i \in 1 .. Len(Tail(q)) : i + 1 \in 1 .. Len(q) /\ Tail(q)[i] = q[i + 1]
           /\ 1 \in 1 .. Len(q) /\ Head(q) = q[1] /\ Head(q) \in S
<1>1. Len(q) \in Nat \ {0}
  BY EmptySeq
<1>2. Tail(q) \in Seq(S) /\ Len(Tail(q)) = Len(q) - 1 /\ Head(q) = q[1]
      /\ \A i \in 1 .. Len(Tail(q)) : Tail(q)[i] = q[i + 1]
  BY <1>1, HeadTailProperties
<1> QED BY <1>1, <1>2

LEMMA LoseInv ==
    ASSUME IndInv, Lose
    PROVE  IndInv'
<1>1. Types /\ HubInv /\ ClientInv /\ NewsInv /\ NetInv /\ PeerInv
  BY DEF IndInv
<1>2. UNCHANGED <<kind, fixed, audience, hub, work, edits, seq, committed, asked, acked, client,
                  unseen, wire, peer>>
  BY DEF Lose, config, hubVars, peerVars
<1>3. net # << >> /\ net' = Tail(net) /\ net \in Seq(Messages(kind))
  BY <1>1 DEF Lose, Types
<1>4. /\ net' \in Seq(Messages(kind)) /\ Len(net') = Len(net) - 1 /\ Len(net) \in Nat \ {0}
      /\ \A i \in 1 .. Len(net') : i + 1 \in 1 .. Len(net) /\ net'[i] = net[i + 1]
  BY <1>3, TailFacts
<1>5. Len(net') <= MaxNet
  BY <1>1, <1>4, ConstantFacts DEF Types
<1>6. Types'
  BY SMTT(30), <1>1, <1>2, <1>4, <1>5 DEF Types
<1>7. NetInv'
  <2>1. ASSUME NEW i \in 1 .. Len(net') PROVE MessageInv(net[i])'
    <3>1. MessageInv(net'[i])
      BY <1>1, <1>4 DEF NetInv
    <3> QED BY <1>2, <3>1 DEF MessageInv, Base
  <2>2. \A i, j \in 1 .. Len(net') : i < j => net'[i].seq <= net'[j].seq
    BY SMTT(30), <1>1, <1>4 DEF NetInv
  <2> QED BY <2>1, <2>2 DEF NetInv
<1> QED BY <1>1, <1>2, <1>6, <1>7, HubFrame, ClientFrame, NewsFrame, PeerFrame DEF IndInv

LEMMA DecodedFacts ==
    ASSUME NEW V, NEW v \in V
    PROVE  /\ Decoded(v) \in SlotOf(V) /\ Decoded(v).value = v /\ Decoded(v).last_modified = 0
           /\ Decoded(v).default = None
<1>1. Some(v) \in SlotOf(V) /\ Some(v).value = v /\ Some(v).last_modified = 0
      /\ Some(v).default = None
  BY StampFacts DEF Some, Unset, SlotOf, ValidNonSequence
<1> QED BY <1>1 DEF Decoded, SlotOf

\* decode_contents.
LEMMA UnmarshalFacts ==
    ASSUME NEW k \in Kinds, NEW c \in Contents(k)
    PROVE  /\ Good(UnmarshalContents(k, c), k)
           /\ DOMAIN c \subseteq StateSlots(k) /\ \A s \in DOMAIN c : c[s] \in Int
           /\ UnmarshalContents(k, c).lists = NewState(k).lists
           /\ \A s \in StateSlots(k) :
                 UnmarshalContents(k, c).fields[s] = IF s \in DOMAIN c THEN Decoded(c[s])
                                                     ELSE NewState(k).fields[s]
<1> DEFINE N == NewState(k)
           F == [s \in StateSlots(k) |-> IF s \in DOMAIN c THEN Decoded(c[s]) ELSE N.fields[s]]
           u == UnmarshalContents(k, c)
<1>1. Good(N, k) /\ N \in States(k) /\ DOMAIN N.fields = StateSlots(k)
  BY NewStateFacts DEF Good, States
<1>2. u = [N EXCEPT !.fields = F]
  BY <1>1 DEF UnmarshalContents
<1>3. DOMAIN c \subseteq StateSlots(k) /\ \A s \in DOMAIN c : c[s] \in Int
  BY DEF Contents
<1>4. \A s \in DOMAIN c : /\ Decoded(c[s]) \in SlotOf(Int) /\ Decoded(c[s]).value = c[s]
                          /\ Decoded(c[s]).default = None
  BY <1>3, DecodedFacts
<1> HIDE DEF N, u
<1>5. F \in [StateSlots(k) -> SlotOf(Int)] /\ \A s \in StateSlots(k) :
          F[s] = IF s \in DOMAIN c THEN Decoded(c[s]) ELSE N.fields[s]
  BY <1>1, <1>4 DEF States
<1> HIDE DEF F
<1>6. u \in States(k) /\ u.fields = F /\ u.lists = N.lists
  BY <1>1, <1>2, <1>5, WithFields
<1>7. ListsOK(u)
  BY <1>1, <1>6 DEF Good, ListsOK
<1>8. SlotsOK(u, k)
  <2>1. \A s \in DOMAIN c : c[s] # None
    BY <1>3, ConstantFacts
  <2>2. Slots(k) \subseteq StateSlots(k)
    BY DEF StateSlots
  <2> QED BY <1>1, <1>4, <1>5, <1>6, <2>1, <2>2 DEF Good, SlotsOK
<1> QED BY <1>3, <1>5, <1>6, <1>7, <1>8 DEF Good, N, u

\* What a client's state becomes with a message: what is in the message, and
\* what was there before.  The declared slots aside, only what is in the message
\* is stamped.
Received(r, old, c, k, n) ==
    /\ \A s \in StateSlots(k) \ Declared :
          /\ s \in DOMAIN c => Effective(r.fields[s], Zero(k, s)) = c[s]
          /\ s \notin DOMAIN c =>
                Effective(r.fields[s], Zero(k, s)) = Effective(old.fields[s], Zero(k, s))
          /\ \/ r.fields[s].last_modified = n /\ s \in DOMAIN c
             \/ /\ r.fields[s].last_modified = old.fields[s].last_modified
                /\ r.fields[s].value = old.fields[s].value
    /\ \A s \in StateSlots(k) :
          /\ \/ r.fields[s].last_modified = n
             \/ r.fields[s].last_modified = old.fields[s].last_modified
          /\ Noted(r.fields[s], old.fields[s], Zero(k, s))
          /\ r.fields[s].news => r.news

LEMMA ReceiveFacts ==
    ASSUME NEW k \in Kinds, NEW old, Good(old, k), NEW c \in Contents(k), NEW n \in 0 .. MaxSeq
    PROVE  /\ Good(MergeState(old, UnmarshalContents(k, c), k, n, TRUE), k)
           /\ Received(MergeState(old, UnmarshalContents(k, c), k, n, TRUE), old, c, k, n)
<1> DEFINE u == UnmarshalContents(k, c)
           r == MergeState(old, u, k, n, TRUE)
<1>1. /\ Good(u, k) /\ \A s \in DOMAIN c : c[s] \in Int
      /\ \A s \in StateSlots(k) :
            u.fields[s] = IF s \in DOMAIN c THEN Decoded(c[s]) ELSE NewState(k).fields[s]
  BY UnmarshalFacts
<1> HIDE DEF u
<1>2. old \in States(k) /\ u \in States(k) /\ ListsOK(old) /\ ListsOK(u)
      /\ SlotsOK(old, k) /\ SlotsOK(u, k)
  BY <1>1 DEF Good
<1>3. Good(r, k) /\ \A s \in StateSlots(k) : r.fields[s].news => r.news
  BY <1>2, MergeStateFacts, MergeLists, MergeSlotsOK DEF Good
<1>4. \A s \in StateSlots(k) : /\ Merged(r.fields[s], old.fields[s], u.fields[s], n, Zero(k, s))
                               /\ Noted(r.fields[s], old.fields[s], Zero(k, s))
  BY <1>2, MergeSlots
<1> HIDE DEF r
<1>5. \A s \in StateSlots(k) : \/ r.fields[s].last_modified = n
                               \/ r.fields[s].last_modified = old.fields[s].last_modified
  BY <1>4 DEF Merged, Taken, Kept
<1>6. ASSUME NEW s \in StateSlots(k) \ Declared
      PROVE  /\ s \in DOMAIN c => Effective(r.fields[s], Zero(k, s)) = c[s]
             /\ s \notin DOMAIN c =>
                   Effective(r.fields[s], Zero(k, s)) = Effective(old.fields[s], Zero(k, s))
             /\ \/ r.fields[s].last_modified = n /\ s \in DOMAIN c
                \/ /\ r.fields[s].last_modified = old.fields[s].last_modified
                   /\ r.fields[s].value = old.fields[s].value
  <2>1. Merged(r.fields[s], old.fields[s], u.fields[s], n, Zero(k, s))
    BY <1>4
  <2>2. CASE s \in DOMAIN c
    <3>1. /\ u.fields[s].value = c[s] /\ u.fields[s].last_modified = 0
          /\ u.fields[s].default = None /\ c[s] # None
      BY <1>1, <2>2, DecodedFacts, ConstantFacts
    <3>2. ~IsDefaultValue(u.fields[s]) /\ IsValid(u.fields[s].last_modified)
      BY <3>1 DEF IsDefaultValue, IsValid, Invalid
    <3>3. Effective(u.fields[s], Zero(k, s)) = c[s]
      BY <3>1 DEF Effective
    <3> QED BY <2>1, <2>2, <3>2, <3>3 DEF Merged, Taken, Kept, Wins
  <2>3. CASE s \notin DOMAIN c
    <3>1. u.fields[s] = Unset
      BY <1>1, <2>3, NewStateFacts
    <3>2. ~IsDefaultValue(u.fields[s]) /\ ~IsValid(u.fields[s].last_modified)
      BY <3>1 DEF IsDefaultValue, IsValid, Unset
    <3> QED BY <2>1, <2>3, <3>2 DEF Merged, Taken, Kept, Wins
  <2> QED BY <2>2, <2>3
<1>7. Received(r, old, c, k, n)
  BY <1>3, <1>4, <1>5, <1>6 DEF Received
<1> QED BY <1>3, <1>7 DEF r, u

LEMMA DeliverInv ==
    ASSUME IndInv, Deliver
    PROVE  IndInv'
<1>1. Types /\ HubInv /\ ClientInv /\ NewsInv /\ NetInv /\ PeerInv
  BY DEF IndInv
<1>2. kind \in Kinds /\ Good(client, kind) /\ client \in States(kind) /\ seq \in Nat
  BY <1>1 DEF Types, Good
<1>3. UNCHANGED <<kind, fixed, audience, hub, work, edits, seq, committed, asked, wire, peer>>
  BY DEF Deliver, config, hubVars, peerVars
<1>4. net # << >> /\ net' = Tail(net) /\ net \in Seq(Messages(kind))
  BY <1>1 DEF Deliver, Types
<1>5. PICK m : m = Head(net)
  OBVIOUS
<1>6. /\ net' \in Seq(Messages(kind)) /\ Len(net') = Len(net) - 1 /\ Len(net) \in Nat \ {0}
      /\ \A i \in 1 .. Len(net') : i + 1 \in 1 .. Len(net) /\ net'[i] = net[i + 1]
      /\ 1 \in 1 .. Len(net) /\ m = net[1] /\ m \in Messages(kind)
  BY <1>4, <1>5, TailFacts
<1>7. m.seq \in 0 .. MaxSeq /\ m.seq \in Nat /\ m.contents \in Contents(kind)
      /\ m.groups \in SUBSET Groups
  BY <1>6, ConstantFacts DEF Messages
<1>8. MessageInv(m)
  BY <1>1, <1>6 DEF NetInv
<1>9. PICK r : r = MergeState(client, UnmarshalContents(kind, m.contents), kind, m.seq, TRUE)
  OBVIOUS
<1>10. /\ client' = r
       /\ acked' = [g \in Groups |-> IF g \in m.groups THEN m.seq ELSE acked[g]]
       /\ unseen' = (unseen \/ Reading(client', kind) # Reading(client, kind))
  BY <1>5, <1>9 DEF Deliver
<1>11. Good(r, kind) /\ Received(r, client, m.contents, kind, m.seq) /\ r \in States(kind)
  <2>1. Good(r, kind) /\ Received(r, client, m.contents, kind, m.seq)
    BY <1>2, <1>7, <1>9, ReceiveFacts
  <2> QED BY <2>1 DEF Good
<1>12. /\ \A g \in Groups : acked[g] \in Invalid .. seq /\ acked[g] <= m.seq /\ acked[g] \in Int
       /\ m.seq <= seq
  BY <1>1, <1>2, <1>8 DEF Types, MessageInv, Invalid
<1>13. \A g \in Groups : /\ acked'[g] = IF g \in m.groups THEN m.seq ELSE acked[g]
                         /\ acked'[g] \in Invalid .. seq /\ acked'[g] <= m.seq
  BY <1>2, <1>7, <1>10, <1>12 DEF Invalid
<1>14. \A g \in Groups : /\ Base(g) \in 0 .. m.seq /\ Base(g)' \in Base(g) .. m.seq
                         /\ g \in m.groups => Base(g)' = m.seq
                         /\ g \notin m.groups => Base(g)' = Base(g)
  <2> SUFFICES ASSUME NEW g \in Groups
               PROVE  /\ Base(g) \in 0 .. m.seq /\ Base(g)' \in Base(g) .. m.seq
                      /\ g \in m.groups => Base(g)' = m.seq
                      /\ g \notin m.groups => Base(g)' = Base(g)
    OBVIOUS
  <2>1. Base(g) \in 0 .. m.seq
    BY <1>7, <1>12 DEF Base, IsValid, Invalid
  <2>2. Base(g)' = IF IsValid(acked'[g]) THEN acked'[g] ELSE 0
    BY DEF Base
  <2>3. CASE g \in m.groups
    BY <1>7, <1>13, <2>1, <2>2, <2>3 DEF IsValid, Invalid
  <2>4. CASE g \notin m.groups
    BY <1>13, <2>1, <2>2, <2>4 DEF Base
  <2> QED BY <2>3, <2>4
<1>15. Types'
  <2>1. acked' \in [Groups -> Invalid .. seq]
    BY <1>10, <1>13
  <2>2. unseen' \in BOOLEAN
    BY <1>1, <1>10 DEF Types
  <2>3. Len(net') <= MaxNet
    BY <1>1, <1>6, ConstantFacts DEF Types
  <2>4. {hub', work', client', peer'} \subseteq States(kind')
        /\ (\A state \in {hub', work', client', peer'} : ListsOK(state))
        /\ (\A state \in {hub', work', client'} : SlotsOK(state, kind'))
    BY <1>1, <1>3, <1>10, <1>11 DEF Types, Good
  <2> QED BY <1>1, <1>3, <1>6, <2>1, <2>2, <2>3, <2>4 DEF Types
<1>16. \A g \in Groups : \A s \in GroupSlots(kind, g) :
          /\ s \in StateSlots(kind)
          /\ s \in DOMAIN m.contents => g \in m.groups
  <2> SUFFICES ASSUME NEW g \in Groups, NEW s \in GroupSlots(kind, g)
               PROVE  s \in StateSlots(kind) /\ (s \in DOMAIN m.contents => g \in m.groups)
    OBVIOUS
  <2>1. s \in DOMAIN m.contents => \E h \in m.groups : s \in GroupSlots(kind, h)
    BY <1>8 DEF MessageInv
  <2> QED BY <1>2, <1>7, <2>1, KindFacts
<1>17. ClientInv'
  <2>1. ASSUME NEW g \in Groups, NEW s \in GroupSlots(kind, g) \ Declared
        PROVE  Reading(r, kind)[s] = committed[Base(g)'].decoded[s]
    <3>1. s \in StateSlots(kind) \ Declared /\ (s \in DOMAIN m.contents => g \in m.groups)
      BY <1>16
    <3>2. /\ Reading(r, kind)[s] = Effective(r.fields[s], Zero(kind, s))
          /\ Reading(client, kind)[s] = Effective(client.fields[s], Zero(kind, s))
      BY <1>2, <1>11, <3>1, FieldFacts
    <3>3. Reading(client, kind)[s] = committed[Base(g)].decoded[s]
      BY <1>1 DEF ClientInv
    <3>4. CASE s \in DOMAIN m.contents
      <4>1. Reading(r, kind)[s] = m.contents[s]
        BY <1>11, <3>1, <3>2, <3>4 DEF Received
      <4>2. m.contents[s] = committed[m.seq].decoded[s]
        BY <1>8, <3>4 DEF MessageInv
      <4> QED BY <1>14, <3>1, <3>4, <4>1, <4>2
    <3>5. CASE s \notin DOMAIN m.contents
      <4>1. Reading(r, kind)[s] = committed[Base(g)].decoded[s]
        BY <1>11, <3>1, <3>2, <3>3, <3>5 DEF Received
      <4>2. CASE g \in m.groups
        <5>1. Base(g) \in Base(g) .. m.seq
          BY <1>14
        <5>2. committed[Base(g)].decoded[s] = committed[m.seq].decoded[s]
          BY <1>8, <3>5, <4>2, <5>1 DEF MessageInv
        <5> QED BY <1>14, <4>1, <4>2, <5>2
      <4>3. CASE g \notin m.groups
        BY <1>14, <4>1, <4>3
      <4> QED BY <4>2, <4>3
    <3> QED BY <3>4, <3>5
  <2>2. \A s \in StateSlots(kind) : r.fields[s].last_modified <= seq
    BY <1>1, <1>11, <1>12 DEF Received, ClientInv
  <2>3. ASSUME NEW g \in Groups, NEW s \in GroupSlots(kind, g), r.fields[s].last_modified > 0,
               r.fields[s].value # None, s \notin Declared
        PROVE  g \in committed[r.fields[s].last_modified].visible[Client]
    <3>1. s \in StateSlots(kind) \ Declared
      BY <1>16, <2>3
    <3>2. CASE r.fields[s].last_modified = m.seq /\ s \in DOMAIN m.contents
      BY <1>8, <1>16, <3>2 DEF MessageInv
    <3>3. CASE r.fields[s].last_modified = client.fields[s].last_modified
               /\ r.fields[s].value = client.fields[s].value
      BY <1>1, <2>3, <3>3 DEF ClientInv, NotDisclosed
    <3> QED BY <1>11, <3>1, <3>2, <3>3 DEF Received
  <2>4. NotDisclosed'
    BY <1>3, <1>10, <2>3 DEF NotDisclosed
  <2> QED BY <1>3, <1>10, <2>1, <2>2, <2>4 DEF ClientInv
<1>18. NewsInv'
  <2>1. \A s \in StateSlots(kind) : r.fields[s].news => r.news
    BY <1>11 DEF Received
  <2>2. ASSUME NEW s \in StateSlots(kind), client.fields[s].news PROVE r.fields[s].news
    BY <1>11, <2>2 DEF Received, Noted
  <2>3. ASSUME Reading(r, kind) # Reading(client, kind)
        PROVE  \E s \in StateSlots(kind) : r.fields[s].news
    <3>1. PICK s \in StateSlots(kind) :
             Effective(r.fields[s], Zero(kind, s)) # Effective(client.fields[s], Zero(kind, s))
      BY <2>3 DEF Reading
    <3> QED BY <1>11, <3>1 DEF Received, Noted
  <2>4. unseen' => \E s \in StateSlots(kind) : r.fields[s].news
    <3>1. unseen => \E s \in StateSlots(kind) : r.fields[s].news
      BY <1>1, <2>2 DEF NewsInv
    <3> QED BY <1>10, <2>3, <3>1
  <2> QED BY <1>3, <1>10, <2>1, <2>4 DEF NewsInv
<1>19. NetInv'
  <2>1. ASSUME NEW i \in 1 .. Len(net') PROVE MessageInv(net[i])'
    <3>1. MessageInv(net'[i]) /\ net'[i] \in Messages(kind)
      BY <1>1, <1>6 DEF NetInv
    <3>2. m.seq <= net'[i].seq
      <4>1. i + 1 \in 1 .. Len(net) /\ 1 < i + 1
        BY <1>6
      <4> QED BY <1>1, <1>6, <4>1 DEF NetInv
    <3>3. net'[i].seq \in Nat /\ net'[i].groups \subseteq Groups
      BY <3>1, ConstantFacts DEF Messages
    <3>4. \A g \in Groups : acked'[g] <= net'[i].seq
      BY <1>2, <1>7, <1>13, <3>2, <3>3 DEF Invalid
    <3>5. \A g \in Groups : \A t \in Base(g)' .. net'[i].seq : t \in Base(g) .. net'[i].seq
      BY <1>7, <1>14, <3>3
    <3> QED BY <1>3, <3>1, <3>3, <3>4, <3>5 DEF MessageInv
  <2>2. \A i, j \in 1 .. Len(net') : i < j => net'[i].seq <= net'[j].seq
    BY SMTT(30), <1>1, <1>6 DEF NetInv
  <2> QED BY <2>1, <2>2 DEF NetInv
<1> QED BY <1>1, <1>3, <1>15, <1>17, <1>18, <1>19, HubFrame, PeerFrame DEF IndInv

\* reset_has_new_network_data touches nothing but the news.
LEMMA ResetFacts ==
    ASSUME NEW k \in Kinds, NEW state, Good(state, k)
    PROVE  /\ Good(ResetState(state), k) /\ ~ResetState(state).news
           /\ \A s \in StateSlots(k) :
                 /\ ResetState(state).fields[s].value = state.fields[s].value
                 /\ ResetState(state).fields[s].last_modified = state.fields[s].last_modified
                 /\ ~ResetState(state).fields[s].news
<1> DEFINE F == [s \in DOMAIN state.fields |-> ResetNews(state.fields[s])]
           L == [g \in Groups |-> ResetNews(state.lists[g])]
           B == [g \in Groups |-> ResetNews(state.bits[g])]
           r == ResetState(state)
<1>0. state \in States(k) /\ DOMAIN state.fields = StateSlots(k)
  BY DEF Good, States
<1>1. ASSUME NEW V, NEW f \in SlotOf(V)
      PROVE  /\ ResetNews(f) \in SlotOf(V) /\ ResetNews(f).value = f.value
             /\ ResetNews(f).last_modified = f.last_modified /\ ResetNews(f).default = f.default
             /\ ResetNews(f).news = FALSE
  BY DEF ResetNews, SlotOf
<1>2. \A s \in StateSlots(k) :
         /\ F[s] \in SlotOf(Int) /\ F[s].value = state.fields[s].value
         /\ F[s].last_modified = state.fields[s].last_modified
         /\ F[s].default = state.fields[s].default
  BY ZenonT(60), <1>0, <1>1 DEF States
<1>3. \A s \in StateSlots(k) : F[s].news = FALSE
  BY ZenonT(60), <1>0, <1>1 DEF States
<1>4. \A g \in Groups :
         /\ L[g] \in SlotOf(Whitelists) /\ L[g].value = state.lists[g].value
         /\ L[g].last_modified = state.lists[g].last_modified
         /\ L[g].default = state.lists[g].default
  BY ZenonT(60), <1>0, <1>1 DEF States
<1>5. \A g \in Groups : B[g] \in SlotOf(SUBSET StateSlots(k))
  BY <1>0, <1>1 DEF States
<1>6. F \in [StateSlots(k) -> SlotOf(Int)] /\ L \in [Groups -> SlotOf(Whitelists)]
      /\ B \in [Groups -> SlotOf(SUBSET StateSlots(k))]
  BY <1>0, <1>2, <1>4, <1>5
<1>7. r = [state EXCEPT !.fields = F, !.lists = L, !.bits = B, !.news = FALSE]
  BY DEF ResetState
<1> HIDE DEF F, L, B, r
<1>8. r \in States(k) /\ r.fields = F /\ r.lists = L
  BY <1>0, <1>6, <1>7 DEF States
<1>9. r.news = FALSE
  BY <1>0, <1>7 DEF States
<1>10. ListsOK(r)
  BY <1>4, <1>8 DEF Good, ListsOK
<1>11. SlotsOK(r, k)
  <2>1. Slots(k) \subseteq StateSlots(k)
    BY DEF StateSlots
  <2> QED BY <1>2, <1>8, <2>1 DEF Good, SlotsOK
<1> QED BY <1>2, <1>3, <1>8, <1>9, <1>10, <1>11 DEF Good, r

LEMMA TakeNewsInv ==
    ASSUME IndInv, TakeNews
    PROVE  IndInv'
<1>1. Types /\ HubInv /\ ClientInv /\ NewsInv /\ NetInv /\ PeerInv
  BY DEF IndInv
<1>2. kind \in Kinds /\ Good(client, kind) /\ client \in States(kind)
  BY <1>1 DEF Types, Good
<1>3. UNCHANGED <<kind, fixed, audience, hub, work, edits, seq, committed, asked, net, acked,
                  wire, peer>>
  BY DEF TakeNews, config, hubVars, peerVars
<1>4. PICK r : r = ResetState(client)
  OBVIOUS
<1>5. client' = r
  BY <1>4 DEF TakeNews
<1>6. unseen' = FALSE
  BY DEF TakeNews
<1>7. /\ Good(r, kind)
      /\ \A s \in StateSlots(kind) :
            /\ r.fields[s].value = client.fields[s].value
            /\ r.fields[s].last_modified = client.fields[s].last_modified
            /\ ~r.fields[s].news
  BY <1>2, <1>4, ResetFacts
<1>8. Types'
  <2>1. {hub', work', client', peer'} \subseteq States(kind')
        /\ (\A state \in {hub', work', client', peer'} : ListsOK(state))
        /\ (\A state \in {hub', work', client'} : SlotsOK(state, kind'))
    BY <1>1, <1>3, <1>5, <1>7 DEF Types, Good
  <2>2. unseen' \in BOOLEAN
    BY <1>6
  <2> QED BY <1>1, <1>3, <2>1, <2>2 DEF Types
<1>9. ClientInv'
  <2>1. \A s \in StateSlots(kind) : Reading(r, kind)[s] = Reading(client, kind)[s]
    BY <1>7 DEF Reading, Effective
  <2>2. \A g \in Groups : GroupSlots(kind, g) \subseteq StateSlots(kind)
    BY <1>2, KindFacts
  <2>3. NotDisclosed'
    BY <1>1, <1>3, <1>5, <1>7, <2>2 DEF ClientInv, NotDisclosed
  <2>4. \A g \in Groups : Base(g)' = Base(g)
    BY <1>3 DEF Base
  <2> QED BY <1>1, <1>3, <1>5, <1>7, <2>1, <2>2, <2>3, <2>4 DEF ClientInv
<1>10. NewsInv'
  BY <1>3, <1>5, <1>6, <1>7 DEF NewsInv
<1> QED BY <1>1, <1>3, <1>8, <1>9, <1>10, HubFrame, NetFrame, PeerFrame DEF IndInv

-----------------------------------------------------------------------------
(* The peer's steps.                                                       *)

\* full_marshal, without a baseline: every slot and whitelist that has a stamp.
WholeBody(b, state, k) ==
    /\ \A s \in StateSlots(k) :
          /\ s \in DOMAIN b.contents <=> IsValid(state.fields[s].last_modified)
          /\ b.metadata.fields[s] = state.fields[s].last_modified
    /\ \A s \in DOMAIN b.contents : b.contents[s] = Decodes(state, k, s)
    /\ DOMAIN b.attributes.lists = Groups
    /\ \A g \in Groups : b.attributes.lists[g] = state.lists[g].value

LEMMA FullMarshalFacts ==
    ASSUME NEW k \in Kinds, NEW state, Good(state, k), NEW fx \in BOOLEAN, NEW b \in Stamps
    PROVE  /\ FullMarshal(state, k, fx, b) \in Bodies(k)
           /\ b = Invalid => WholeBody(FullMarshal(state, k, fx, b), state, k)
<1> DEFINE base == [g \in Groups |-> b]
           c == MarshalContents(state, k, None, base)
           dirty == {h \in Groups : IsDirtySince(state.lists[h], b)}
           L == [g \in dirty |-> state.lists[g].value]
           marked == {h \in Groups : ~fx /\ b < ValidNonSequence}
           B == [g \in marked |-> DefaultBits(state, k, g)]
           MF == [s \in DOMAIN state.fields |-> state.fields[s].last_modified]
           ML == [g \in Groups |-> state.lists[g].last_modified]
           m == FullMarshal(state, k, fx, b)
<1>1. base \in [Groups -> Stamps] /\ \A g \in Groups : base[g] = b
  OBVIOUS
<1>2. /\ c \in Contents(k)
      /\ \A s \in StateSlots(k) :
            s \in DOMAIN c <=>
                \E g \in Groups : s \in GroupSlots(k, g) /\ IsDirtySince(state.fields[s], base[g])
      /\ \A s \in DOMAIN c : c[s] = Decodes(state, k, s)
  BY <1>1, MarshalFacts
<1>3. state \in States(k) /\ DOMAIN state.fields = StateSlots(k)
  BY DEF Good, States
<1>4. \A g \in Groups : /\ state.lists[g].value \in Whitelists
                        /\ state.lists[g].last_modified \in 0 .. MaxSeq
  <2>1. \A g \in Groups : state.lists[g].last_modified \in Stamps
    BY <1>3 DEF States, SlotOf
  <2> QED BY <2>1, WhitelistValue, StampFacts DEF Good, ListsOK
<1>5. L \in UNION {[D -> Whitelists] : D \in SUBSET Groups}
  <2>1. L \in [dirty -> Whitelists] /\ dirty \in SUBSET Groups
    BY <1>4
  <2> QED BY <2>1
<1>6. B \in UNION {[D -> SUBSET StateSlots(k)] : D \in SUBSET Groups}
  <2>1. \A g \in Groups : DefaultBits(state, k, g) \in SUBSET StateSlots(k)
    BY KindFacts DEF DefaultBits
  <2>2. B \in [marked -> SUBSET StateSlots(k)] /\ marked \in SUBSET Groups
    BY <2>1
  <2> QED BY <2>2
<1>7. MF \in [StateSlots(k) -> Stamps] /\ \A s \in StateSlots(k) : MF[s] = state.fields[s].last_modified
  BY <1>3, FieldFacts
<1>8. ML \in [Groups -> 0 .. MaxSeq]
  BY <1>4
<1>9. m = [contents |-> c, attributes |-> [lists |-> L, bits |-> B],
           metadata |-> [fields |-> MF, lists |-> ML]]
  BY DEF FullMarshal, MarshalAttributes, MarshalMetadata
<1>10. b = Invalid => DOMAIN L = Groups /\ \A g \in Groups : L[g] = state.lists[g].value
  BY <1>4 DEF IsDirtySince, IsValid, Invalid
<1>11. b = Invalid => \A s \in StateSlots(k) : s \in DOMAIN c <=> IsValid(state.fields[s].last_modified)
  <2> SUFFICES ASSUME b = Invalid, NEW s \in StateSlots(k)
               PROVE  s \in DOMAIN c <=> IsValid(state.fields[s].last_modified)
    OBVIOUS
  <2>1. state.fields[s].last_modified \in Stamps
    BY <1>3, FieldFacts
  <2>2. IsDirtySince(state.fields[s], Invalid) <=> IsValid(state.fields[s].last_modified)
    BY <2>1, ConstantFacts DEF IsDirtySince, IsValid, Invalid, Stamps
  <2>3. \E g \in Groups : s \in GroupSlots(k, g)
    BY KindFacts
  <2> HIDE DEF c
  <2> QED BY <1>1, <1>2, <2>2, <2>3
<1> HIDE DEF c, L, B, MF, ML, m
<1>12. m \in Bodies(k)
  BY <1>2, <1>5, <1>6, <1>7, <1>8, <1>9 DEF Bodies
<1>13. m.contents = c /\ m.attributes.lists = L /\ m.metadata.fields = MF
  BY <1>9
<1>14. b = Invalid => WholeBody(m, state, k)
  BY <1>2, <1>7, <1>10, <1>11, <1>13 DEF WholeBody
<1> QED BY <1>12, <1>14 DEF m

LEMMA SendPeerInv ==
    ASSUME IndInv, SendPeer
    PROVE  IndInv'
<1>1. Types /\ HubInv /\ ClientInv /\ NewsInv /\ NetInv /\ PeerInv
  BY DEF IndInv
<1>2. kind \in Kinds /\ Good(hub, kind) /\ hub \in States(kind) /\ fixed \in BOOLEAN
      /\ seq \in 0 .. MaxSeq /\ seq \in Nat /\ peer \in States(kind)
  BY <1>1, ConstantFacts DEF Types, Good
<1>3. UNCHANGED <<kind, fixed, audience, hub, work, edits, seq, committed, asked, net, acked,
                  client, unseen, peer>>
  BY DEF SendPeer, config, hubVars, clientVars
<1>4. PICK b \in {Invalid} \cup (IF PeerDeltas /\ peer.merged THEN {peer.sequence} ELSE {}) :
         wire' = <<[seq |-> seq, body |-> FullMarshal(hub, kind, fixed, b)]>>
  BY DEF SendPeer
<1>5. b \in Stamps /\ (~PeerDeltas => b = Invalid)
  BY <1>2, StampFacts DEF States
<1>6. PICK m : m = FullMarshal(hub, kind, fixed, b)
  OBVIOUS
<1>7. m \in Bodies(kind) /\ (~PeerDeltas => WholeBody(m, hub, kind))
  BY <1>2, <1>5, <1>6, FullMarshalFacts
<1>8. PICK w : w = [seq |-> seq, body |-> m]
  OBVIOUS
<1>9. wire' = << w >> /\ w \in [seq : 0 .. MaxSeq, body : Bodies(kind)] /\ w.seq = seq
      /\ w.body = m
  BY <1>2, <1>4, <1>6, <1>7, <1>8
<1>10. Types'
  BY <1>1, <1>3, <1>9 DEF Types
<1>11. PeerInv'
  <2> SUFFICES ASSUME ~PeerDeltas PROVE WireInv(w)
    <3>1. PeerMirrors => PeerMirrors'
      BY <1>3 DEF PeerMirrors
    <3>2. WireInv(w) => WireInv(w)'
      BY <1>3 DEF WireInv
    <3>3. Len(wire') = 1 /\ wire'[1] = w
      BY <1>9
    <3>4. (~PeerDeltas => WireInv(w)) => (~PeerDeltas => \A i \in 1 .. Len(wire') : WireInv(wire[i])')
      <4>1. ASSUME NEW i \in 1 .. Len(wire'), WireInv(w) PROVE WireInv(wire[i])'
        <5>1. wire'[i] = w
          BY <3>3
        <5> QED BY <1>3, <4>1, <5>1 DEF WireInv
      <4> QED BY <4>1
    <3> QED BY <1>1, <1>3, <3>1, <3>4 DEF PeerInv
  <2>1. WholeBody(m, hub, kind)
    BY <1>7
  <2>2. /\ \A s \in StateSlots(kind) : committed[seq].decoded[s] = Decodes(hub, kind, s)
        /\ \A c \in Clients : \A g \in Groups :
              g \in committed[seq].visible[c] <=> ShouldSendToClient(hub, c, g)
    BY <1>1, <1>2, SaysFacts DEF HubInv
  <2>3. DOMAIN m.contents \subseteq StateSlots(kind)
    BY <1>7 DEF Bodies, Contents
  <2>4. \A s \in DOMAIN m.contents :
           /\ m.contents[s] = committed[seq].decoded[s]
           /\ IsValid(m.metadata.fields[s]) /\ IsValid(hub.fields[s].last_modified)
    BY <2>1, <2>2, <2>3 DEF WholeBody
  <2>5. ASSUME NEW s \in StateSlots(kind) \ DOMAIN m.contents
        PROVE  /\ ~IsValid(m.metadata.fields[s])
               /\ Reading(peer, kind)[s] = committed[0].decoded[s]
               /\ committed[seq].decoded[s] = committed[0].decoded[s]
    <3>1. ~IsValid(hub.fields[s].last_modified) /\ ~IsValid(m.metadata.fields[s])
      BY <2>1 DEF WholeBody
    <3>2. hub.fields[s].last_modified <= 0 /\ 0 \in 0 .. seq
      BY <1>2, <3>1 DEF IsValid, Invalid
    <3>3. Reading(peer, kind)[s] = committed[0].decoded[s]
      BY <1>1, <3>1 DEF PeerInv
    <3> QED BY <1>1, <3>1, <3>2, <3>3 DEF HubInv
  <2>6. DOMAIN m.attributes.lists = Groups
        /\ \A g \in Groups : \A c \in Clients :
              (\/ m.attributes.lists[g] = NoClients
               \/ m.attributes.lists[g][c] > 0) <=> g \in committed[seq].visible[c]
    BY <2>1, <2>2 DEF WholeBody, ShouldSendToClient
  <2> QED BY <1>2, <1>9, <2>4, <2>5, <2>6 DEF WireInv
<1> QED BY <1>1, <1>3, <1>10, <1>11, HubFrame, ClientFrame, NewsFrame, NetFrame DEF IndInv

\* full_unmarshal: whichever way the attributes and the metadata go over the
\* fields, a slot says what was sent of it or, if nothing was, what a new one says.
Unpacked(u, b, k) ==
    /\ \A s \in StateSlots(k) :
          /\ u.fields[s].last_modified = b.metadata.fields[s]
          /\ Effective(u.fields[s], Zero(k, s)) =
                 IF s \in DOMAIN b.contents THEN b.contents[s]
                 ELSE Effective(NewState(k).fields[s], Zero(k, s))
    /\ \A g \in DOMAIN b.attributes.lists : u.lists[g].value = b.attributes.lists[g]

LEMMA FullUnmarshalFacts ==
    ASSUME NEW k \in Kinds, NEW fx \in BOOLEAN, NEW b \in Bodies(k)
    PROVE  /\ FullUnmarshal(k, fx, b) \in States(k) /\ ListsOK(FullUnmarshal(k, fx, b))
           /\ Unpacked(FullUnmarshal(k, fx, b), b, k)
<1> DEFINE c == b.contents
           a == b.attributes
           meta == b.metadata
           u0 == UnmarshalContents(k, c)
           u1 == UnmarshalAttributes(u0, k, fx, a)
           u2 == UnmarshalMetadata(u1, meta)
<1>1. /\ c \in Contents(k) /\ meta.fields \in [StateSlots(k) -> Stamps]
      /\ meta.lists \in [Groups -> 0 .. MaxSeq]
  BY DEF Bodies
<1>2. /\ DOMAIN a.lists \subseteq Groups /\ DOMAIN a.bits \subseteq Groups
      /\ \A g \in DOMAIN a.lists : a.lists[g] \in Whitelists
      /\ \A g \in DOMAIN a.bits : a.bits[g] \in SUBSET StateSlots(k)
  BY DEF Bodies
<1> HIDE DEF c, a, meta
<1>3. /\ u0 \in States(k) /\ u0.lists = NewState(k).lists
      /\ \A s \in DOMAIN c : c[s] \in Int
      /\ \A s \in StateSlots(k) :
            u0.fields[s] = IF s \in DOMAIN c THEN Decoded(c[s]) ELSE NewState(k).fields[s]
  BY <1>1, UnmarshalFacts DEF Good
<1>4. \A g \in Groups : u0.lists[g] = Some(NoClients)
  BY <1>3, NewStateFacts
<1>5. NoClients \in Whitelists /\ Some(NoClients) \in SlotOf(Whitelists)
      /\ Some(NoClients).value = NoClients /\ Some(NoClients).default = None
  <2>1. NoClients \in Whitelists
    BY DEF NoClients, Whitelists
  <2> QED BY <2>1, StampFacts DEF Some, Unset, SlotOf, ValidNonSequence
<1>6. \A s \in StateSlots(k) :
         Effective(u0.fields[s], Zero(k, s)) = IF s \in DOMAIN c THEN c[s]
                                               ELSE Effective(NewState(k).fields[s], Zero(k, s))
  <2>1. \A s \in DOMAIN c : Decoded(c[s]).value = c[s] /\ c[s] # None
    BY <1>3, DecodedFacts, ConstantFacts
  <2> QED BY <1>3, <2>1 DEF Effective
<1>7. u0.fields \in [StateSlots(k) -> SlotOf(Int)] /\ u0.lists \in [Groups -> SlotOf(Whitelists)]
      /\ u0.bits \in [Groups -> SlotOf(SUBSET StateSlots(k))]
  BY <1>3 DEF States
<1> HIDE DEF u0
<1> DEFINE list(g) == IF g \in DOMAIN a.lists
                      THEN IF fx THEN SetValue(u0.lists[g], a.lists[g]) ELSE Decoded(a.lists[g])
                      ELSE u0.lists[g]
           bits(g) == IF g \in DOMAIN a.bits THEN Decoded(a.bits[g]) ELSE u0.bits[g]
           isDefault(s) == ~fx /\ \E g \in Groups : s \in bits(g).value
           F == [s \in DOMAIN u0.fields |->
                   IF isDefault(s) THEN SetCurrentValueAsDefault(u0.fields[s], Zero(k, s))
                   ELSE u0.fields[s]]
           L == [g \in Groups |-> list(g)]
           B == [g \in Groups |-> bits(g)]
<1>8. u1 = [u0 EXCEPT !.lists = L, !.bits = B, !.fields = F]
  BY DEF UnmarshalAttributes
<1>9. ASSUME NEW g \in Groups
      PROVE  /\ L[g] \in SlotOf(Whitelists) /\ L[g].value \in Whitelists /\ L[g].default = None
             /\ g \in DOMAIN a.lists => L[g].value = a.lists[g]
             /\ B[g] \in SlotOf(SUBSET StateSlots(k))
  <2>1. CASE g \in DOMAIN a.lists /\ fx
    <3>1. L[g] = SetValue(u0.lists[g], a.lists[g]) /\ u0.lists[g] \in SlotOf(Whitelists)
          /\ u0.lists[g].default = None /\ a.lists[g] \in Whitelists
      BY <1>2, <1>4, <1>5, <1>7, <2>1
    <3>2. L[g] \in SlotOf(Whitelists) /\ L[g].value = a.lists[g] /\ L[g].default = None
      <4> HIDE DEF L
      <4> QED BY <3>1, StampFacts DEF SetValue, SlotOf
    <3>3. B[g] \in SlotOf(SUBSET StateSlots(k))
      BY <1>2, <1>7, DecodedFacts
    <3> QED BY <3>1, <3>2, <3>3
  <2>2. CASE g \in DOMAIN a.lists /\ ~fx
    <3>1. L[g] = Decoded(a.lists[g]) /\ a.lists[g] \in Whitelists
      BY <1>2, <2>2
    <3>2. B[g] \in SlotOf(SUBSET StateSlots(k))
      BY <1>2, <1>7, DecodedFacts
    <3> HIDE DEF L
    <3> QED BY <3>1, <3>2, DecodedFacts
  <2>3. CASE g \notin DOMAIN a.lists
    <3>1. L[g] = Some(NoClients)
      BY <1>4, <2>3
    <3>2. B[g] \in SlotOf(SUBSET StateSlots(k))
      BY <1>2, <1>7, DecodedFacts
    <3> HIDE DEF L
    <3> QED BY <1>5, <2>3, <3>1, <3>2
  <2> QED BY <2>1, <2>2, <2>3
<1>10. ASSUME NEW s \in StateSlots(k)
       PROVE  /\ F[s] \in SlotOf(Int)
              /\ Effective(F[s], Zero(k, s)) = Effective(u0.fields[s], Zero(k, s))
  <2>1. F[s] = u0.fields[s] \/ F[s] = SetCurrentValueAsDefault(u0.fields[s], Zero(k, s))
    BY <1>7
  <2>2. u0.fields[s] \in SlotOf(Int) /\ Zero(k, s) \in Int
    BY <1>7, KindFacts
  <2> HIDE DEF F
  <2> QED BY <2>1, <2>2, CurrentAsDefaultFacts
<1>11. F \in [StateSlots(k) -> SlotOf(Int)] /\ L \in [Groups -> SlotOf(Whitelists)]
       /\ B \in [Groups -> SlotOf(SUBSET StateSlots(k))]
  BY <1>7, <1>9, <1>10
<1> HIDE DEF list, bits, isDefault, F, L, B, u1
<1>12. u1 \in States(k) /\ u1.fields = F /\ u1.lists = L
  BY <1>3, <1>8, <1>11 DEF States
<1> DEFINE F2 == [s \in DOMAIN u1.fields |-> [u1.fields[s] EXCEPT !.last_modified = meta.fields[s]]]
           L2 == [g \in Groups |-> [u1.lists[g] EXCEPT !.last_modified = meta.lists[g]]]
<1>13. u2 = [u1 EXCEPT !.fields = F2, !.lists = L2]
  BY DEF UnmarshalMetadata
<1>14. ASSUME NEW s \in StateSlots(k)
       PROVE  /\ F2[s] \in SlotOf(Int) /\ F2[s].last_modified = meta.fields[s]
              /\ Effective(F2[s], Zero(k, s)) = Effective(F[s], Zero(k, s))
  <2>1. F2[s] = [F[s] EXCEPT !.last_modified = meta.fields[s]]
    BY <1>11, <1>12
  <2>2. F[s] \in SlotOf(Int) /\ meta.fields[s] \in Stamps
    BY <1>1, <1>11
  <2> HIDE DEF F2
  <2> QED BY <2>1, <2>2 DEF SlotOf, Effective
<1>15. ASSUME NEW g \in Groups
       PROVE  /\ L2[g] \in SlotOf(Whitelists) /\ L2[g].last_modified = meta.lists[g]
              /\ L2[g].value = L[g].value /\ L2[g].default = None
  <2>1. L2[g] = [L[g] EXCEPT !.last_modified = meta.lists[g]]
    BY <1>12
  <2>2. L[g] \in SlotOf(Whitelists) /\ meta.lists[g] \in Stamps /\ L[g].default = None
    BY <1>1, <1>9, StampFacts
  <2> HIDE DEF L2
  <2> QED BY <2>1, <2>2 DEF SlotOf
<1>16. F2 \in [StateSlots(k) -> SlotOf(Int)] /\ L2 \in [Groups -> SlotOf(Whitelists)]
  BY <1>11, <1>12, <1>14, <1>15
<1> HIDE DEF F2, L2, u2
<1>17. u2 \in States(k) /\ u2.fields = F2 /\ u2.lists = L2
  BY <1>12, <1>13, <1>16 DEF States
<1>18. ListsOK(u2)
  <2>1. \A g \in Groups : IsValid(meta.lists[g])
    BY <1>1 DEF IsValid, Invalid
  <2>2. \A g \in Groups : L[g].value # None
    BY <1>9, ConstantFacts
  <2> QED BY <1>15, <1>17, <2>1, <2>2 DEF ListsOK
<1>19. Unpacked(u2, b, k)
  BY <1>2, <1>6, <1>9, <1>10, <1>14, <1>15, <1>17 DEF Unpacked, c, a, meta
<1>20. FullUnmarshal(k, fx, b) = u2
  BY DEF FullUnmarshal, u0, u1, u2, c, a, meta
<1> QED BY <1>17, <1>18, <1>19, <1>20

LEMMA DeliverPeerInv ==
    ASSUME IndInv, DeliverPeer
    PROVE  IndInv'
<1>1. Types /\ HubInv /\ ClientInv /\ NewsInv /\ NetInv /\ PeerInv
  BY DEF IndInv
<1>2. kind \in Kinds /\ fixed \in BOOLEAN /\ seq \in Nat /\ peer \in States(kind) /\ ListsOK(peer)
  BY <1>1 DEF Types
<1>3. UNCHANGED <<kind, fixed, audience, hub, work, edits, seq, committed, asked, net, acked,
                  client, unseen>>
  BY DEF DeliverPeer, config, hubVars, clientVars
<1>4. PICK w \in [seq : 0 .. MaxSeq, body : Bodies(kind)] : wire = << w >>
  BY <1>1 DEF Types, DeliverPeer
<1>5. wire[1] = w /\ Len(wire) = 1 /\ w.seq \in 0 .. MaxSeq /\ w.body \in Bodies(kind)
  BY <1>4
<1>6. PICK u : u = FullUnmarshal(kind, fixed, w.body)
  OBVIOUS
<1>7. PICK r : r = MergeState(peer, u, kind, w.seq, TRUE)
  OBVIOUS
<1>8. peer' = r /\ wire' = << >>
  BY <1>5, <1>6, <1>7 DEF DeliverPeer
<1>9. u \in States(kind) /\ ListsOK(u) /\ Unpacked(u, w.body, kind)
  BY <1>2, <1>5, <1>6, FullUnmarshalFacts
<1>10. r \in States(kind) /\ r.merged /\ r.sequence = w.seq
  BY ZenonT(60), <1>2, <1>5, <1>7, <1>9, MergeStateFacts
<1>11. ListsOK(r) /\ \A g \in Groups : r.lists[g].value = u.lists[g].value
  BY ZenonT(60), <1>2, <1>5, <1>7, <1>9, MergeLists
<1>12. \A s \in StateSlots(kind) :
          Merged(r.fields[s], peer.fields[s], u.fields[s], w.seq, Zero(kind, s))
  BY <1>2, <1>5, <1>7, <1>9, MergeSlots
<1>13. Types'
  <2>1. {hub', work', client', peer'} \subseteq States(kind')
        /\ (\A state \in {hub', work', client', peer'} : ListsOK(state))
    BY <1>1, <1>3, <1>8, <1>10, <1>11 DEF Types
  <2> QED BY <1>1, <1>3, <1>8, <2>1 DEF Types
<1>14. PeerInv'
  <2> SUFFICES ASSUME ~PeerDeltas PROVE PeerInv'
    BY DEF PeerInv
  <2>1. WireInv(w) /\ w.seq \in 0 .. seq
    <3>1. WireInv(w)
      BY <1>1, <1>5 DEF PeerInv
    <3> QED BY <1>2, <1>5, <3>1 DEF WireInv
  <2>2. Says(committed[0], NewState(kind), kind)
    BY <1>1 DEF HubInv
  <2>3. ASSUME NEW s \in StateSlots(kind)
        PROVE  /\ Reading(r, kind)[s] = committed[w.seq].decoded[s]
               /\ s \notin DOMAIN w.body.contents => Reading(r, kind)[s] = committed[0].decoded[s]
    <3>1. /\ Reading(r, kind)[s] = Effective(r.fields[s], Zero(kind, s))
          /\ Reading(peer, kind)[s] = Effective(peer.fields[s], Zero(kind, s))
      BY <1>2, <1>10, FieldFacts
    <3>2. /\ Wins(u.fields[s]) => Reading(r, kind)[s] = Effective(u.fields[s], Zero(kind, s))
          /\ ~Wins(u.fields[s]) => Reading(r, kind)[s] = Reading(peer, kind)[s]
      BY <1>12, <3>1 DEF Merged
    <3>3. CASE s \in DOMAIN w.body.contents
      <4>1. Wins(u.fields[s])
        BY <1>9, <2>1, <3>3 DEF Unpacked, WireInv, Wins
      <4>2. Effective(u.fields[s], Zero(kind, s)) = w.body.contents[s]
        BY <1>9, <3>3 DEF Unpacked
      <4> QED BY <2>1, <3>2, <3>3, <4>1, <4>2 DEF WireInv
    <3>4. CASE s \notin DOMAIN w.body.contents
      <4>1. Effective(u.fields[s], Zero(kind, s)) = Effective(NewState(kind).fields[s], Zero(kind, s))
        BY <1>9, <3>4 DEF Unpacked
      <4>2. Effective(NewState(kind).fields[s], Zero(kind, s)) = committed[0].decoded[s]
        BY <1>2, <2>2, NewStateFacts, NewStateDecodes, SaysFacts
      <4>3. Reading(peer, kind)[s] = committed[0].decoded[s]
            /\ committed[w.seq].decoded[s] = committed[0].decoded[s]
        BY <2>1, <3>4 DEF WireInv
      <4> QED BY <3>2, <4>1, <4>2, <4>3
    <3> QED BY <3>3, <3>4
  <2>4. \A c \in Clients : \A g \in Groups :
           ShouldSendToClient(r, c, g) <=> g \in committed[w.seq].visible[c]
    <3>1. \A g \in Groups : r.lists[g].value = w.body.attributes.lists[g]
      BY <1>9, <1>11, <2>1 DEF Unpacked, WireInv
    <3> QED BY <2>1, <3>1 DEF WireInv, ShouldSendToClient
  <2>5. PeerMirrors'
    <3>1. \A s \in StateSlots(kind) : Reading(r, kind)[s] = committed[r.sequence].decoded[s]
      BY <1>10, <2>3
    <3>2. \A c \in Clients : \A g \in Groups :
             ShouldSendToClient(r, c, g) = (g \in committed[r.sequence].visible[c])
      <4> SUFFICES ASSUME NEW c \in Clients, NEW g \in Groups
                   PROVE  ShouldSendToClient(r, c, g) = (g \in committed[r.sequence].visible[c])
        OBVIOUS
      <4>1. ShouldSendToClient(r, c, g) <=> g \in committed[r.sequence].visible[c]
        BY <1>10, <2>4
      <4>2. ShouldSendToClient(r, c, g) \in BOOLEAN
        BY DEF ShouldSendToClient
      <4> QED BY <4>1, <4>2
    <3> QED BY <1>3, <1>8, <3>1, <3>2 DEF PeerMirrors
  <2>6. \A s \in StateSlots(kind) :
           ~IsValid(hub.fields[s].last_modified) => Reading(r, kind)[s] = committed[0].decoded[s]
    BY <2>1, <2>3 DEF WireInv
  <2>7. r.sequence \in 0 .. seq
    BY <1>10, <2>1
  <2>8. Len(wire') = 0
    BY <1>8
  <2> QED BY <1>3, <1>8, <2>5, <2>6, <2>7, <2>8 DEF PeerInv
<1> QED BY <1>1, <1>3, <1>13, <1>14, HubFrame, ClientFrame, NewsFrame, NetFrame DEF IndInv

-----------------------------------------------------------------------------
(* The theorems.                                                           *)

LEMMA NextInv == IndInv /\ [Next]_vars => IndInv'
<1> SUFFICES ASSUME IndInv, [Next]_vars PROVE IndInv'
  OBVIOUS
<1>1. CASE UNCHANGED vars
  <2>1. UNCHANGED <<kind, fixed, audience, hub, work, edits, seq, committed, asked, net, acked,
                    client, unseen, wire, peer>>
    BY <1>1 DEF vars
  <2>2. Types'
    BY <2>1 DEF IndInv, Types
  <2> QED BY <2>1, <2>2, HubFrame, ClientFrame, NewsFrame, NetFrame, PeerFrame DEF IndInv
<1>2. CASE SetCompressedValue \/ SetPlain \/ ChangeWhitelist
  BY <1>2, OwnerInv
<1>3. CASE Commit
  BY <1>3, CommitInv
<1>4. CASE Send
  BY <1>4, SendInv
<1>5. CASE Lose
  BY <1>5, LoseInv
<1>6. CASE Deliver
  BY <1>6, DeliverInv
<1>7. CASE TakeNews
  BY <1>7, TakeNewsInv
<1>8. CASE SendPeer
  BY <1>8, SendPeerInv
<1>9. CASE DeliverPeer
  BY <1>9, DeliverPeerInv
<1> QED BY <1>1, <1>2, <1>3, <1>4, <1>5, <1>6, <1>7, <1>8, <1>9 DEF Next

\* The invariant of the hub, the client, the peer and the messages between them.
THEOREM Invariance == Spec => []IndInv
BY InitInv, NextInv, PTL DEF Spec

\* merge_and_update_sequence, the setters and the decoders keep every state well
\* formed: a whitelist is always present and stamped, a stamp is one of a merge.
THEOREM TypeCorrect == Spec => []TypeOK
<1>1. IndInv => TypeOK
  <2> SUFFICES ASSUME Types PROVE TypeOK
    BY DEF IndInv
  <2>1. ASSUME NEW state \in {hub, work, client, peer} PROVE IsState(state)
    <3>1. state \in States(kind) /\ ListsOK(state)
      BY DEF Types
    <3>2. \A s \in StateSlots(kind) : IsSlot(state.fields[s], Int)
      BY <3>1 DEF States, SlotOf, IsSlot, Stamps
    <3>3. \A g \in Groups : IsSlot(state.lists[g], [Clients -> Nat])
      BY <3>1 DEF States, SlotOf, IsSlot, Stamps, Whitelists
    <3>4. \A g \in Groups : IsSlot(state.bits[g], SUBSET StateSlots(kind))
      BY <3>1 DEF States, SlotOf, IsSlot, Stamps
    <3>5. {state.sequence, state.last_modified} \subseteq Invalid .. MaxSeq
      BY <3>1 DEF States, Stamps
    <3>6. {state.merged, state.news, state.detected} \subseteq BOOLEAN
      BY <3>1 DEF States
    <3> QED BY <3>1, <3>2, <3>3, <3>4, <3>5, <3>6 DEF IsState, ListsOK
  <2>2. DOMAIN committed = 0 .. seq /\ \A g \in Groups : acked[g] \in Invalid .. seq
    BY DEF Types
  <2>3. Len(wire) <= 1
    <3>1. CASE wire = << >>
      BY <3>1
    <3>2. ASSUME NEW w, wire = << w >> PROVE Len(wire) <= 1
      BY <3>2
    <3> QED BY <3>1, <3>2 DEF Types
  <2> QED BY <2>1, <2>2, <2>3 DEF TypeOK, Types
<1> QED BY <1>1, Invariance, PTL

\* Deltas cut by marshal_contents_with against the acknowledged baselines bring the
\* client exactly what the hub had, group by group, whatever messages are lost and
\* whatever access is revoked and granted: for every slot without a declared default.
THEOREM ClientStaysInSync == Spec => []ClientInSync
<1>1. IndInv => ClientInSync
  BY DEF IndInv, ClientInv, ClientInSync, Base
<1> QED BY <1>1, Invariance, PTL

\* should_send_to_client keeps a group from the client: no slot of it that the client
\* holds was sent by a message cut while the group's whitelist kept the client out.
THEOREM NothingDisclosed == Spec => []NotDisclosed
<1>1. IndInv => NotDisclosed
  BY DEF IndInv, ClientInv
<1> QED BY <1>1, Invariance, PTL

\* merge_and_update_sequence leaves no change without a stamp: is_fragment_dirty and
\* is_dirty_since see everything that changed since any older baseline.
THEOREM ChangesShow == Spec => []ChangesAreDirty
<1>1. IndInv => ChangesAreDirty
  <2> SUFFICES ASSUME IndInv, NEW b \in 0 .. seq
               PROVE  /\ (\/ committed[b].values # committed[seq].values
                          \/ committed[b].visible # committed[seq].visible)
                            => IsFragmentDirty(hub, b)
                      /\ \A g \in Groups :
                            (\E s \in GroupSlots(kind, g) :
                                committed[b].values[s] # committed[seq].values[s])
                                => DirtySlots(hub, kind, g, b) # {}
    BY DEF ChangesAreDirty
  <2>1. Types /\ HubInv /\ kind \in Kinds /\ hub \in States(kind) /\ seq \in Nat
    BY DEF IndInv, Types
  <2>2. committed[b] \in Sayings(kind) /\ committed[seq] \in Sayings(kind)
    BY <2>1 DEF Types
  <2>3. \A s \in StateSlots(kind) : hub.fields[s].last_modified \in Int
    BY <2>1, FieldFacts, StampFacts
  <2>4. \A g \in Groups : hub.lists[g].last_modified \in Int
    BY <2>1, StampFacts DEF States, SlotOf
  <2>5. hub.last_modified \in Int
    BY <2>1, StampFacts DEF States
  <2>6. ASSUME NEW s \in StateSlots(kind), committed[b].values[s] # committed[seq].values[s]
        PROVE  b < hub.fields[s].last_modified /\ b < hub.last_modified
    <3>1. ~(hub.fields[s].last_modified <= b)
      BY <2>1, <2>6 DEF HubInv
    <3>2. seq > 0
      BY <2>1, <2>6
    <3>3. hub.fields[s].last_modified <= hub.last_modified
      BY <2>1, <3>2 DEF HubInv
    <3> QED BY <2>3, <2>5, <3>1, <3>3
  <2>7. ASSUME NEW c \in Clients, committed[b].visible[c] # committed[seq].visible[c]
        PROVE  b < hub.last_modified
    <3>1. PICK g \in Groups : ~(g \in committed[b].visible[c] <=> g \in committed[seq].visible[c])
      <4>1. committed[b].visible[c] \subseteq Groups /\ committed[seq].visible[c] \subseteq Groups
        BY <2>2 DEF Sayings
      <4> QED BY <2>7, <4>1
    <3>2. ~(hub.lists[g].last_modified <= b)
      BY <2>1, <3>1 DEF HubInv
    <3>3. seq > 0
      BY <2>1, <2>7
    <3>4. hub.lists[g].last_modified <= hub.last_modified
      BY <2>1, <3>3 DEF HubInv
    <3> QED BY <2>4, <2>5, <3>2, <3>4
  <2>8. (\/ committed[b].values # committed[seq].values
         \/ committed[b].visible # committed[seq].visible) => IsFragmentDirty(hub, b)
    <3>1. ASSUME committed[b].values # committed[seq].values PROVE b < hub.last_modified
      <4>1. PICK s \in StateSlots(kind) : committed[b].values[s] # committed[seq].values[s]
        BY <2>2, <3>1 DEF Sayings
      <4> QED BY <2>6, <4>1
    <3>2. ASSUME committed[b].visible # committed[seq].visible PROVE b < hub.last_modified
      <4>1. PICK c \in Clients : committed[b].visible[c] # committed[seq].visible[c]
        BY <2>2, <3>2 DEF Sayings
      <4> QED BY <2>7, <4>1
    <3> QED BY <3>1, <3>2 DEF IsFragmentDirty
  <2>9. ASSUME NEW g \in Groups, NEW s \in GroupSlots(kind, g),
               committed[b].values[s] # committed[seq].values[s]
        PROVE  s \in DirtySlots(hub, kind, g, b)
    <3>1. s \in StateSlots(kind)
      BY <2>1, KindFacts
    <3>2. b < hub.fields[s].last_modified
      BY <2>6, <2>9, <3>1
    <3> QED BY <2>3, <3>1, <3>2 DEF DirtySlots, IsDirtySince, IsValid, Invalid
  <2> QED BY <2>8, <2>9
<1> QED BY <1>1, Invariance, PTL

\* has_new_network_data stays set while a merge has changed what the client reads and
\* reset_has_new_network_data was not called since.
THEOREM NewsStay == Spec => []NewsKept
<1>1. IndInv => NewsKept
  BY DEF IndInv, NewsInv, NewsKept
<1> QED BY <1>1, Invariance, PTL

\* A peer that is sent the whole state by full_marshal, and never a delta, says what
\* the hub said: values, suppressed defaults and whitelists.
THEOREM PeerMirrorsHub == ~PeerDeltas => (Spec => []PeerMirrors)
<1> SUFFICES ASSUME ~PeerDeltas PROVE Spec => []PeerMirrors
  OBVIOUS
<1>1. IndInv => PeerMirrors
  BY DEF IndInv, PeerInv
<1> QED BY <1>1, Invariance, PTL

-----------------------------------------------------------------------------
(* What is read back.                                                      *)

\* The value that readings r of the slots of the compressed field stand for, and
\* how far it may be off: a quantum of two units, or whole rollovers.
Value(k, r) ==
    CASE k \in {"delta", "counter"} -> r[0] + r[1]
      [] k = "timer"   -> r[0] * Weight(0) + r[1] * Weight(1) + r[2] * Weight(2) + r[3] * Weight(3)
      [] k = "dynamic" -> IF r[1] = ZeroSentinel THEN r[0] ELSE r[0] + Unquantize(r[1])
Near(k, v, reading) ==
    CASE k = "timer"   -> reading = v % Rollover
      [] k = "counter" -> reading = v
      [] k \in {"delta", "dynamic"} -> reading - v \in -2 .. 2

\* Readings that a setter leaves for v: the relative slot is within the window
\* that its codec can carry.
Fits(k, r, v) ==
    CASE k = "delta"   -> r[1] \in -DeltaRange + 1 .. DeltaRange - 1 /\ r[0] + r[1] = v
      [] k = "counter" -> r[0] % ByteSize = 0 /\ r[1] \in 0 .. ByteSize - 1 /\ r[0] + r[1] = v
      [] k = "timer"   -> \A i \in 0 .. 3 : r[i] = Byte(v % Rollover, i)
      [] k = "dynamic" -> /\ r[1] # ZeroSentinel => r[2] = DeltaRange
                          /\ Value(k, r) - v \in -2 .. 2

\* Readings d that a receiver may have of r.
Carries(k, r, d) == \A s \in Slots(k) : d[s] \in {r[s], OnTheWire(k, s, r[s])}

\* Slots without a default that have a value when they have a stamp.
Whole(f, k) ==
    \A s \in Slots(k) : /\ f[s] \in SlotOf(Int) /\ f[s].default = None
                        /\ IsValid(f[s].last_modified) <=> f[s].value # None

\* A dynamic field has a quantization only with an anchor; at the hub the two
\* come together, and the quantization is always the same.
Anchored(f, k) == k = "dynamic" /\ f[2].value # None => f[0].value # None
AnchoredAtOnce(f, k) ==
    k = "dynamic" => /\ f[0].value # None <=> f[2].value # None
                     /\ f[2].value # None => f[2].value = DeltaRange

FieldReading(f, k) == [s \in Slots(k) |-> Effective(f[s], SlotZero(k, s))]

\* The bytes of a number that has four of them make it up.
LEMMA FourBytes ==
    ASSUME NEW q \in Nat, q < ByteSize * ByteSize * ByteSize * ByteSize
    PROVE  q = Byte(q, 0) * Weight(0) + Byte(q, 1) * Weight(1)
               + Byte(q, 2) * Weight(2) + Byte(q, 3) * Weight(3)
<1>1. PICK B : B = ByteSize
  OBVIOUS
<1>2. B \in Nat \ {0} /\ B * B \in Nat \ {0} /\ B * B * B \in Nat \ {0} /\ q < B * B * B * B
  <2>1. B \in Nat \ {0}
    BY <1>1, ConstantFacts
  <2>2. B * B \in Nat \ {0}
    BY <2>1
  <2>3. B * B * B \in Nat \ {0}
    BY <2>1, <2>2
  <2> QED BY <1>1, <2>1, <2>2, <2>3
<1>3. PICK q1, q2, q3 : q1 = q \div B /\ q2 = q1 \div B /\ q3 = q2 \div B
  OBVIOUS
<1>4. PICK b0, b1, b2, b3 : b0 = q % B /\ b1 = q1 % B /\ b2 = q2 % B /\ b3 = q3 % B
  OBVIOUS
<1>5. q1 \in Int /\ b0 \in 0 .. B - 1 /\ q = B * q1 + b0
  BY <1>2, <1>3, <1>4, Division
<1>6. q2 \in Int /\ b1 \in 0 .. B - 1 /\ q1 = B * q2 + b1
  BY <1>2, <1>3, <1>4, <1>5, Division
<1>7. q3 \in Int /\ b2 \in 0 .. B - 1 /\ q2 = B * q3 + b2
  BY <1>2, <1>3, <1>4, <1>6, Division
<1>8. q1 >= 0
  BY <1>2, <1>5
<1>9. q2 >= 0
  BY <1>2, <1>6, <1>8
<1>10. q3 >= 0
  BY <1>2, <1>7, <1>9
<1>11. q = b0 + b1 * B + b2 * (B * B) + q3 * (B * B * B)
  <2>1. B * q2 = B * (B * q3) + B * b2
    BY <1>2, <1>7
  <2>2. B * (B * q2) = B * (B * (B * q3)) + B * (B * b2)
    BY <1>2, <1>7, <2>1
  <2>3. B * q1 = B * (B * q2) + B * b1
    BY <1>2, <1>6
  <2>4. B * (B * (B * q3)) = q3 * (B * B * B) /\ B * (B * b2) = b2 * (B * B) /\ B * b1 = b1 * B
    BY <1>2, <1>6, <1>7
  <2> QED BY <1>2, <1>5, <1>6, <1>7, <2>2, <2>3, <2>4
<1>12. q3 < B
  <2>1. q3 * (B * B * B) <= q
    <3>1. b1 * B >= 0 /\ b2 * (B * B) >= 0
      BY <1>2, <1>6, <1>7
    <3> QED BY <1>2, <1>5, <1>6, <1>7, <1>11, <3>1
  <2>2. PICK C : C = B * B * B
    OBVIOUS
  <2>3. C \in Nat \ {0} /\ q < C * B /\ q3 * C <= q
    BY <1>2, <2>1, <2>2
  <2>4. q3 >= B => q3 * C >= B * C
    BY <1>2, <1>7, <2>3
  <2>5. B * C = C * B /\ B * C \in Int /\ q3 * C \in Int
    BY <1>2, <1>7, <2>3
  <2> QED BY <1>2, <1>7, <2>3, <2>4, <2>5
<1>13. b3 = q3
  BY <1>2, <1>4, <1>7, <1>10, <1>12, ResidueSmall
<1>14. q2 = q \div (B * B) /\ q3 = q \div (B * B * B)
  <2>1. q2 = q \div (B * B)
    BY <1>2, <1>3, DivisionTwice
  <2>2. q3 = q \div ((B * B) * B)
    BY <1>2, <1>3, <2>1, DivisionTwice
  <2> QED BY <2>1, <2>2
<1>15. Byte(q, 0) = b0 /\ Byte(q, 1) = b1 /\ Byte(q, 2) = b2 /\ Byte(q, 3) = b3
  <2>1. q \div 1 = q
    BY Quotient
  <2> QED BY <1>1, <1>3, <1>4, <1>14, <2>1 DEF Byte, Weight
<1>16. Weight(0) = 1 /\ Weight(1) = B /\ Weight(2) = B * B /\ Weight(3) = B * B * B
  BY <1>1 DEF Weight
<1>17. /\ Byte(q, 0) * Weight(0) = b0 /\ Byte(q, 1) * Weight(1) = b1 * B
       /\ Byte(q, 2) * Weight(2) = b2 * (B * B) /\ Byte(q, 3) * Weight(3) = q3 * (B * B * B)
  BY <1>5, <1>13, <1>15, <1>16
<1> QED BY <1>11, <1>17

LEMMA ByteFacts ==
    ASSUME NEW q \in Int, NEW i \in 0 .. 3
    PROVE  Byte(q, i) \in 0 .. ByteSize - 1
<1>1. q \div Weight(i) \in Int
  BY WeightFacts, Division
<1> QED BY <1>1, ConstantFacts, Division DEF Byte

-----------------------------------------------------------------------------
\* A setter leaves a slot without a default with its value and a stamp.
LEMMA SetPresent ==
    ASSUME NEW f \in SlotOf(Int), f.default = None, NEW v \in Int
    PROVE  /\ SetValue(f, v) \in SlotOf(Int) /\ SetValue(f, v).default = None
           /\ SetValue(f, v).value = v /\ IsValid(SetValue(f, v).last_modified)
           /\ \A z : Effective(SetValue(f, v), z) = v
<1>1. v # None
  BY ConstantFacts
<1>2. SetValue(f, v) \in SlotOf(Int) /\ SetValue(f, v).default = None
      /\ SetValue(f, v).value = v
  BY SetValueFacts
<1>3. SetValue(f, v).last_modified = 0
  BY <1>1 DEF SetValue, SlotOf, ValidNonSequence
<1> QED BY <1>1, <1>2, <1>3 DEF IsValid, Invalid, Effective

\* What a setter makes of the slots: some are set, the others stay.
Sets(r, f, k, new) ==
    \A s \in Slots(k) : r[s] = IF s \in DOMAIN new THEN SetValue(f[s], new[s]) ELSE f[s]

SetsKept(r, f, k, D, new) ==
    /\ Whole(r, k)
    /\ \A s \in Slots(k) : IsValid(f[s].last_modified) => IsValid(r[s].last_modified)
    /\ \A s \in Slots(k) : s \in D => r[s].value = new[s]
    /\ \A s \in Slots(k) : s \notin D => r[s] = f[s]
    /\ \A s \in Slots(k) : FieldReading(r, k)[s] = IF s \in D THEN new[s]
                                                   ELSE FieldReading(f, k)[s]

LEMMA SetsKeeps ==
    ASSUME NEW k \in Kinds, NEW f, Whole(f, k), NEW D \in SUBSET Slots(k), NEW new \in [D -> Int],
           NEW r, Sets(r, f, k, new)
    PROVE  SetsKept(r, f, k, D, new)
<1>1. ASSUME NEW s \in Slots(k)
      PROVE  /\ r[s] \in SlotOf(Int) /\ r[s].default = None
             /\ IsValid(r[s].last_modified) <=> r[s].value # None
             /\ IsValid(f[s].last_modified) => IsValid(r[s].last_modified)
             /\ s \in D => r[s].value = new[s]
             /\ s \notin D => r[s] = f[s]
             /\ Effective(r[s], SlotZero(k, s)) = IF s \in D THEN new[s]
                                                  ELSE Effective(f[s], SlotZero(k, s))
  <2>1. f[s] \in SlotOf(Int) /\ f[s].default = None
        /\ (IsValid(f[s].last_modified) <=> f[s].value # None)
    BY DEF Whole
  <2>2. CASE s \in D
    <3>1. new[s] \in Int /\ new[s] # None /\ r[s] = SetValue(f[s], new[s])
      BY <2>2, ConstantFacts DEF Sets
    <3> QED BY <2>1, <2>2, <3>1, SetPresent
  <2>3. CASE s \notin D
    <3>1. r[s] = f[s]
      BY <2>3 DEF Sets
    <3> QED BY <2>1, <2>3, <3>1
  <2> QED BY <2>2, <2>3
<1>2. \A s \in Slots(k) : /\ FieldReading(r, k)[s] = Effective(r[s], SlotZero(k, s))
                          /\ FieldReading(f, k)[s] = Effective(f[s], SlotZero(k, s))
  BY DEF FieldReading
<1> QED BY <1>1, <1>2 DEF Whole, SetsKept

LEMMA ReadingType ==
    ASSUME NEW k \in Kinds, NEW f, Whole(f, k), NEW s \in Slots(k)
    PROVE  FieldReading(f, k)[s] \in Int /\ FieldReading(f, k)[s] = Effective(f[s], SlotZero(k, s))
<1>1. SlotZero(k, s) \in Int
  BY ConstantFacts DEF SlotZero, ZeroSentinel
<1>2. Effective(f[s], SlotZero(k, s)) \in Int
  BY <1>1, EffectiveType DEF Whole
<1> QED BY <1>2 DEF FieldReading

\* What a setter leaves: readings of the value, and no slot without its stamp.
SetRight(r, f, k, v) ==
    /\ Whole(r, k) /\ AnchoredAtOnce(r, k) /\ Fits(k, FieldReading(r, k), v)
    /\ \A s \in Slots(k) : IsValid(f[s].last_modified) => IsValid(r[s].last_modified)

LEMMA SetDeltaRight ==
    ASSUME NEW k, k = "delta", NEW f \in [Slots(k) -> SlotOf(Int)], Whole(f, k), NEW v \in Nat
    PROVE  SetRight(SetField(f, k, v), f, k, v)
<1>1. k \in Kinds /\ Slots(k) = 0 .. 1 /\ SetField(f, k, v) = SetDelta(f, v)
  BY DEF Kinds, Slots, SetField
<1>2. PICK a : a = Effective(f[0], 0)
  OBVIOUS
<1>3. a \in Int /\ a = FieldReading(f, k)[0]
  BY <1>1, <1>2, ReadingType DEF SlotZero
<1>4. ASSUME NEW D \in SUBSET Slots(k), NEW new \in [D -> Int],
             Sets(SetField(f, k, v), f, k, new), 1 \in D,
             new[1] \in -DeltaRange + 1 .. DeltaRange - 1,
             (IF 0 \in D THEN new[0] ELSE a) + new[1] = v
      PROVE  SetRight(SetField(f, k, v), f, k, v)
  <2>1. PICK r : r = SetField(f, k, v)
    OBVIOUS
  <2>2. SetsKept(r, f, k, D, new)
    BY <1>1, <1>4, <2>1, SetsKeeps
  <2>3. FieldReading(r, k)[1] = new[1] /\ FieldReading(r, k)[0] = IF 0 \in D THEN new[0] ELSE a
    BY <1>1, <1>3, <1>4, <2>2 DEF SetsKept
  <2>4. Fits(k, FieldReading(r, k), v)
    BY <1>4, <2>3 DEF Fits
  <2> QED BY <2>1, <2>2, <2>4 DEF SetRight, AnchoredAtOnce, SetsKept
<1>5. CASE IsValid(f[0].last_modified) /\ WithinDelta(a, v)
  <2>1. PICK new : new = [s \in {1} |-> v - a]
    OBVIOUS
  <2>2. new \in [{1} -> Int] /\ new[1] = v - a /\ DOMAIN new = {1}
    BY <1>3, <2>1
  <2>3. SetField(f, k, v) = [f EXCEPT ![1] = SetValue(@, v - a)]
    BY <1>1, <1>2, <1>5 DEF SetDelta
  <2>4. Sets(SetField(f, k, v), f, k, new)
    BY <1>1, <2>2, <2>3 DEF Sets
  <2>5. v - a \in -DeltaRange + 1 .. DeltaRange - 1
    BY <1>3, <1>5, ConstantFacts DEF WithinDelta
  <2> QED BY <1>1, <1>3, <1>4, <2>2, <2>4, <2>5
<1>6. CASE ~(IsValid(f[0].last_modified) /\ WithinDelta(a, v))
  <2>1. PICK new : new = [s \in {0, 1} |-> IF s = 0 THEN v ELSE 0]
    OBVIOUS
  <2>2. new \in [{0, 1} -> Int] /\ new[0] = v /\ new[1] = 0 /\ DOMAIN new = {0, 1}
    BY <2>1
  <2>3. SetField(f, k, v) = [f EXCEPT ![0] = SetValue(@, v), ![1] = SetValue(@, 0)]
    BY <1>1, <1>2, <1>6 DEF SetDelta
  <2>4. Sets(SetField(f, k, v), f, k, new)
    BY <1>1, <2>2, <2>3 DEF Sets
  <2> QED BY <1>1, <1>4, <2>2, <2>4, ConstantFacts
<1> QED BY <1>5, <1>6

LEMMA SetCounterRight ==
    ASSUME NEW k, k = "counter", NEW f \in [Slots(k) -> SlotOf(Int)], Whole(f, k), NEW v \in Nat,
           FieldReading(f, k)[0] % ByteSize = 0
    PROVE  SetRight(SetField(f, k, v), f, k, v)
<1>1. k \in Kinds /\ Slots(k) = 0 .. 1 /\ SetField(f, k, v) = SetCounter(f, v)
  BY DEF Kinds, Slots, SetField
<1>2. PICK a, rest : a = Effective(f[0], 0) /\ rest = v % ByteSize
  OBVIOUS
<1>3. a \in Int /\ a = FieldReading(f, k)[0]
  BY <1>1, <1>2, ReadingType DEF SlotZero
<1>4. ASSUME NEW D \in SUBSET Slots(k), NEW new \in [D -> Int],
             Sets(SetField(f, k, v), f, k, new), 1 \in D,
             new[1] \in 0 .. ByteSize - 1,
             (IF 0 \in D THEN new[0] ELSE a) % ByteSize = 0,
             (IF 0 \in D THEN new[0] ELSE a) + new[1] = v
      PROVE  SetRight(SetField(f, k, v), f, k, v)
  <2>1. PICK r : r = SetField(f, k, v)
    OBVIOUS
  <2>2. SetsKept(r, f, k, D, new)
    BY <1>1, <1>4, <2>1, SetsKeeps
  <2>3. FieldReading(r, k)[1] = new[1] /\ FieldReading(r, k)[0] = IF 0 \in D THEN new[0] ELSE a
    BY <1>1, <1>3, <1>4, <2>2 DEF SetsKept
  <2>4. Fits(k, FieldReading(r, k), v)
    BY <1>4, <2>3 DEF Fits
  <2> QED BY <2>1, <2>2, <2>4 DEF SetRight, AnchoredAtOnce, SetsKept
<1>5. CASE IsValid(f[0].last_modified) /\ v - a \in 0 .. ByteSize - 1
  <2>1. PICK new : new = [s \in {1} |-> v - a]
    OBVIOUS
  <2>2. new \in [{1} -> Int] /\ new[1] = v - a /\ DOMAIN new = {1}
    BY <1>3, <2>1
  <2>3. SetField(f, k, v) = [f EXCEPT ![1] = SetValue(@, v - a)]
    BY <1>1, <1>2, <1>5 DEF SetCounter
  <2>4. Sets(SetField(f, k, v), f, k, new)
    BY <1>1, <2>2, <2>3 DEF Sets
  <2> QED BY <1>1, <1>3, <1>4, <1>5, <2>2, <2>4
<1>6. CASE ~(IsValid(f[0].last_modified) /\ v - a \in 0 .. ByteSize - 1)
  <2>1. PICK new : new = [s \in {0, 1} |-> IF s = 0 THEN v - rest ELSE rest]
    OBVIOUS
  <2>2. rest \in 0 .. ByteSize - 1 /\ rest \in Int /\ v - rest \in Int
    BY <1>2, ConstantFacts, Division
  <2>3. (v - rest) % ByteSize = 0
    <3>1. PICK q : q = v \div ByteSize
      OBVIOUS
    <3>2. q \in Int /\ v - rest = ByteSize * q + 0
      BY <1>2, <3>1, ConstantFacts, Division
    <3> QED BY <2>2, <3>2, ConstantFacts, DivisionUnique
  <2>4. new \in [{0, 1} -> Int] /\ new[0] = v - rest /\ new[1] = rest /\ DOMAIN new = {0, 1}
    BY <2>1, <2>2
  <2>5. SetField(f, k, v) = [f EXCEPT ![0] = SetValue(@, v - rest), ![1] = SetValue(@, rest)]
    BY <1>1, <1>2, <1>6 DEF SetCounter
  <2>6. Sets(SetField(f, k, v), f, k, new)
    BY <1>1, <2>4, <2>5 DEF Sets
  <2> QED BY <1>1, <1>4, <2>2, <2>3, <2>4, <2>6
<1> QED BY <1>5, <1>6

\* The delta's quantization is off by a unit at most.
LEMMA QuantizeNear ==
    ASSUME NEW d \in -DeltaRange + 1 .. DeltaRange - 1
    PROVE  /\ Quantize(d) \in 0 .. DeltaRange - 1
           /\ Unquantize(Quantize(d)) \in {d, d - 1}
<1>1. PICK h : h = (d + DeltaRange) \div 2
  OBVIOUS
<1>2. h \in Int /\ (d + DeltaRange = 2 * h \/ d + DeltaRange = 2 * h + 1)
  BY <1>1, ConstantFacts
<1>3. h \in 0 .. DeltaRange - 1
  BY <1>2, ConstantFacts
<1>4. Quantize(d) = h
  BY <1>1, <1>3, ConstantFacts DEF Quantize, Clamp
<1> QED BY <1>2, <1>3, <1>4, ConstantFacts DEF Unquantize

LEMMA SetDynamicRight ==
    ASSUME NEW k, k = "dynamic", NEW f \in [Slots(k) -> SlotOf(Int)], Whole(f, k), NEW v \in Nat,
           AnchoredAtOnce(f, k)
    PROVE  SetRight(SetField(f, k, v), f, k, v)
<1>1. k \in Kinds /\ Slots(k) = 0 .. 2 /\ SetField(f, k, v) = SetDynamic(f, v, DeltaRange)
  BY DEF Kinds, Slots, SetField
<1>2. PICK a : a = Effective(f[0], 0)
  OBVIOUS
<1>3. a \in Int /\ a = FieldReading(f, k)[0]
  BY <1>1, <1>2, ReadingType DEF SlotZero
<1>4. PICK r : r = SetField(f, k, v)
  OBVIOUS
<1>5. CASE IsValid(f[0].last_modified) /\ f[2].value = DeltaRange /\ WithinDelta(a, v)
  <2>1. PICK q : q = Quantize(v - a)
    OBVIOUS
  <2>2. v - a \in -DeltaRange + 1 .. DeltaRange - 1
    BY <1>3, <1>5, ConstantFacts DEF WithinDelta
  <2>3. q \in 0 .. DeltaRange - 1 /\ Unquantize(q) \in {v - a, v - a - 1}
    BY <2>1, <2>2, QuantizeNear
  <2>4. PICK new : new = [s \in {1} |-> q]
    OBVIOUS
  <2>5. new \in [{1} -> Int] /\ new[1] = q /\ DOMAIN new = {1} /\ q \in Int
    BY <2>3, <2>4, ConstantFacts
  <2>6. r = [f EXCEPT ![1] = SetValue(@, q)]
    BY <1>1, <1>2, <1>4, <1>5, <2>1 DEF SetDynamic
  <2>7. Sets(r, f, k, new)
    BY <1>1, <2>5, <2>6 DEF Sets
  <2>8. SetsKept(r, f, k, {1}, new)
    BY <1>1, <2>5, <2>7, SetsKeeps
  <2>9. FieldReading(f, k)[2] = DeltaRange
    BY <1>1, <1>5, ReadingType, ConstantFacts DEF Effective
  <2>10. FieldReading(r, k)[0] = a /\ FieldReading(r, k)[1] = q
         /\ FieldReading(r, k)[2] = DeltaRange
    BY <1>1, <1>3, <2>5, <2>8, <2>9 DEF SetsKept
  <2>11. Fits(k, FieldReading(r, k), v)
    <3>1. q # ZeroSentinel
      BY <2>3, ConstantFacts DEF ZeroSentinel
    <3>2. Value(k, FieldReading(r, k)) = a + Unquantize(q)
      BY <2>10, <3>1 DEF Value
    <3>3. Value(k, FieldReading(r, k)) - v \in -2 .. 2
      BY <1>3, <2>3, <3>2
    <3> QED BY <2>10, <3>3 DEF Fits
  <2>12. AnchoredAtOnce(r, k)
    <3>1. r[0] = f[0] /\ r[2] = f[2]
      BY <1>1, <2>8 DEF SetsKept
    <3> QED BY <3>1 DEF AnchoredAtOnce
  <2> QED BY <1>4, <2>8, <2>11, <2>12 DEF SetRight, SetsKept
<1>6. CASE ~(IsValid(f[0].last_modified) /\ f[2].value = DeltaRange /\ WithinDelta(a, v))
  <2>1. PICK new : new = [s \in {0, 1, 2} |-> IF s = 0 THEN v ELSE IF s = 1 THEN ZeroSentinel
                                              ELSE DeltaRange]
    OBVIOUS
  <2>2. ZeroSentinel \in Int /\ DeltaRange \in Int
    BY ConstantFacts DEF ZeroSentinel
  <2>3. new \in [{0, 1, 2} -> Int] /\ new[0] = v /\ new[1] = ZeroSentinel
        /\ new[2] = DeltaRange /\ DOMAIN new = {0, 1, 2}
    BY <2>1, <2>2
  <2>4. r = [f EXCEPT ![0] = SetValue(@, v), ![1] = SetValue(@, ZeroSentinel),
                      ![2] = SetValue(@, DeltaRange)]
    BY <1>1, <1>2, <1>4, <1>6 DEF SetDynamic
  <2>5. Sets(r, f, k, new)
    BY <1>1, <2>3, <2>4 DEF Sets
  <2>6. SetsKept(r, f, k, {0, 1, 2}, new)
    BY <1>1, <2>3, <2>5, SetsKeeps
  <2>7. FieldReading(r, k)[0] = v /\ FieldReading(r, k)[1] = ZeroSentinel
        /\ r[0].value = v /\ r[2].value = DeltaRange
    BY <1>1, <2>3, <2>6 DEF SetsKept
  <2>8. Fits(k, FieldReading(r, k), v)
    BY <2>7 DEF Fits, Value
  <2>9. AnchoredAtOnce(r, k)
    BY <2>2, <2>7, ConstantFacts DEF AnchoredAtOnce
  <2> QED BY <1>4, <2>6, <2>8, <2>9 DEF SetRight, SetsKept
<1> QED BY <1>5, <1>6

LEMMA BytesRequiredFacts ==
    ASSUME NEW new \in Int, NEW old \in Int
    PROVE  /\ BytesRequired(new, old) \in 1 .. 4
           /\ \A i \in BytesRequired(new, old) .. 3 : Byte(new, i) = Byte(old, i)
<1> DEFINE P(n) == /\ \A i \in n .. 3 : Byte(new, i) = Byte(old, i)
                   /\ n > 1 => Byte(new, n - 1) # Byte(old, n - 1)
<1>1. \E n \in 1 .. 4 : P(n)
  <2>1. CASE Byte(new, 3) # Byte(old, 3)
    <3>1. P(4)
      BY <2>1
    <3> QED BY <3>1
  <2>2. CASE Byte(new, 3) = Byte(old, 3) /\ Byte(new, 2) # Byte(old, 2)
    <3>1. P(3)
      BY <2>2
    <3> QED BY <3>1
  <2>3. CASE /\ Byte(new, 3) = Byte(old, 3) /\ Byte(new, 2) = Byte(old, 2)
             /\ Byte(new, 1) # Byte(old, 1)
    <3>1. P(2)
      <4>1. \A i \in 2 .. 3 : i = 2 \/ i = 3
        OBVIOUS
      <4> QED BY <2>3, <4>1
    <3> QED BY <3>1
  <2>4. CASE /\ Byte(new, 3) = Byte(old, 3) /\ Byte(new, 2) = Byte(old, 2)
             /\ Byte(new, 1) = Byte(old, 1)
    <3>1. P(1)
      <4>1. \A i \in 1 .. 3 : i = 1 \/ i = 2 \/ i = 3
        OBVIOUS
      <4> QED BY <2>4, <4>1
    <3> QED BY <3>1
  <2> QED BY <2>1, <2>2, <2>3, <2>4
<1>2. BytesRequired(new, old) = CHOOSE n \in 1 .. 4 : P(n)
  BY DEF BytesRequired
<1> HIDE DEF P
<1>3. BytesRequired(new, old) \in 1 .. 4 /\ P(BytesRequired(new, old))
  BY <1>1, <1>2
<1> QED BY <1>3 DEF P

\* A timer that reads as the bytes of q is q.
LEMMA TimerReads ==
    ASSUME NEW r, NEW q \in Nat, q < Rollover, \A i \in 0 .. 3 : r[i] = Byte(q, i)
    PROVE  r[0] * Weight(0) + r[1] * Weight(1) + r[2] * Weight(2) + r[3] * Weight(3) = q
<1>1. q < ByteSize * ByteSize * ByteSize * ByteSize
  <2>1. PICK B : B = ByteSize * ByteSize * ByteSize * ByteSize
    OBVIOUS
  <2>2. B \in Int
    <3>1. ByteSize \in Int
      BY ConstantFacts
    <3>2. ByteSize * ByteSize \in Int
      BY <3>1
    <3>3. ByteSize * ByteSize * ByteSize \in Int
      BY <3>1, <3>2
    <3> QED BY <2>1, <3>1, <3>3
  <2>3. Rollover \in 1 .. B
    BY <2>1, FieldAssumption
  <2> QED BY <2>1, <2>2, <2>3
<1>2. r[0] = Byte(q, 0) /\ r[1] = Byte(q, 1) /\ r[2] = Byte(q, 2) /\ r[3] = Byte(q, 3)
  OBVIOUS
<1> QED BY <1>1, <1>2, FourBytes

LEMMA TicksFacts ==
    ASSUME NEW v \in Nat
    PROVE  v % Rollover \in Nat /\ v % Rollover < Rollover
BY ConstantFacts, Division

LEMMA SetTimerRight ==
    ASSUME NEW k, k = "timer", NEW f \in [Slots(k) -> SlotOf(Int)], Whole(f, k), NEW v \in Nat,
           NEW old \in Nat, Fits(k, FieldReading(f, k), old)
    PROVE  SetRight(SetField(f, k, v), f, k, v)
<1>1. k \in Kinds /\ Slots(k) = 0 .. 3 /\ SetField(f, k, v) = SetTimer(f, v)
  BY DEF Kinds, Slots, SetField
<1>2. PICK p, q : p = old % Rollover /\ q = v % Rollover
  OBVIOUS
<1>3. p \in Nat /\ p < Rollover /\ q \in Nat /\ q < Rollover
  BY <1>2, TicksFacts
<1>4. \A i \in 0 .. 3 : FieldReading(f, k)[i] = Byte(p, i)
  BY <1>2 DEF Fits
<1>5. RawTimer(f) = p
  <2>1. PICK e : e = FieldReading(f, k)
    OBVIOUS
  <2>2. \A i \in 0 .. 3 : e[i] = Byte(p, i) /\ e[i] = Effective(f[i], 0)
    BY <1>1, <1>4, <2>1, ReadingType DEF SlotZero
  <2>3. e[0] * Weight(0) + e[1] * Weight(1) + e[2] * Weight(2) + e[3] * Weight(3) = p
    BY <1>3, <2>2, TimerReads
  <2>4. /\ e[0] = Effective(f[0], 0) /\ e[1] = Effective(f[1], 0)
        /\ e[2] = Effective(f[2], 0) /\ e[3] = Effective(f[3], 0)
    BY <2>2
  <2> QED BY <2>3, <2>4 DEF RawTimer
<1>6. PICK n : n = IF \A i \in 0 .. 3 : IsValid(f[i].last_modified)
                   THEN BytesRequired(q, p) ELSE 4
  OBVIOUS
<1>7. n \in 1 .. 4 /\ \A i \in n .. 3 : Byte(q, i) = Byte(p, i)
  <2>1. CASE n = 4
    BY <2>1
  <2>2. CASE n = BytesRequired(q, p)
    BY <1>3, <2>2, BytesRequiredFacts
  <2> QED BY <1>6, <2>1, <2>2
<1>8. PICK r : r = SetField(f, k, v)
  OBVIOUS
<1>9. r = [i \in 0 .. 3 |-> IF i < n THEN SetValue(f[i], Byte(q, i)) ELSE f[i]]
  BY <1>1, <1>2, <1>5, <1>6, <1>8 DEF SetTimer
<1>10. PICK D : D = {i \in 0 .. 3 : i < n}
  OBVIOUS
<1>11. PICK new : new = [i \in D |-> Byte(q, i)]
  OBVIOUS
<1>12. D \in SUBSET Slots(k) /\ new \in [D -> Int] /\ DOMAIN new = D
       /\ \A i \in D : new[i] = Byte(q, i)
  <2>1. \A i \in D : Byte(q, i) \in Int
    BY <1>3, <1>10, ByteFacts, ConstantFacts
  <2> QED BY <1>1, <1>10, <1>11, <2>1
<1>13. Sets(r, f, k, new)
  BY <1>1, <1>9, <1>10, <1>12 DEF Sets
<1>14. SetsKept(r, f, k, D, new)
  BY <1>1, <1>12, <1>13, SetsKeeps
<1>15. ASSUME NEW i \in 0 .. 3 PROVE FieldReading(r, k)[i] = Byte(q, i)
  <2>1. FieldReading(r, k)[i] = IF i \in D THEN new[i] ELSE FieldReading(f, k)[i]
    BY <1>1, <1>14 DEF SetsKept
  <2>2. CASE i \in D
    BY <1>12, <2>1, <2>2
  <2>3. CASE i \notin D
    <3>1. i \in n .. 3
      BY <1>7, <1>10, <2>3
    <3> QED BY <1>4, <1>7, <2>1, <2>3, <3>1
  <2> QED BY <2>2, <2>3
<1>16. Fits(k, FieldReading(r, k), v)
  BY <1>2, <1>15 DEF Fits
<1> QED BY <1>8, <1>14, <1>16 DEF SetRight, AnchoredAtOnce, SetsKept

\* Every setter leaves readings of the value it was given.
LEMMA SetterRight ==
    ASSUME NEW k \in Kinds, NEW f \in [Slots(k) -> SlotOf(Int)], Whole(f, k),
           AnchoredAtOnce(f, k), NEW v \in Nat, NEW old \in Nat, Fits(k, FieldReading(f, k), old)
    PROVE  SetRight(SetField(f, k, v), f, k, v)
<1>1. CASE k = "delta"
  BY <1>1, SetDeltaRight
<1>2. CASE k = "counter"
  <2>1. FieldReading(f, k)[0] % ByteSize = 0
    BY <1>2 DEF Fits
  <2> QED BY <1>2, <2>1, SetCounterRight
<1>3. CASE k = "dynamic"
  BY <1>3, SetDynamicRight
<1>4. CASE k = "timer"
  BY <1>4, SetTimerRight
<1> QED BY <1>1, <1>2, <1>3, <1>4 DEF Kinds

-----------------------------------------------------------------------------
\* What a receiver decodes of the slots still stands for the value.
LEMMA CarriedReads ==
    ASSUME NEW k \in Kinds, NEW r, NEW d, NEW v \in Nat, Fits(k, r, v), Carries(k, r, d),
           \A s \in Slots(k) : r[s] \in Int
    PROVE  /\ Near(k, v, Value(k, d))
           /\ k = "dynamic" => (d[1] # ZeroSentinel => d[2] = DeltaRange)
<1>1. CASE k = "delta"
  <2>1. Slots(k) = 0 .. 1 /\ OnTheWire(k, 0, r[0]) = r[0]
        /\ OnTheWire(k, 1, r[1]) = Unquantize(Quantize(r[1]))
    BY <1>1 DEF Slots, OnTheWire
  <2>2. r[1] \in -DeltaRange + 1 .. DeltaRange - 1 /\ r[0] + r[1] = v /\ r[0] \in Int /\ r[1] \in Int
    BY <1>1, <2>1 DEF Fits
  <2>3. Unquantize(Quantize(r[1])) \in {r[1], r[1] - 1}
    BY <2>2, QuantizeNear
  <2>4. d[0] = r[0] /\ d[1] \in {r[1], r[1] - 1}
    BY <2>1, <2>3 DEF Carries
  <2> QED BY <1>1, <2>2, <2>4 DEF Near, Value
<1>2. CASE k = "counter"
  <2>1. Slots(k) = 0 .. 1 /\ OnTheWire(k, 0, r[0]) = (r[0] \div ByteSize) * ByteSize
        /\ OnTheWire(k, 1, r[1]) = r[1] % ByteSize
    BY <1>2 DEF Slots, OnTheWire
  <2>2. r[0] % ByteSize = 0 /\ r[1] \in 0 .. ByteSize - 1 /\ r[0] + r[1] = v
        /\ r[0] \in Int /\ r[1] \in Int
    BY <1>2, <2>1 DEF Fits
  <2>3. (r[0] \div ByteSize) * ByteSize = r[0]
    <3>1. PICK a, q, B : a = r[0] /\ B = ByteSize /\ q = a \div B
      OBVIOUS
    <3>2. a \in Int /\ B \in Nat \ {0} /\ a % B = 0
      BY <2>2, <3>1, ConstantFacts
    <3>3. q \in Int /\ a = B * q + (a % B)
      BY <3>1, <3>2, Division
    <3> QED BY <3>1, <3>2, <3>3
  <2>4. r[1] % ByteSize = r[1]
    <3>1. PICK b : b = r[1]
      OBVIOUS
    <3>2. b \in Int /\ 0 <= b /\ b < ByteSize /\ ByteSize \in Nat \ {0}
      BY <2>2, <3>1, ConstantFacts
    <3>3. b % ByteSize = b
      BY <3>2, ResidueSmall
    <3> QED BY <3>1, <3>3
  <2>5. d[0] = r[0] /\ d[1] = r[1]
    BY <2>1, <2>3, <2>4 DEF Carries
  <2> QED BY <1>2, <2>2, <2>5 DEF Near, Value
<1>3. CASE k = "dynamic"
  <2>1. Slots(k) = 0 .. 2 /\ \A s \in Slots(k) : OnTheWire(k, s, r[s]) = r[s]
    BY <1>3 DEF Slots, OnTheWire
  <2>2. d[0] = r[0] /\ d[1] = r[1] /\ d[2] = r[2]
    BY <2>1 DEF Carries
  <2>3. Value(k, d) = Value(k, r)
    BY <1>3, <2>2 DEF Value
  <2> QED BY <1>3, <2>2, <2>3 DEF Near, Fits
<1>4. CASE k = "timer"
  <2>1. Slots(k) = 0 .. 3 /\ \A s \in Slots(k) : OnTheWire(k, s, r[s]) = r[s] % ByteSize
    BY <1>4 DEF Slots, OnTheWire
  <2>2. PICK q : q = v % Rollover
    OBVIOUS
  <2>3. q \in Nat /\ q < Rollover
    BY <2>2, TicksFacts
  <2>4. ASSUME NEW i \in 0 .. 3 PROVE d[i] = Byte(q, i)
    <3>1. r[i] = Byte(q, i) /\ r[i] \in 0 .. ByteSize - 1
      BY <1>4, <2>2, <2>3, ByteFacts DEF Fits
    <3>2. r[i] % ByteSize = r[i]
      BY <3>1, ConstantFacts, ResidueSmall
    <3> QED BY <2>1, <3>1, <3>2 DEF Carries
  <2>5. d[0] * Weight(0) + d[1] * Weight(1) + d[2] * Weight(2) + d[3] * Weight(3) = q
    BY <2>3, <2>4, TimerReads
  <2> QED BY <1>4, <2>2, <2>5 DEF Near, Value
<1> QED BY <1>1, <1>2, <1>3, <1>4 DEF Kinds

\* value() of a field reads that out of the slots.
LEMMA ReadFieldValue ==
    ASSUME NEW k \in Kinds, NEW f, Whole(f, k), Anchored(f, k),
           k = "dynamic" => (FieldReading(f, k)[1] # ZeroSentinel => FieldReading(f, k)[2] = DeltaRange)
    PROVE  ReadField(f, k) = Value(k, FieldReading(f, k))
<1>1. PICK e : e = FieldReading(f, k)
  OBVIOUS
<1>2. \A s \in Slots(k) : e[s] = Effective(f[s], SlotZero(k, s))
  BY <1>1, ReadingType
<1>3. CASE k \in {"delta", "counter"}
  <2>1. e[0] = Effective(f[0], 0) /\ e[1] = Effective(f[1], 0)
    BY <1>2, <1>3 DEF Slots, SlotZero
  <2> QED BY <1>1, <1>3, <2>1 DEF ReadField, Value
<1>4. CASE k = "timer"
  <2>1. /\ e[0] = Effective(f[0], 0) /\ e[1] = Effective(f[1], 0)
        /\ e[2] = Effective(f[2], 0) /\ e[3] = Effective(f[3], 0)
    BY <1>2, <1>4 DEF Slots, SlotZero
  <2> QED BY <1>1, <1>4, <2>1 DEF ReadField, Value, RawTimer
<1>5. CASE k = "dynamic"
  <2>1. /\ e[0] = Effective(f[0], 0) /\ e[1] = Effective(f[1], ZeroSentinel)
        /\ e[2] = Effective(f[2], 0) /\ SlotValue(f, k, 1) = e[1] /\ {0, 1, 2} \subseteq Slots(k)
    BY <1>2, <1>5 DEF Slots, SlotZero, SlotValue
  <2>2. CASE e[1] = ZeroSentinel
    BY <1>1, <1>5, <2>1, <2>2 DEF ReadField, Value, Effective
  <2>3. CASE e[1] # ZeroSentinel
    <3>1. e[2] = DeltaRange
      BY <1>1, <1>5, <2>3
    <3>2. f[2].value # None
      BY <2>1, <3>1, ConstantFacts DEF Effective
    <3>3. HasValue(f[2]) /\ f[0].value # None
      BY <1>5, <2>1, <3>2 DEF HasValue, Whole, Anchored
    <3>4. e[0] = f[0].value /\ e[1] = f[1].value
      BY <2>1, <2>3, <3>3 DEF Effective
    <3> QED BY <1>1, <1>5, <2>1, <2>3, <3>3, <3>4 DEF ReadField, Value
  <2> QED BY <2>2, <2>3
<1> QED BY <1>3, <1>4, <1>5 DEF Kinds

-----------------------------------------------------------------------------
(* The invariant of what is read back.                                     *)

\* The owner's copy stands for the value asked for, and has a stamp wherever the
\* hub has one.
OwnerReads ==
    /\ Whole(work.fields, kind) /\ AnchoredAtOnce(work.fields, kind)
    /\ Fits(kind, FieldReading(work.fields, kind), asked)
    /\ \A s \in Slots(kind) :
          IsValid(hub.fields[s].last_modified) => IsValid(work.fields[s].last_modified)

\* So does what each merge committed; an anchor of the hub is never older than its
\* quantization, so that a delta which has the one has the other.
HubReads ==
    /\ \A t \in 0 .. seq : /\ Fits(kind, committed[t].values, committed[t].asked)
                           /\ Carries(kind, committed[t].values, committed[t].decoded)
    /\ Whole(hub.fields, kind) /\ AnchoredAtOnce(hub.fields, kind)
    /\ \A s \in Slots(kind) : hub.fields[s].last_modified <= seq
    /\ kind = "dynamic" => hub.fields[2].last_modified <= hub.fields[0].last_modified

ClientReads == Whole(client.fields, kind) /\ Anchored(client.fields, kind)

NetReads ==
    kind = "dynamic" => \A i \in 1 .. Len(net) :
        2 \in DOMAIN net[i].contents => 0 \in DOMAIN net[i].contents

ReadInv == OwnerReads /\ HubReads /\ ClientReads /\ NetReads

\* These depend on nothing but the slots of the compressed field.
LEMMA SameSlots ==
    ASSUME NEW k \in Kinds, NEW f, NEW h, \A s \in Slots(k) : f[s] = h[s]
    PROVE  /\ Whole(f, k) => Whole(h, k)
           /\ Anchored(f, k) => Anchored(h, k)
           /\ AnchoredAtOnce(f, k) => AnchoredAtOnce(h, k)
           /\ FieldReading(f, k) = FieldReading(h, k)
<1>1. k = "dynamic" => f[0] = h[0] /\ f[2] = h[2]
  BY DEF Slots
<1>2. Anchored(f, k) => Anchored(h, k)
  BY <1>1 DEF Anchored
<1>3. AnchoredAtOnce(f, k) => AnchoredAtOnce(h, k)
  BY <1>1 DEF AnchoredAtOnce
<1>4. Whole(f, k) => Whole(h, k)
  BY DEF Whole
<1>5. FieldReading(f, k) = FieldReading(h, k)
  BY DEF FieldReading
<1> QED BY <1>2, <1>3, <1>4, <1>5

LEMMA SameReadings ==
    ASSUME NEW k \in Kinds, NEW r, NEW q, \A s \in Slots(k) : r[s] = q[s], NEW v, Fits(k, r, v)
    PROVE  Fits(k, q, v)
<1>1. r[0] = q[0] /\ r[1] = q[1] /\ (k = "dynamic" => r[2] = q[2])
      /\ (k = "timer" => \A i \in 0 .. 3 : r[i] = q[i])
  BY DEF Kinds, Slots
<1>2. k = "dynamic" => Value(k, r) = Value(k, q)
  BY <1>1 DEF Value
<1> QED BY <1>1, <1>2 DEF Kinds, Fits

\* A merge of slots without defaults: what has a stamp is what the result has.
MergedWhole(r, old, new, n) ==
    /\ r \in SlotOf(Int) /\ r.default = None /\ (IsValid(r.last_modified) <=> r.value # None)
    /\ IsValid(new.last_modified) => r.value = new.value
    /\ ~IsValid(new.last_modified) => r.value = old.value /\ r.last_modified = old.last_modified
    /\ r.last_modified = n \/ r.last_modified = old.last_modified
    /\ IsValid(new.last_modified) /\ ~IsValid(old.last_modified) => r.last_modified = n
    /\ IsValid(old.last_modified) /\ old.value = new.value => r.last_modified = old.last_modified

LEMMA MergeFieldWhole ==
    ASSUME NEW old \in SlotOf(Int), NEW new \in SlotOf(Int), NEW n \in 0 .. MaxSeq, NEW zero \in Int,
           old.default = None, new.default = None,
           IsValid(old.last_modified) <=> old.value # None,
           IsValid(new.last_modified) <=> new.value # None
    PROVE  MergedWhole(MergeField(old, new, n, TRUE, zero), old, new, n)
<1> DEFINE equal == Effective(old, zero) = Effective(new, zero)
           default == IF old.default # None THEN old.default ELSE new.default
           kept == [old EXCEPT !.default = default, !.news = TRUE /\ old.news]
           taken == [value |-> new.value, last_modified |-> n, default |-> default,
                     news |-> TRUE]
           r == MergeField(old, new, n, TRUE, zero)
<1>1. default = None /\ ~IsDefaultValue(new) /\ IsValid(n)
  BY StampFacts DEF IsDefaultValue
<1>2. r \in SlotOf(Int)
  BY MergeFieldFacts, ConstantFacts
<1>3. r = IF IsValid(new.last_modified)
          THEN IF IsValid(old.last_modified) /\ equal THEN kept ELSE taken
          ELSE kept
  BY <1>1 DEF MergeField
<1>4. kept.value = old.value /\ kept.last_modified = old.last_modified /\ kept.default = None
  BY <1>1 DEF SlotOf
<1>5. taken.value = new.value /\ taken.last_modified = n /\ taken.default = None
  BY <1>1
<1>6. IsValid(new.last_modified) /\ IsValid(old.last_modified) =>
          (equal <=> old.value = new.value)
  BY DEF Effective
<1> HIDE DEF r, kept, taken, equal
<1>7. IsValid(old.last_modified) /\ old.value = new.value => IsValid(new.last_modified)
  OBVIOUS
<1>8. ASSUME r = kept PROVE MergedWhole(r, old, new, n)
  BY <1>2, <1>3, <1>4, <1>5, <1>6, <1>8 DEF MergedWhole
<1>9. ASSUME r = taken, IsValid(new.last_modified), ~(IsValid(old.last_modified) /\ equal)
      PROVE  MergedWhole(r, old, new, n)
  BY <1>1, <1>2, <1>5, <1>6, <1>9 DEF MergedWhole
<1>10. MergedWhole(r, old, new, n)
  BY <1>3, <1>8, <1>9
<1> QED BY <1>10 DEF r

LEMMA MergeWhole ==
    ASSUME NEW k \in Kinds, NEW old, Good(old, k), NEW new, Good(new, k), NEW n \in 0 .. MaxSeq,
           Whole(old.fields, k), Whole(new.fields, k), NEW s \in Slots(k)
    PROVE  MergedWhole(MergeState(old, new, k, n, TRUE).fields[s], old.fields[s], new.fields[s], n)
<1>1. s \in StateSlots(k) /\ Zero(k, s) \in Int /\ old \in States(k) /\ new \in States(k)
  BY KindFacts DEF StateSlots, Good
<1>2. MergeState(old, new, k, n, TRUE).fields[s] =
          MergeField(old.fields[s], new.fields[s], n, TRUE, Zero(k, s))
  BY <1>1, MergeStateFacts
<1>3. /\ old.fields[s] \in SlotOf(Int) /\ old.fields[s].default = None
      /\ IsValid(old.fields[s].last_modified) <=> old.fields[s].value # None
      /\ new.fields[s] \in SlotOf(Int) /\ new.fields[s].default = None
      /\ IsValid(new.fields[s].last_modified) <=> new.fields[s].value # None
  BY DEF Whole
<1> QED BY <1>1, <1>2, <1>3, MergeFieldWhole

\* Readings of a state are those of its slots.
LEMMA StateReading ==
    ASSUME NEW k \in Kinds, NEW state, NEW s \in Slots(k)
    PROVE  /\ Reading(state, k)[s] = FieldReading(state.fields, k)[s]
           /\ FieldReading(state.fields, k)[s] = Effective(state.fields[s], SlotZero(k, s))
<1>1. s \in StateSlots(k) /\ s \notin Plain
  BY KindFacts DEF StateSlots
<1> QED BY <1>1 DEF Reading, FieldReading, Zero

\* What a merged state says is carried.
LEMMA SayingCarries ==
    ASSUME NEW k \in Kinds, NEW state, NEW v
    PROVE  Carries(k, Saying(state, k, v).values, Saying(state, k, v).decoded)
<1>1. ASSUME NEW s \in Slots(k)
      PROVE  Saying(state, k, v).decoded[s] \in
                 {Reading(state, k)[s], OnTheWire(k, s, Reading(state, k)[s])}
  <2>1. s \in StateSlots(k) /\ s \notin Plain
    BY KindFacts DEF StateSlots
  <2>2. Saying(state, k, v).decoded[s] = IF state.fields[s].value = None
                                         THEN Reading(state, k)[s]
                                         ELSE OnTheWire(k, s, state.fields[s].value)
    BY <2>1 DEF Saying
  <2>3. state.fields[s].value # None => Reading(state, k)[s] = state.fields[s].value
    BY StateReading DEF Effective
  <2> QED BY <2>2, <2>3
<1>2. Saying(state, k, v).values = Reading(state, k)
  BY DEF Saying
<1> QED BY <1>1, <1>2 DEF Carries

-----------------------------------------------------------------------------
(* The steps.                                                              *)

LEMMA InitReads == Init => ReadInv
<1> SUFFICES ASSUME Init PROVE ReadInv
  OBVIOUS
<1>1. IndInv /\ kind \in Kinds
  BY InitInv DEF IndInv, Types
<1>2. hub = NewState(kind) /\ work = NewState(kind) /\ client = SetInitialNews(NewState(kind))
      /\ seq = 0 /\ asked = 0 /\ net = << >>
      /\ committed = [s \in {0} |-> Saying(hub, kind, 0)]
  BY DEF Init
<1>3. PICK f : f = NewState(kind).fields
  OBVIOUS
<1>4. hub.fields = f /\ work.fields = f /\ client.fields = f
  <2>1. client.fields = NewState(kind).fields
    BY <1>1, <1>2, NewStateFacts DEF SetInitialNews, States
  <2> QED BY <1>2, <1>3, <2>1
<1>5. \A s \in Slots(kind) : f[s] = Unset
  <2>1. \A s \in Slots(kind) : s \in StateSlots(kind) /\ s \notin Declared
    BY <1>1, KindFacts, ConstantFacts DEF StateSlots
  <2> QED BY <1>1, <1>3, <2>1, NewStateFacts
<1>6. Unset \in SlotOf(Int) /\ Unset.default = None /\ Unset.value = None
      /\ Unset.last_modified = Invalid
  BY StampFacts DEF Unset, SlotOf
<1>7. Whole(f, kind) /\ AnchoredAtOnce(f, kind) /\ Anchored(f, kind)
  <2>1. Whole(f, kind)
    BY <1>5, <1>6 DEF Whole, IsValid
  <2>2. kind = "dynamic" => f[0] = Unset /\ f[2] = Unset
    BY <1>5 DEF Slots
  <2> QED BY <1>6, <2>1, <2>2 DEF AnchoredAtOnce, Anchored
<1>8. \A s \in Slots(kind) : FieldReading(f, kind)[s] = SlotZero(kind, s)
  BY <1>5, <1>6 DEF FieldReading, Effective
<1>9. Fits(kind, FieldReading(f, kind), 0)
  <2>1. PICK e : e = FieldReading(f, kind)
    OBVIOUS
  <2>2. CASE kind = "delta"
    <3>1. e[0] = 0 /\ e[1] = 0
      BY <1>8, <2>1, <2>2 DEF Slots, SlotZero
    <3> QED BY <2>1, <2>2, <3>1, ConstantFacts DEF Fits
  <2>3. CASE kind = "counter"
    <3>1. e[0] = 0 /\ e[1] = 0
      BY <1>8, <2>1, <2>3 DEF Slots, SlotZero
    <3>2. 0 % ByteSize = 0
      BY ConstantFacts, ResidueSmall
    <3> QED BY <2>1, <2>3, <3>1, <3>2, ConstantFacts DEF Fits
  <2>4. CASE kind = "dynamic"
    <3>1. e[0] = 0 /\ e[1] = ZeroSentinel
      BY <1>8, <2>1, <2>4 DEF Slots, SlotZero
    <3> QED BY <2>1, <2>4, <3>1 DEF Fits, Value
  <2>5. CASE kind = "timer"
    <3>1. \A i \in 0 .. 3 : e[i] = 0
      BY <1>8, <2>1, <2>5 DEF Slots, SlotZero
    <3>2. 0 % Rollover = 0 /\ 0 % ByteSize = 0
      BY ConstantFacts, ResidueSmall
    <3>3. ASSUME NEW i \in 0 .. 3 PROVE Byte(0 % Rollover, i) = 0
      <4>1. 0 \div Weight(i) = 0
        <5>1. Weight(i) \in Nat \ {0} /\ 0 = Weight(i) * 0 + 0 /\ 0 \in 0 .. Weight(i) - 1
          BY WeightFacts
        <5> QED BY <5>1, Quotient
      <4> QED BY <3>2, <4>1 DEF Byte
    <3> QED BY <2>1, <2>5, <3>1, <3>3 DEF Fits
  <2> QED BY <1>1, <2>2, <2>3, <2>4, <2>5 DEF Kinds
<1>10. OwnerReads
  BY <1>2, <1>4, <1>7, <1>9 DEF OwnerReads
<1>11. HubReads
  <2>1. committed[0] = Saying(hub, kind, 0)
    BY <1>2
  <2>2. Carries(kind, committed[0].values, committed[0].decoded)
    BY <1>1, <2>1, SayingCarries
  <2>3. committed[0].values = Reading(hub, kind) /\ committed[0].asked = 0
    BY <2>1 DEF Saying
  <2>4. \A s \in Slots(kind) : FieldReading(f, kind)[s] = Reading(hub, kind)[s]
    BY <1>1, <1>4, StateReading
  <2>5. Fits(kind, committed[0].values, 0)
    BY <1>1, <1>9, <2>3, <2>4, SameReadings
  <2>6. \A s \in Slots(kind) : hub.fields[s].last_modified = Invalid
    BY <1>4, <1>5, <1>6
  <2>7. kind = "dynamic" => hub.fields[2].last_modified <= hub.fields[0].last_modified
    BY <2>6 DEF Slots, Invalid
  <2>8. 0 .. seq = {0} /\ \A s \in Slots(kind) : hub.fields[s].last_modified <= seq
    BY <1>2, <2>6 DEF Invalid
  <2> QED BY <1>4, <1>7, <2>2, <2>3, <2>5, <2>7, <2>8 DEF HubReads
<1>12. ClientReads /\ NetReads
  BY <1>2, <1>4, <1>7 DEF ClientReads, NetReads
<1> QED BY <1>10, <1>11, <1>12 DEF ReadInv

LEMMA HubReadsFrame == ASSUME HubReads, UNCHANGED <<kind, hub, seq, committed>> PROVE HubReads'
BY DEF HubReads
LEMMA ClientReadsFrame == ASSUME ClientReads, UNCHANGED <<kind, client>> PROVE ClientReads'
BY DEF ClientReads
LEMMA NetReadsFrame == ASSUME NetReads, UNCHANGED <<kind, net>> PROVE NetReads'
BY DEF NetReads

\* An edit that leaves the slots of the compressed field alone.
LEMMA OtherEditReads ==
    ASSUME ReadInv, kind \in Kinds, NEW state, Edit(state), asked' = asked,
           \A s \in Slots(kind) : state.fields[s] = work.fields[s]
    PROVE  ReadInv'
<1>1. work' = state /\ UNCHANGED <<kind, hub, seq, committed, client, net>>
  BY DEF Edit, config, clientVars
<1>2. OwnerReads /\ HubReads /\ ClientReads /\ NetReads
  BY DEF ReadInv
<1>3. OwnerReads'
  <2>1. PICK f : f = state.fields
    OBVIOUS
  <2>2. \A s \in Slots(kind) : work.fields[s] = f[s]
    BY <2>1
  <2>3. Whole(f, kind) /\ AnchoredAtOnce(f, kind)
        /\ FieldReading(work.fields, kind) = FieldReading(f, kind)
    BY <1>2, <2>2, SameSlots DEF OwnerReads
  <2>4. Whole(work'.fields, kind') /\ AnchoredAtOnce(work'.fields, kind')
    BY <1>1, <2>1, <2>3
  <2>5. Fits(kind', FieldReading(work'.fields, kind'), asked')
    BY <1>1, <1>2, <2>1, <2>3 DEF OwnerReads
  <2>6. \A s \in Slots(kind') :
            IsValid(hub'.fields[s].last_modified) => IsValid(work'.fields[s].last_modified)
    BY <1>1, <1>2, <2>1, <2>2 DEF OwnerReads
  <2> QED BY <2>4, <2>5, <2>6 DEF OwnerReads
<1> QED BY <1>1, <1>2, <1>3, HubReadsFrame, ClientReadsFrame, NetReadsFrame DEF ReadInv

LEMMA SetCompressedReads ==
    ASSUME IndInv, ReadInv, SetCompressedValue
    PROVE  ReadInv'
<1>1. kind \in Kinds /\ Good(work, kind) /\ asked \in Nat
  BY DEF IndInv, Types, Good
<1>2. OwnerReads /\ HubReads /\ ClientReads /\ NetReads
  BY DEF ReadInv
<1>3. PICK v \in Samples : Edit(SetCompressed(work, kind, v)) /\ asked' = v
  BY DEF SetCompressedValue
<1>4. v \in Nat
  BY ConstantFacts
<1>5. PICK w : w = SetCompressed(work, kind, v)
  OBVIOUS
<1>6. work' = w /\ UNCHANGED <<kind, hub, seq, committed, client, net>>
  BY <1>3, <1>5 DEF Edit, config, clientVars
<1>7. PICK part : part = CompressedPart(work, kind)
  OBVIOUS
<1>8. PICK set : set = SetField(part, kind, v)
  OBVIOUS
<1>9. /\ part \in [Slots(kind) -> SlotOf(Int)] /\ \A s \in Slots(kind) : work.fields[s] = part[s]
      /\ DOMAIN work.fields = StateSlots(kind) /\ Slots(kind) \subseteq StateSlots(kind)
      /\ work \in States(kind)
  BY <1>1, <1>7 DEF Good, States, CompressedPart, StateSlots
<1>10. Whole(part, kind) /\ AnchoredAtOnce(part, kind)
       /\ Fits(kind, FieldReading(part, kind), asked)
  <2>1. FieldReading(work.fields, kind) = FieldReading(part, kind)
        /\ Whole(part, kind) /\ AnchoredAtOnce(part, kind)
    BY <1>1, <1>2, <1>9, SameSlots DEF OwnerReads
  <2> QED BY <1>2, <2>1 DEF OwnerReads
<1>11. SetRight(set, part, kind, v)
  BY <1>1, <1>4, <1>8, <1>9, <1>10, SetterRight
<1>12. \A s \in Slots(kind) : set[s] = w.fields[s]
  <2>1. DOMAIN set = Slots(kind)
    BY <1>1, <1>4, <1>8, <1>9, SetFieldFacts DEF SetsSlots
  <2>2. w.fields = [s \in StateSlots(kind) |-> IF s \in Slots(kind) THEN set[s]
                                               ELSE work.fields[s]]
    BY <1>5, <1>7, <1>8, <1>9, <2>1 DEF SetCompressed, States
  <2> QED BY <1>9, <2>2
<1>13. Whole(w.fields, kind) /\ AnchoredAtOnce(w.fields, kind)
       /\ FieldReading(set, kind) = FieldReading(w.fields, kind)
  BY <1>1, <1>11, <1>12, SameSlots DEF SetRight
<1>14. Fits(kind, FieldReading(w.fields, kind), v)
  BY <1>11, <1>13 DEF SetRight
<1>15. \A s \in Slots(kind) :
          IsValid(hub.fields[s].last_modified) => IsValid(w.fields[s].last_modified)
  BY <1>2, <1>9, <1>11, <1>12 DEF SetRight, OwnerReads
<1>16. OwnerReads'
  BY <1>3, <1>6, <1>13, <1>14, <1>15 DEF OwnerReads
<1> QED BY <1>2, <1>6, <1>16, HubReadsFrame, ClientReadsFrame, NetReadsFrame DEF ReadInv

\* The other edits.
LEMMA ListEditFields ==
    ASSUME NEW k, NEW state \in States(k), NEW c, NEW g, NEW fx
    PROVE  /\ AddClient(state, c, g, fx).fields = state.fields
           /\ RemoveClient(state, c, g).fields = state.fields
           /\ ClearWhitelist(state, g).fields = state.fields
<1>1. \A x : [state EXCEPT !.lists[g] = x].fields = state.fields
  BY DEF States
<1>2. AddClient(state, c, g, fx).fields = state.fields
  BY <1>1 DEF AddClient
<1>3. RemoveClient(state, c, g).fields = state.fields
  BY <1>1 DEF RemoveClient
<1>4. ClearWhitelist(state, g).fields = state.fields
  BY <1>1 DEF ClearWhitelist
<1> QED BY <1>2, <1>3, <1>4

LEMMA SetPlainReads ==
    ASSUME IndInv, ReadInv, SetPlain
    PROVE  ReadInv'
<1>1. kind \in Kinds /\ work \in States(kind)
  BY DEF IndInv, Types
<1>2. PICK s \in Plain :
         /\ \/ \E v \in {0, 1} : Edit([work EXCEPT !.fields[s] = SetValue(@, v)])
            \/ Edit([work EXCEPT !.fields[s] = ClearValue(@)])
            \/ Edit([work EXCEPT !.fields[s] = SetCurrentValueAsDefault(@, 0)])
         /\ asked' = asked
  BY DEF SetPlain
<1>3. ASSUME NEW f PROVE \A t \in Slots(kind) : [work EXCEPT !.fields[s] = f].fields[t] = work.fields[t]
  <2>1. [work EXCEPT !.fields[s] = f].fields = [work.fields EXCEPT ![s] = f]
        /\ DOMAIN work.fields = StateSlots(kind)
    BY <1>1 DEF States
  <2>2. \A t \in Slots(kind) : t # s /\ t \in StateSlots(kind)
    BY <1>1, KindFacts DEF StateSlots
  <2> QED BY <2>1, <2>2
<1>4. PICK f : Edit([work EXCEPT !.fields[s] = f])
  BY <1>2
<1> QED BY <1>1, <1>2, <1>3, <1>4, OtherEditReads

LEMMA WhitelistReads ==
    ASSUME IndInv, ReadInv, ChangeWhitelist
    PROVE  ReadInv'
<1>1. kind \in Kinds /\ work \in States(kind) /\ Good(work, kind) /\ 1 \in Groups
  BY DEF IndInv, Types, Good, Groups
<1>2. asked' = asked
  BY DEF ChangeWhitelist
<1>3. PICK state : Edit(state) /\ state.fields = work.fields
  <2>1. ASSUME NEW c \in Clients, Edit(AddClient(work, c, 1, fixed))
        PROVE  \E state : Edit(state) /\ state.fields = work.fields
    BY <1>1, <2>1, ListEditFields
  <2>2. ASSUME NEW c \in Clients, Edit(RemoveClient(work, c, 1))
        PROVE  \E state : Edit(state) /\ state.fields = work.fields
    BY <1>1, <2>2, ListEditFields
  <2>3. ASSUME NEW c \in Clients, Edit(SetOwningPlayer(work, c, fixed))
        PROVE  \E state : Edit(state) /\ state.fields = work.fields
    <3>1. PICK w : w = ClearWhitelist(work, 1)
      OBVIOUS
    <3>2. w \in States(kind) /\ w.fields = work.fields
      BY <1>1, <3>1, ClearWhitelistGood, ListEditFields DEF Good
    <3>3. AddClient(w, c, 1, fixed).fields = w.fields
      BY <3>2, ListEditFields
    <3> QED BY <2>3, <3>1, <3>2, <3>3 DEF SetOwningPlayer
  <2>4. ASSUME Edit(ClearWhitelist(work, 1))
        PROVE  \E state : Edit(state) /\ state.fields = work.fields
    BY <1>1, <2>4, ListEditFields
  <2> QED BY <2>1, <2>2, <2>3, <2>4 DEF ChangeWhitelist
<1> QED BY <1>1, <1>2, <1>3, OtherEditReads

LEMMA CommitReads ==
    ASSUME IndInv, ReadInv, Commit
    PROVE  ReadInv'
<1>1. kind \in Kinds /\ Good(hub, kind) /\ Good(work, kind) /\ seq \in Nat
  BY ConstantFacts DEF IndInv, Types, Good
<1>2. OwnerReads /\ HubReads /\ ClientReads /\ NetReads
  BY DEF ReadInv
<1>3. PICK n : n = seq + 1
  OBVIOUS
<1>4. PICK r : r = MergeState(hub, work, kind, n, TRUE)
  OBVIOUS
<1>5. /\ n \in 0 .. MaxSeq /\ seq' = n /\ hub' = r /\ work' = r
      /\ UNCHANGED <<kind, asked, client, net>>
      /\ committed' = [t \in 0 .. n |-> IF t = n THEN Saying(r, kind, asked) ELSE committed[t]]
  BY <1>1, <1>3, <1>4, ConstantFacts DEF Commit, config, clientVars
<1>6. ASSUME NEW s \in Slots(kind)
      PROVE  /\ MergedWhole(r.fields[s], hub.fields[s], work.fields[s], n)
             /\ r.fields[s].value = work.fields[s].value
             /\ r.fields[s].last_modified <= n
             /\ hub.fields[s].last_modified \in Int /\ hub.fields[s].last_modified <= n
  <2>1. MergedWhole(r.fields[s], hub.fields[s], work.fields[s], n)
    BY <1>1, <1>2, <1>4, <1>5, MergeWhole DEF OwnerReads, HubReads
  <2>2. hub.fields[s].last_modified <= n /\ hub.fields[s].last_modified \in Int
    <3>1. hub.fields[s].last_modified \in Stamps /\ hub.fields[s].last_modified <= seq
      BY <1>2 DEF HubReads, Whole, SlotOf
    <3>2. PICK x : x = hub.fields[s].last_modified
      OBVIOUS
    <3>3. x \in Int /\ x <= seq
      BY <3>1, <3>2, StampFacts
    <3>4. x <= n
      BY <1>1, <1>3, <3>3
    <3> QED BY <3>2, <3>3, <3>4
  <2>3. r.fields[s].last_modified <= n
    BY <1>5, <2>1, <2>2 DEF MergedWhole
  <2>4. r.fields[s].value = work.fields[s].value
    <3>1. CASE IsValid(work.fields[s].last_modified)
      BY <2>1, <3>1 DEF MergedWhole
    <3>2. CASE ~IsValid(work.fields[s].last_modified)
      <4>1. ~IsValid(hub.fields[s].last_modified)
        BY <1>2, <3>2 DEF OwnerReads
      <4>2. work.fields[s].value = None /\ hub.fields[s].value = None
        BY <1>2, <3>2, <4>1 DEF OwnerReads, HubReads, Whole
      <4> QED BY <2>1, <3>2, <4>2 DEF MergedWhole
    <3> QED BY <3>1, <3>2
  <2> QED BY <2>1, <2>2, <2>3, <2>4
<1>7. Whole(r.fields, kind)
  BY <1>6 DEF Whole, MergedWhole
<1>8. AnchoredAtOnce(r.fields, kind)
  <2>1. kind = "dynamic" => /\ r.fields[0].value = work.fields[0].value
                            /\ r.fields[2].value = work.fields[2].value
    BY <1>6 DEF Slots
  <2> QED BY <1>2, <2>1 DEF OwnerReads, AnchoredAtOnce
<1>9. FieldReading(r.fields, kind) = FieldReading(work.fields, kind)
  BY <1>6 DEF FieldReading, Effective
<1>10. Fits(kind, FieldReading(r.fields, kind), asked)
  BY <1>2, <1>9 DEF OwnerReads
<1>11. kind = "dynamic" => r.fields[2].last_modified <= r.fields[0].last_modified
  <2> SUFFICES ASSUME kind = "dynamic"
               PROVE  r.fields[2].last_modified <= r.fields[0].last_modified
    OBVIOUS
  <2>1. 0 \in Slots(kind) /\ 2 \in Slots(kind)
    BY DEF Slots
  <2>2. PICK r0, r2, h0, h2, w0, w2 :
           /\ r0 = r.fields[0] /\ r2 = r.fields[2] /\ h0 = hub.fields[0] /\ h2 = hub.fields[2]
           /\ w0 = work.fields[0] /\ w2 = work.fields[2]
    OBVIOUS
  <2>3. MergedWhole(r0, h0, w0, n) /\ MergedWhole(r2, h2, w2, n)
        /\ h0.last_modified <= n /\ h2.last_modified <= n /\ r2.last_modified <= n
        /\ h2.last_modified <= h0.last_modified
    BY <1>2, <1>6, <2>1, <2>2 DEF HubReads
  <2>4. /\ IsValid(h0.last_modified) <=> h0.value # None
        /\ IsValid(h2.last_modified) <=> h2.value # None
        /\ IsValid(w0.last_modified) <=> w0.value # None
        /\ IsValid(w2.last_modified) <=> w2.value # None
    BY <1>2, <2>1, <2>2 DEF OwnerReads, HubReads, Whole
  <2>5. /\ h0.value # None <=> h2.value # None
        /\ w0.value # None <=> w2.value # None
        /\ h2.value # None => h2.value = DeltaRange
        /\ w2.value # None => w2.value = DeltaRange
    BY <1>2, <2>2 DEF OwnerReads, HubReads, AnchoredAtOnce
  <2>6. CASE ~IsValid(w0.last_modified)
    <3>1. ~IsValid(w2.last_modified)
      BY <2>4, <2>5, <2>6
    <3>2. r0.last_modified = h0.last_modified /\ r2.last_modified = h2.last_modified
      BY <2>3, <2>6, <3>1 DEF MergedWhole
    <3> QED BY <2>2, <2>3, <3>2
  <2>7. CASE IsValid(w0.last_modified) /\ IsValid(h0.last_modified)
    <3>1. IsValid(h2.last_modified) /\ h2.value = w2.value
      BY <2>4, <2>5, <2>7
    <3>2. r2.last_modified = h2.last_modified
      BY <2>3, <3>1 DEF MergedWhole
    <3>3. r0.last_modified = n \/ r0.last_modified = h0.last_modified
      BY <2>3 DEF MergedWhole
    <3> QED BY <2>2, <2>3, <3>2, <3>3
  <2>8. CASE IsValid(w0.last_modified) /\ ~IsValid(h0.last_modified)
    <3>1. r0.last_modified = n
      BY <2>3, <2>8 DEF MergedWhole
    <3> QED BY <2>2, <2>3, <3>1
  <2> QED BY <2>6, <2>7, <2>8
<1>12. HubReads'
  <2>1. ASSUME NEW t \in 0 .. seq'
        PROVE  /\ Fits(kind, committed'[t].values, committed'[t].asked)
               /\ Carries(kind, committed'[t].values, committed'[t].decoded)
    <3>1. CASE t = n
      <4>1. committed'[t] = Saying(r, kind, asked)
        BY <1>5, <2>1, <3>1
      <4>2. Carries(kind, committed'[t].values, committed'[t].decoded)
        BY <1>1, <4>1, SayingCarries
      <4>3. committed'[t].values = Reading(r, kind) /\ committed'[t].asked = asked
        BY <4>1 DEF Saying
      <4>4. \A s \in Slots(kind) : FieldReading(r.fields, kind)[s] = Reading(r, kind)[s]
        BY <1>1, StateReading
      <4>5. Fits(kind, Reading(r, kind), asked)
        BY <1>1, <1>10, <4>4, SameReadings
      <4> QED BY <4>2, <4>3, <4>5
    <3>2. CASE t # n
      <4>1. t \in 0 .. seq /\ committed'[t] = committed[t]
        BY <1>1, <1>3, <1>5, <2>1, <3>2
      <4> QED BY <1>2, <4>1 DEF HubReads
    <3> QED BY <3>1, <3>2
  <2>2. \A s \in Slots(kind) : hub'.fields[s].last_modified <= seq'
    BY <1>5, <1>6
  <2> QED BY <1>5, <1>7, <1>8, <1>11, <2>1, <2>2 DEF HubReads
<1>13. OwnerReads'
  BY <1>5, <1>7, <1>8, <1>10 DEF OwnerReads
<1> QED BY <1>2, <1>5, <1>12, <1>13, ClientReadsFrame, NetReadsFrame DEF ReadInv

LEMMA OwnerReadsFrame ==
    ASSUME OwnerReads, UNCHANGED <<kind, hub, work, asked>> PROVE OwnerReads'
BY DEF OwnerReads

\* A delta that has the quantization has the anchor.
LEMMA SendReads ==
    ASSUME IndInv, ReadInv, Send
    PROVE  ReadInv'
<1>1. kind \in Kinds /\ Good(hub, kind) /\ seq \in 0 .. MaxSeq /\ net \in Seq(Messages(kind))
  BY DEF IndInv, Types, Good
<1>2. OwnerReads /\ HubReads /\ ClientReads /\ NetReads
  BY DEF ReadInv
<1>3. UNCHANGED <<kind, hub, work, seq, committed, asked, client>>
  BY DEF Send, config, hubVars
<1>4. PICK c : c = MarshalContents(hub, kind, Client, acked)
  OBVIOUS
<1>5. PICK m : net' = Append(net, m) /\ m.contents = c
  BY <1>4 DEF Send
<1>6. acked \in [Groups -> Stamps]
  <2>1. Invalid .. seq \subseteq Stamps
    BY <1>1, ConstantFacts DEF Stamps, Invalid
  <2> QED BY <2>1 DEF IndInv, Types
<1>7. ASSUME kind = "dynamic", 2 \in DOMAIN c PROVE 0 \in DOMAIN c
  <2>1. 0 \in Slots(kind) /\ 2 \in Slots(kind) /\ 0 \in StateSlots(kind) /\ 2 \in StateSlots(kind)
    BY <1>7 DEF Slots, StateSlots
  <2>2. \A s \in StateSlots(kind) :
           s \in DOMAIN c <=>
               \E g \in Groups :
                   /\ Client = None \/ ShouldSendToClient(hub, Client, g)
                   /\ s \in GroupSlots(kind, g) /\ IsDirtySince(hub.fields[s], acked[g])
    BY <1>1, <1>4, <1>6, MarshalFacts
  <2>3. PICK g \in Groups : /\ Client = None \/ ShouldSendToClient(hub, Client, g)
                            /\ 2 \in GroupSlots(kind, g) /\ IsDirtySince(hub.fields[2], acked[g])
    BY <1>7, <2>1, <2>2
  <2>4. 0 \in GroupSlots(kind, g)
    BY <2>1, <2>3 DEF GroupSlots, Secret
  <2>5. hub.fields[2].last_modified \in Int /\ hub.fields[0].last_modified \in Int
        /\ acked[g] \in Int
    BY <1>2, <1>6, <2>1, StampFacts DEF HubReads, Whole, SlotOf
  <2>6. IsDirtySince(hub.fields[0], acked[g])
    <3>1. hub.fields[2].value # None
      BY <1>2, <2>1, <2>3 DEF IsDirtySince, HubReads, Whole
    <3>2. IsValid(hub.fields[0].last_modified)
      BY <1>2, <1>7, <2>1, <3>1 DEF HubReads, Whole, AnchoredAtOnce
    <3>3. acked[g] < hub.fields[0].last_modified
      BY <1>2, <1>7, <2>3, <2>5 DEF HubReads, IsDirtySince
    <3> QED BY <3>2, <3>3 DEF IsDirtySince
  <2> QED BY <2>1, <2>2, <2>3, <2>4, <2>6
<1>8. NetReads'
  <2>1. ASSUME kind = "dynamic", NEW i \in 1 .. Len(net'), 2 \in DOMAIN net'[i].contents
        PROVE  0 \in DOMAIN net'[i].contents
    <3>1. Len(net') = Len(net) + 1 /\ Len(net) \in Nat
          /\ net'[i] = IF i = Len(net) + 1 THEN m ELSE net[i]
      BY <1>1, <1>5, <2>1
    <3>2. CASE i = Len(net) + 1
      BY <1>5, <1>7, <2>1, <3>1, <3>2
    <3>3. CASE i # Len(net) + 1
      <4>1. i \in 1 .. Len(net) /\ net'[i] = net[i]
        BY <3>1, <3>3
      <4> QED BY <1>2, <2>1, <4>1 DEF NetReads
    <3> QED BY <3>2, <3>3
  <2> QED BY <1>3, <2>1 DEF NetReads
<1> QED BY <1>2, <1>3, <1>8, OwnerReadsFrame, HubReadsFrame, ClientReadsFrame DEF ReadInv

LEMMA TailReads ==
    ASSUME IndInv, NetReads, kind' = kind, net # << >>, net' = Tail(net)
    PROVE  NetReads'
<1>1. net \in Seq(Messages(kind))
  BY DEF IndInv, Types
<1>2. \A i \in 1 .. Len(net') : i + 1 \in 1 .. Len(net) /\ net'[i] = net[i + 1]
  BY <1>1, TailFacts
<1> QED BY <1>2 DEF NetReads

LEMMA DeliverReads ==
    ASSUME IndInv, ReadInv, Deliver
    PROVE  ReadInv'
<1>1. kind \in Kinds /\ Good(client, kind) /\ net \in Seq(Messages(kind)) /\ net # << >>
  BY DEF IndInv, Types, Good, Deliver
<1>2. OwnerReads /\ HubReads /\ ClientReads /\ NetReads
  BY DEF ReadInv
<1>3. UNCHANGED <<kind, hub, work, seq, committed, asked>> /\ net' = Tail(net)
  BY DEF Deliver, config, hubVars
<1>4. PICK m : m = Head(net)
  OBVIOUS
<1>5. m.seq \in 0 .. MaxSeq /\ m.contents \in Contents(kind) /\ m = net[1] /\ 1 \in 1 .. Len(net)
  <2>1. m \in Messages(kind) /\ m = net[1] /\ 1 \in 1 .. Len(net)
    BY <1>1, <1>4, TailFacts
  <2> QED BY <2>1 DEF Messages
<1>6. PICK c, n : c = m.contents /\ n = m.seq
  OBVIOUS
<1>7. PICK u : u = UnmarshalContents(kind, c)
  OBVIOUS
<1>8. PICK r : r = MergeState(client, u, kind, n, TRUE)
  OBVIOUS
<1>9. client' = r
  BY <1>4, <1>6, <1>7, <1>8 DEF Deliver
<1>10. /\ Good(u, kind) /\ \A s \in DOMAIN c : c[s] \in Int
       /\ \A s \in StateSlots(kind) :
             u.fields[s] = IF s \in DOMAIN c THEN Decoded(c[s]) ELSE NewState(kind).fields[s]
  BY <1>1, <1>5, <1>6, <1>7, UnmarshalFacts
<1>11. ASSUME NEW s \in Slots(kind)
       PROVE  /\ u.fields[s] \in SlotOf(Int) /\ u.fields[s].default = None
              /\ IsValid(u.fields[s].last_modified) <=> u.fields[s].value # None
              /\ u.fields[s].value # None <=> s \in DOMAIN c
  <2>1. s \in StateSlots(kind) /\ s \notin Declared
    BY <1>1, KindFacts, ConstantFacts DEF StateSlots
  <2>2. CASE s \in DOMAIN c
    <3>1. c[s] \in Int /\ c[s] # None /\ u.fields[s] = Decoded(c[s])
      BY <1>10, <2>1, <2>2, ConstantFacts
    <3>2. Decoded(c[s]) \in SlotOf(Int) /\ Decoded(c[s]).value = c[s]
          /\ Decoded(c[s]).last_modified = 0 /\ Decoded(c[s]).default = None
      BY <3>1, DecodedFacts
    <3> QED BY <2>2, <3>1, <3>2 DEF IsValid, Invalid
  <2>3. CASE s \notin DOMAIN c
    <3>1. u.fields[s] = Unset
      BY <1>1, <1>10, <2>1, <2>3, NewStateFacts
    <3>2. Unset \in SlotOf(Int) /\ Unset.default = None /\ Unset.value = None
          /\ Unset.last_modified = Invalid
      BY StampFacts DEF Unset, SlotOf
    <3> QED BY <2>3, <3>1, <3>2 DEF IsValid
  <2> QED BY <2>2, <2>3
<1>12. Whole(u.fields, kind)
  BY <1>11 DEF Whole
<1>13. \A s \in Slots(kind) : MergedWhole(r.fields[s], client.fields[s], u.fields[s], n)
  BY <1>1, <1>2, <1>5, <1>6, <1>8, <1>10, <1>12, MergeWhole DEF ClientReads
<1>14. Whole(r.fields, kind)
  BY <1>13 DEF Whole, MergedWhole
<1>15. Anchored(r.fields, kind)
  <2> SUFFICES ASSUME kind = "dynamic", r.fields[2].value # None
               PROVE  r.fields[0].value # None
    BY DEF Anchored
  <2>1. 0 \in Slots(kind) /\ 2 \in Slots(kind)
    BY DEF Slots
  <2>2. u.fields[0].value # None => r.fields[0].value # None
    BY <1>11, <1>13, <2>1 DEF MergedWhole
  <2>3. CASE 2 \in DOMAIN c
    <3>1. 0 \in DOMAIN c
      BY <1>2, <1>5, <1>6, <2>3 DEF NetReads
    <3> QED BY <1>11, <2>1, <2>2, <3>1
  <2>4. CASE 2 \notin DOMAIN c
    <3>1. ~IsValid(u.fields[2].last_modified)
      BY <1>11, <2>1, <2>4
    <3>2. client.fields[2].value # None
      BY <1>13, <2>1, <3>1 DEF MergedWhole
    <3>3. client.fields[0].value # None
      BY <1>2, <3>2 DEF ClientReads, Anchored
    <3>4. u.fields[0].value = None => r.fields[0].value = client.fields[0].value
      BY <1>11, <1>13, <2>1 DEF MergedWhole
    <3> QED BY <2>2, <3>3, <3>4
  <2> QED BY <2>3, <2>4
<1>16. ClientReads'
  BY <1>3, <1>9, <1>14, <1>15 DEF ClientReads
<1>17. NetReads'
  BY <1>1, <1>2, <1>3, TailReads
<1> QED BY <1>2, <1>3, <1>16, <1>17, OwnerReadsFrame, HubReadsFrame DEF ReadInv

LEMMA TakeNewsReads ==
    ASSUME IndInv, ReadInv, TakeNews
    PROVE  ReadInv'
<1>1. kind \in Kinds /\ Good(client, kind)
  BY DEF IndInv, Types, Good
<1>2. OwnerReads /\ HubReads /\ ClientReads /\ NetReads
  BY DEF ReadInv
<1>3. UNCHANGED <<kind, hub, work, seq, committed, asked, net>>
  BY DEF TakeNews, config, hubVars
<1>4. PICK r : r = ResetState(client)
  OBVIOUS
<1>5. client' = r
  BY <1>4 DEF TakeNews
<1>6. /\ Good(r, kind)
      /\ \A s \in StateSlots(kind) :
            /\ r.fields[s].value = client.fields[s].value
            /\ r.fields[s].last_modified = client.fields[s].last_modified
  BY <1>1, <1>4, ResetFacts
<1>7. \A s \in Slots(kind) : /\ r.fields[s] \in SlotOf(Int) /\ r.fields[s].default = None
                             /\ r.fields[s].value = client.fields[s].value
                             /\ r.fields[s].last_modified = client.fields[s].last_modified
  BY <1>6 DEF Good, States, SlotsOK, StateSlots
<1>8. Whole(r.fields, kind)
  BY <1>2, <1>7 DEF ClientReads, Whole
<1>9. Anchored(r.fields, kind)
  <2>1. kind = "dynamic" => 0 \in Slots(kind) /\ 2 \in Slots(kind)
    BY DEF Slots
  <2> QED BY <1>2, <1>7, <2>1 DEF ClientReads, Anchored
<1>10. ClientReads'
  BY <1>3, <1>5, <1>8, <1>9 DEF ClientReads
<1> QED BY <1>2, <1>3, <1>10, OwnerReadsFrame, HubReadsFrame, NetReadsFrame DEF ReadInv

LEMMA NextReads == IndInv /\ ReadInv /\ [Next]_vars => ReadInv'
<1> SUFFICES ASSUME IndInv, ReadInv, [Next]_vars PROVE ReadInv'
  OBVIOUS
<1>1. ASSUME UNCHANGED <<kind, hub, work, seq, committed, asked, client, net>> PROVE ReadInv'
  BY <1>1, OwnerReadsFrame, HubReadsFrame, ClientReadsFrame, NetReadsFrame DEF ReadInv
<1>2. CASE UNCHANGED vars
  BY <1>1, <1>2 DEF vars
<1>3. CASE SetCompressedValue
  BY <1>3, SetCompressedReads
<1>4. CASE SetPlain
  BY <1>4, SetPlainReads
<1>5. CASE ChangeWhitelist
  BY <1>5, WhitelistReads
<1>6. CASE Commit
  BY <1>6, CommitReads
<1>7. CASE Send
  BY <1>7, SendReads
<1>8. CASE Lose
  <2>1. UNCHANGED <<kind, hub, work, seq, committed, asked, client>> /\ net # << >>
        /\ net' = Tail(net)
    BY <1>8 DEF Lose, config, hubVars
  <2>2. NetReads'
    BY <2>1, TailReads DEF ReadInv
  <2> QED BY <2>1, <2>2, OwnerReadsFrame, HubReadsFrame, ClientReadsFrame DEF ReadInv
<1>9. CASE Deliver
  BY <1>9, DeliverReads
<1>10. CASE TakeNews
  BY <1>10, TakeNewsReads
<1>11. CASE SendPeer
  BY <1>1, <1>11 DEF SendPeer, config, hubVars, clientVars
<1>12. CASE DeliverPeer
  BY <1>1, <1>12 DEF DeliverPeer, config, hubVars, clientVars
<1> QED BY <1>2, <1>3, <1>4, <1>5, <1>6, <1>7, <1>8, <1>9, <1>10, <1>11, <1>12 DEF Next

\* The value that a field was set to is what value() reads out of its slots, at the
\* hub after a merge and at the client after a delta, up to the quantum: however the
\* setters rebased the slots, and whichever of them the client was sent.
THEOREM FieldsReadBack == Spec => []ReadsBack
<1>1. IndInv /\ ReadInv => ReadsBack
  <2> SUFFICES ASSUME IndInv, ReadInv PROVE ReadsBack
    OBVIOUS
  <2>1. /\ kind \in Kinds /\ seq \in Nat /\ seq \in 0 .. seq
        /\ committed \in [0 .. seq -> Sayings(kind)]
        /\ HubReads /\ ClientReads
    BY ConstantFacts DEF IndInv, Types, ReadInv
  <2>2. ASSUME NEW t \in 0 .. seq, NEW state, Whole(state.fields, kind),
               Anchored(state.fields, kind),
               \A s \in Slots(kind) : Reading(state, kind)[s] \in
                   {committed[t].values[s], committed[t].decoded[s]}
        PROVE  ReadsAs(committed[t].asked, ReadField(CompressedPart(state, kind), kind))
    <3>1. PICK f, e : f = CompressedPart(state, kind) /\ e = FieldReading(f, kind)
      OBVIOUS
    <3>2. \A s \in Slots(kind) : state.fields[s] = f[s]
      BY <3>1 DEF CompressedPart
    <3>3. Whole(f, kind) /\ Anchored(f, kind) /\ FieldReading(state.fields, kind) = e
      BY <2>1, <2>2, <3>1, <3>2, SameSlots
    <3>4. PICK values, decoded, v : /\ values = committed[t].values /\ v = committed[t].asked
                                    /\ decoded = committed[t].decoded
      OBVIOUS
    <3>5. Fits(kind, values, v) /\ Carries(kind, values, decoded)
      BY <2>1, <3>4 DEF HubReads
    <3>6. \A s \in Slots(kind) : e[s] \in {values[s], decoded[s]}
      BY <2>1, <2>2, <3>3, <3>4, StateReading
    <3>7. Carries(kind, values, e)
      BY <3>5, <3>6 DEF Carries
    <3>8. v \in Nat /\ \A s \in Slots(kind) : values[s] \in Int
      BY <2>1, <3>4 DEF Sayings, StateSlots
    <3>9. /\ Near(kind, v, Value(kind, e))
          /\ kind = "dynamic" => (e[1] # ZeroSentinel => e[2] = DeltaRange)
      BY <2>1, <3>5, <3>7, <3>8, CarriedReads
    <3>10. ReadField(f, kind) = Value(kind, e)
      BY <2>1, <3>1, <3>3, <3>9, ReadFieldValue
    <3> QED BY <2>1, <3>1, <3>4, <3>9, <3>10 DEF Near, ReadsAs, Kinds
  <2>3. ReadsAs(committed[seq].asked, ReadField(CompressedPart(hub, kind), kind))
    <3>1. Anchored(hub.fields, kind)
      BY <2>1 DEF HubReads, AnchoredAtOnce, Anchored
    <3>2. committed[seq].values = Reading(hub, kind)
      BY DEF IndInv, HubInv, Says
    <3> QED BY <2>1, <2>2, <3>1, <3>2 DEF HubReads
  <2>4. ASSUME IsValid(acked[0])
        PROVE  ReadsAs(committed[acked[0]].asked, ReadField(CompressedPart(client, kind), kind))
    <3>1. acked[0] \in 0 .. seq /\ 0 \in Groups
      BY <2>1, <2>4 DEF IndInv, Types, Groups, IsValid, Invalid
    <3>2. \A s \in Slots(kind) : s \in GroupSlots(kind, 0) \ Declared
      BY <2>1, KindFacts, ConstantFacts DEF GroupSlots
    <3>3. \A s \in Slots(kind) : Reading(client, kind)[s] = committed[acked[0]].decoded[s]
      BY <2>4, <3>1, <3>2 DEF IndInv, ClientInv, Base
    <3> QED BY <2>1, <2>2, <3>1, <3>3 DEF ClientReads
  <2> QED BY <2>3, <2>4 DEF ReadsBack
<1>2. Spec => []ReadInv
  BY InitReads, NextReads, Invariance, PTL DEF Spec
<1> QED BY <1>1, <1>2, Invariance, PTL
===============================================================================
