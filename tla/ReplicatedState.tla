--------------------------- MODULE ReplicatedState ---------------------------
(***************************************************************************)
(* Replicated states: hub/replicated_state.rs with the code that the       *)
(* ReplicatedState derive emits, and hub/fixed_replicated_state.rs with    *)
(* the FixedReplicatedStateFields derive (fixed = TRUE).                   *)
(*                                                                         *)
(* The state has two filter groups, as ALCReplicatedState and, but for an  *)
(* empty one, PlayerComponentReplicatedState do: group 0 for every client, *)
(* with a compressed field and a plain one, and group 1 for the owning     *)
(* client, with a plain one.  Slots are numbered in registration order.    *)
(* A whitelist is the number of entries of each client; the order of its   *)
(* vector is left out.  Message bodies are kept as what their masks and    *)
(* field bodies say; their bytes are in Wire.tla.                          *)
(***************************************************************************)
EXTENDS ReplicatedField

CONSTANTS Clients,
          Declared,       \* plain slots that Self::default() gives a default value
          WhitelistSize   \* CLIENT_WHITELIST_SIZE of the fixed states

Groups == {0, 1}
Name == 4    \* the plain slot of group 0
Secret == 5  \* the one of group 1
Plain == {Name, Secret}
DefaultValue == 1  \* of a declared slot; T::default() is 0

ASSUME StateAssumption ==
    /\ Declared \subseteq Plain /\ WhitelistSize \in Nat \ {0}
    /\ None \notin Clients /\ None \notin [Clients -> Nat]

\* The slots of a group, in the order of visit_fixed_fields.
GroupSlots(kind, g) == IF g = 0 THEN Slots(kind) \cup {Name} ELSE {Secret}
StateSlots(kind) == Slots(kind) \cup Plain
Zero(kind, s) == IF s \in Plain THEN 0 ELSE SlotZero(kind, s)

NoClients == [c \in Clients |-> 0]

\* Self::default(): unset fields, the declared defaults, and whitelists and
\* default bits that are present and empty.
NewState(kind) ==
    [fields |-> [s \in StateSlots(kind) |->
                   IF s \in Declared THEN SetDefaultValue(Unset, DefaultValue) ELSE Unset],
     lists |-> [g \in Groups |-> Some(NoClients)],
     bits |-> [g \in Groups |-> Some({})],
     sequence |-> Invalid, last_modified |-> Invalid,
     merged |-> FALSE, news |-> FALSE, detected |-> FALSE]

CompressedPart(state, kind) == [s \in Slots(kind) |-> state.fields[s]]

\* A setter of the compressed field.
SetCompressed(state, kind, v) ==
    LET set == SetField(CompressedPart(state, kind), kind, v)
    IN  [state EXCEPT !.fields = [s \in DOMAIN @ |-> IF s \in DOMAIN set THEN set[s] ELSE @[s]]]

-----------------------------------------------------------------------------
(* Whitelists.                                                             *)

\* should_send_to_client: an empty whitelist lets everybody in.
ShouldSendToClient(state, client, g) ==
    state.lists[g].value = NoClients \/ state.lists[g].value[client] > 0

\* add_client_to_replication_whitelist.  A fixed state has at most WhitelistSize
\* clients in a list and no counts; the others count the references.
AddClient(state, client, g, fixed) ==
    LET list == state.lists[g].value
        full == Cardinality({c \in Clients : list[c] > 0}) >= WhitelistSize
    IN  IF fixed /\ (list[client] > 0 \/ full) THEN state
        ELSE [state EXCEPT !.lists[g] = Access(@, [list EXCEPT ![client] = @ + 1])]

\* Mutant of RemoveClient: a client that has no entry is removed, too.
RemoveClientUnguarded(state, client, g) ==
    [state EXCEPT !.lists[g] = Access(@, [@.value EXCEPT ![client] = @ - 1])]

\* remove_client_from_replication_whitelist: one reference, or the entry.
RemoveClient(state, client, g) ==
    LET list == state.lists[g].value
    IN  IF list[client] = 0 THEN state
        ELSE [state EXCEPT !.lists[g] = Access(@, [list EXCEPT ![client] = @ - 1])]

\* clear_replication_whitelist.
ClearWhitelist(state, g) ==
    IF state.lists[g].value = NoClients THEN state
    ELSE [state EXCEPT !.lists[g] = Access(@, NoClients)]

\* ALCReplicatedState::set_owning_player.
SetOwningPlayer(state, client, fixed) ==
    AddClient(ClearWhitelist(state, 1), client, 1, fixed)

-----------------------------------------------------------------------------
(* Contents, attributes and field metadata of a message.                   *)

DirtySlots(state, kind, g, baseline) ==
    {s \in GroupSlots(kind, g) : IsDirtySince(state.fields[s], baseline)}

\* Mutant of MarshalContents: the target's whitelist is not asked.
MarshalContentsOpen(state, kind, target, baselines) ==
    LET dirty == UNION {DirtySlots(state, kind, g, baselines[g]) : g \in Groups}
    IN  [s \in dirty |-> IF s \in Plain THEN state.fields[s].value
                         ELSE OnTheWire(kind, s, state.fields[s].value)]

\* marshal_contents_with: the dirty fields of the groups that the target may
\* see, each group against its own baseline.  An empty body is not written.
MarshalContents(state, kind, target, baselines) ==
    LET visible == {g \in Groups : target = None \/ ShouldSendToClient(state, target, g)}
        dirty == UNION {DirtySlots(state, kind, g, baselines[g]) : g \in visible}
    IN  [s \in dirty |-> IF s \in Plain THEN state.fields[s].value
                         ELSE OnTheWire(kind, s, state.fields[s].value)]

\* calculate_default_bits: computed afresh, so never at a sequence number.
DefaultBits(state, kind, g) == {s \in GroupSlots(kind, g) : IsDefaultValue(state.fields[s])}

\* marshal_attributes: the whitelists newer than the baseline and, in a message
\* without one, the default bits of a state that is not fixed.
MarshalAttributes(state, kind, fixed, baseline) ==
    [lists |-> [g \in {h \in Groups : IsDirtySince(state.lists[h], baseline)} |->
                  state.lists[g].value],
     bits |-> [g \in {h \in Groups : ~fixed /\ baseline < ValidNonSequence} |->
                  DefaultBits(state, kind, g)]]

\* marshal_field_metadata: the stamp of every field and whitelist.
MarshalMetadata(state) ==
    [fields |-> [s \in DOMAIN state.fields |-> state.fields[s].last_modified],
     lists |-> [g \in Groups |-> state.lists[g].last_modified]]

\* full_marshal, to another hub.
FullMarshal(state, kind, fixed, baseline) ==
    [contents |-> MarshalContents(state, kind, None, [g \in Groups |-> baseline]),
     attributes |-> MarshalAttributes(state, kind, fixed, baseline),
     metadata |-> MarshalMetadata(state)]

\* decode_contents: into a new state.
UnmarshalContents(kind, contents) ==
    [NewState(kind) EXCEPT
        !.fields = [s \in DOMAIN @ |-> IF s \in DOMAIN contents THEN Decoded(contents[s])
                                       ELSE @[s]]]

\* unmarshal_attributes: a fixed state sets its whitelists, the others decode
\* theirs and make the fields of the default bits defaults.
UnmarshalAttributes(state, kind, fixed, attributes) ==
    LET list(g) == IF g \in DOMAIN attributes.lists
                   THEN IF fixed THEN SetValue(state.lists[g], attributes.lists[g])
                        ELSE Decoded(attributes.lists[g])
                   ELSE state.lists[g]
        bits(g) == IF g \in DOMAIN attributes.bits THEN Decoded(attributes.bits[g])
                   ELSE state.bits[g]
        isDefault(s) == ~fixed /\ \E g \in Groups : s \in bits(g).value
    IN  [state EXCEPT
           !.lists = [g \in Groups |-> list(g)],
           !.bits = [g \in Groups |-> bits(g)],
           !.fields = [s \in DOMAIN @ |->
                         IF isDefault(s) THEN SetCurrentValueAsDefault(@[s], Zero(kind, s))
                         ELSE @[s]]]

\* unmarshal_field_metadata: every stamp is replaced, also of what was not sent.
UnmarshalMetadata(state, metadata) ==
    [state EXCEPT
       !.fields = [s \in DOMAIN @ |-> [@[s] EXCEPT !.last_modified = metadata.fields[s]]],
       !.lists = [g \in Groups |-> [@[g] EXCEPT !.last_modified = metadata.lists[g]]]]

\* Mutant of FullUnmarshal: the attributes are skipped.
FullUnmarshalBare(kind, fixed, m) ==
    UnmarshalMetadata(UnmarshalContents(kind, m.contents), m.metadata)

\* full_unmarshal of a message with contents.
FullUnmarshal(kind, fixed, m) ==
    UnmarshalMetadata(
        UnmarshalAttributes(UnmarshalContents(kind, m.contents), kind, fixed, m.attributes),
        m.metadata)

-----------------------------------------------------------------------------
(* Merging.                                                                *)

\* merge_and_update_sequence of a state, with finish_merge: slot by slot into a
\* new state, the whitelists and default bits likewise; the outcome is the
\* latest stamp, any news and any new data.
MergeState(old, new, kind, seq, inherit) ==
    LET fields == [s \in StateSlots(kind) |->
                     MergeField(old.fields[s], new.fields[s], seq, inherit, Zero(kind, s))]
        lists == [g \in Groups |->
                     MergeField(old.lists[g], new.lists[g], seq, inherit, NoClients)]
        bits == [g \in Groups |-> MergeField(old.bits[g], new.bits[g], seq, inherit, {})]
        parts == {fields[s] : s \in StateSlots(kind)}
                 \cup {[f EXCEPT !.value = None] : f \in {lists[g] : g \in Groups}}
                 \cup {[f EXCEPT !.value = None] : f \in {bits[g] : g \in Groups}}
        stamps == {f.last_modified : f \in parts}
    IN  [fields |-> fields, lists |-> lists, bits |-> bits,
         sequence |-> seq,
         last_modified |-> CHOOSE t \in stamps : \A u \in stamps : u <= t,
         merged |-> TRUE,
         news |-> \E f \in parts : f.news,
         detected |-> \/ \E s \in StateSlots(kind) :
                           Detected(old.fields[s], new.fields[s], Zero(kind, s))
                      \/ \E g \in Groups : \/ Detected(old.lists[g], new.lists[g], NoClients)
                                           \/ Detected(old.bits[g], new.bits[g], {})]

\* reset_has_new_network_data.
ResetState(state) ==
    [state EXCEPT
       !.fields = [s \in DOMAIN @ |-> ResetNews(@[s])],
       !.lists = [g \in Groups |-> ResetNews(@[g])],
       !.bits = [g \in Groups |-> ResetNews(@[g])],
       !.news = FALSE]

\* set_has_new_network_data_on_initial_state.
SetInitialNews(state) == [state EXCEPT !.news = TRUE, !.detected = TRUE]

\* is_fragment_dirty.
IsFragmentDirty(state, baseline) == baseline < state.last_modified

\* What a reader of the state sees: the effective value of every slot.
Reading(state, kind) ==
    [s \in StateSlots(kind) |-> Effective(state.fields[s], Zero(kind, s))]
=============================================================================
