------------------------- MODULE ReplicatedContainer -------------------------
(***************************************************************************)
(* The operators of serialize/replicated_container.rs on a map storage     *)
(* (HashMap, IndexMap): local edits, the change journal, the wire form and *)
(* the three-way merge.                                                    *)
(*                                                                         *)
(* values is a function on the keys that are present.  A change is         *)
(* [op, key, value, sequence]; None is the value of a key-only change and  *)
(* of a removal.  Sequence numbers are integers ordered as in              *)
(* hub/sequence_number.rs: Invalid, ValidNonSequence, then 1, 2, ...  On   *)
(* the wire a body is a snapshot or a list of changes in which a repeated  *)
(* sequence number is written as ValidNonSequence.                         *)
(***************************************************************************)
EXTENDS Integers, SequencesExt

CONSTANTS Keys, Values,
          None,          \* no value: Option::None
          DefaultValue,  \* V::default()
          JournalSize    \* REPLICATED_CONTAINER_FIXED_JOURNAL_SIZE: 10 in the code

ASSUME ContainerAssumption ==
    /\ None \notin Values
    /\ DefaultValue \in Values
    /\ JournalSize \in Nat \ {0}

Invalid == -1
ValidNonSequence == 0

Maps == UNION {[S -> Values] : S \in SUBSET Keys}
Ops == {"add", "update", "remove"}

\* A change whose sequence number is in S.
Change(S) == [op : Ops, key : Keys, value : Values \cup {None}, sequence : S]

NoValues == [k \in {} |-> None]
Put(f, k, v) == [x \in DOMAIN f \cup {k} |-> IF x = k THEN v ELSE f[x]]
Without(f, k) == [x \in DOMAIN f \ {k} |-> f[x]]

-----------------------------------------------------------------------------
(* Containers.                                                             *)

\* Default::default, with the flags that start set.
Empty == [last_modified |-> Invalid, full |-> Invalid, values |-> NoValues,
          changes |-> <<>>, journal |-> <<>>, initialize |-> TRUE,
          pending |-> FALSE, default |-> FALSE, news |-> FALSE,
          processed |-> Invalid]

\* end_change_set_sequence_number.
EndSequence(c) == IF c.journal = <<>> THEN Invalid ELSE Last(c.journal).sequence

\* is_dirty.
IsDirty(c, baseline) == baseline < c.last_modified

\* Mutant of PushJournal: nothing is dropped.
PushJournalUnbounded(journal, set) == Append(journal, set)

\* push_journal: at the limit the oldest set is dropped.
PushJournal(journal, set) ==
    Append(IF Len(journal) = JournalSize THEN Tail(journal) ELSE journal, set)

\* apply_change of the maps: a live change without a value does nothing.
ApplyChange(values, ch) ==
    CASE ch.op = "remove"   -> Without(values, ch.key)
      [] ch.op # "remove" /\ ch.value \in Values -> Put(values, ch.key, ch.value)
      [] OTHER              -> values

\* apply_changes.
ApplyChanges(values, changes) ==
    LET after[n \in 0 .. Len(changes)] ==
            IF n = 0 THEN values ELSE ApplyChange(after[n - 1], changes[n])
    IN  after[Len(changes)]

-----------------------------------------------------------------------------
(* Local edits.                                                            *)

\* push_initialize_change.
PushInitializeChange(c) ==
    [c EXCEPT !.last_modified = ValidNonSequence, !.default = FALSE,
              !.initialize = TRUE, !.pending = FALSE,
              !.changes = IF c.initialize THEN @ ELSE <<>>]

\* push_change: more changes than entries turn into an initialization.
PushChange(c, ch) ==
    LET d == [c EXCEPT !.last_modified = ValidNonSequence, !.default = FALSE,
                       !.pending = FALSE]
    IN  CASE c.initialize -> d
          [] ~c.initialize /\ Len(c.changes) > Cardinality(DOMAIN c.values)
               -> PushInitializeChange(d)
          [] OTHER -> [d EXCEPT !.changes = Append(@, ch)]

\* push_add, push_update and push_remove: the value is applied at once, the
\* change that is recorded has only the key and no sequence number.
Push(c, op, k, v) ==
    LET ch == [op |-> op, key |-> k, value |-> v, sequence |-> ValidNonSequence]
    IN  PushChange([c EXCEPT !.values = ApplyChange(@, ch)],
                   [ch EXCEPT !.value = None, !.sequence = Invalid])

\* set_current_value_as_default.
SetCurrentValueAsDefault(c) ==
    [c EXCEPT !.default = TRUE, !.last_modified = Invalid, !.changes = <<>>]

-----------------------------------------------------------------------------
(* The wire.                                                               *)

\* populate_change_value: a key-only change takes the value of now.
Populate(values, ch) ==
    IF ch.op # "remove" /\ ch.value = None /\ ch.key \in DOMAIN values
    THEN [ch EXCEPT !.value = values[ch.key]] ELSE ch

\* Mutant of IsNewer: the first set after the baseline is skipped.
IsNewerByTwo(set, baseline) == baseline + 1 < set.sequence

IsNewer(set, baseline) == baseline < set.sequence

\* The changes of the sets of the journal after a baseline, in order.
Newer(journal, baseline) ==
    LET upTo[n \in 0 .. Len(journal)] ==
            IF n = 0 THEN <<>>
            ELSE IF IsNewer(journal[n], baseline) THEN upTo[n - 1] \o journal[n].changes
                 ELSE upTo[n - 1]
    IN  upTo[Len(journal)]

\* summarize_changes with the efficiency of marshal_since, 0.8: nothing for an
\* initialization and when the changes are not worth it.
SummarizeChanges(c, baseline) ==
    LET changes == Newer(c.journal, baseline) \o c.changes
    IN  IF c.initialize \/ 10 * Len(changes) > 8 * Cardinality(DOMAIN c.values)
        THEN <<>>
        ELSE [i \in DOMAIN changes |-> Populate(c.values, changes[i])]

\* marshal_full.
MarshalFull(c) == [mode |-> "full", sequence |-> c.last_modified, values |-> c.values]

\* marshal_changes: a value that is still missing is looked up or defaulted; a
\* sequence number equal to the one before is written as ValidNonSequence.
MarshalChanges(c, changes) ==
    LET before(i) == IF i = 1 THEN Invalid ELSE changes[i - 1].sequence
        value(ch) == IF ch.op = "remove" THEN None
                     ELSE LET p == Populate(c.values, ch).value
                          IN  IF p = None THEN DefaultValue ELSE p
    IN  [mode |-> "delta",
         entries |-> [i \in DOMAIN changes |->
            [live |-> changes[i].op # "remove", key |-> changes[i].key,
             sequence |-> IF changes[i].sequence = before(i) THEN ValidNonSequence
                          ELSE changes[i].sequence,
             value |-> value(changes[i])]]]

\* marshal_since: a snapshot without a baseline or without changes.
MarshalSince(c, baseline) ==
    LET changes == SummarizeChanges(c, baseline)
    IN  IF baseline = Invalid \/ changes = <<>> THEN MarshalFull(c)
        ELSE MarshalChanges(c, changes)

\* Marshal::marshal, which the derived states call: the changes not yet merged,
\* or a snapshot.
MarshalCurrent(c) ==
    IF c.changes = <<>> THEN MarshalFull(c) ELSE MarshalChanges(c, c.changes)

\* Unmarshal::unmarshal.  A change's sequence is the last one written before it
\* that is not ValidNonSequence; a live entry is an update.
Unmarshal(body) ==
    LET e == body.entries
        sequence(i) == LET given == {j \in 1 .. i : e[j].sequence # ValidNonSequence}
                       IN  IF given = {} THEN Invalid ELSE e[Max(given)].sequence
    IN  IF body.mode = "full"
        THEN PushInitializeChange(
               [Empty EXCEPT !.full = body.sequence, !.processed = body.sequence,
                             !.values = body.values, !.news = TRUE])
        ELSE [Empty EXCEPT
                !.initialize = FALSE, !.pending = TRUE, !.news = TRUE,
                !.last_modified = ValidNonSequence,
                !.changes = [i \in DOMAIN e |->
                    [op |-> IF e[i].live THEN "update" ELSE "remove",
                     key |-> e[i].key, value |-> e[i].value, sequence |-> sequence(i)]]]

-----------------------------------------------------------------------------
(* The merge of an incoming value into the old one, at a sequence number.  *)

\* apply_change_set.
ApplyChangeSet(c, seq, changes) ==
    [c EXCEPT !.values = ApplyChanges(@, changes),
              !.journal = PushJournal(@, [sequence |-> seq, changes |-> changes])]

\* merge_change_sets: the sets newer than the journal's end, then the current
\* changes as a set of their own.  The end is read once, before the loop.
MergeChangeSets(c, incoming, seq) ==
    LET upTo[n \in 0 .. Len(incoming.journal)] ==
            IF n = 0 THEN c
            ELSE LET set == incoming.journal[n]
                 IN  IF EndSequence(c) < set.sequence
                     THEN ApplyChangeSet(upTo[n - 1], set.sequence, set.changes)
                     ELSE upTo[n - 1]
        merged == upTo[Len(incoming.journal)]
    IN  IF incoming.changes = <<>> THEN merged
        ELSE ApplyChangeSet(merged, seq, incoming.changes)

\* Mutant of HasNewValue: a delta is judged by its first change.
HasNewValueFirst(old, new) ==
    LET after(s) == old.processed = Invalid \/ old.processed < s
    IN  \/ new.changes # <<>> /\ after(Head(new.changes).sequence)
        \/ new.initialize /\ after(new.full)
        \/ EndSequence(old) < EndSequence(new)

\* Whether the incoming value has something the old one has not; a delta is
\* judged by its last change.
HasNewValue(old, new) ==
    LET after(s) == old.processed = Invalid \/ old.processed < s
    IN  \/ new.changes # <<>> /\ after(Last(new.changes).sequence)
        \/ new.initialize /\ after(new.full)
        \/ EndSequence(old) < EndSequence(new)

Accepts(old, new) == new.last_modified # Invalid /\ HasNewValue(old, new)

\* The default instance the states merge into, its change sets cleared.
Cleared == [Empty EXCEPT !.initialize = FALSE]

\* Mutant of Kept: the news of the old value are forgotten.
KeptQuiet(old, seq, inherit) ==
    [Cleared EXCEPT !.last_modified = Min({seq, old.last_modified}),
                    !.values = old.values, !.processed = old.processed,
                    !.journal = old.journal]

\* What is left of the old value when the incoming one is not accepted.
Kept(old, seq, inherit) ==
    [Cleared EXCEPT !.last_modified = Min({seq, old.last_modified}),
                    !.values = old.values, !.processed = old.processed,
                    !.journal = old.journal, !.news = inherit /\ old.news]

\* merge_and_update_sequence.  The incoming value, whose changes the code
\* clears, is not used again; the code's case of one value merged into itself
\* needs two references that Rust does not give out and is left out.
MergeAndUpdateSequence(old, new, seq, inherit) ==
    LET set == [sequence |-> seq, changes |-> new.changes]
        taken == [Cleared EXCEPT !.last_modified = seq, !.news = TRUE,
                                 !.values = new.values, !.processed = new.processed]
    IN  CASE ~Accepts(old, new) -> Kept(old, seq, inherit)
          [] Accepts(old, new) /\ new.initialize ->
               [taken EXCEPT !.journal = PushJournal(<<>>, set)]
          [] Accepts(old, new) /\ ~new.initialize /\ ~new.pending ->
               [taken EXCEPT !.journal = IF new.changes = <<>> THEN new.journal
                                         ELSE PushJournal(old.journal, set)]
          [] OTHER ->
               MergeChangeSets([Kept(old, seq, inherit) EXCEPT !.last_modified = seq,
                                                               !.news = TRUE], new, seq)

\* reset_has_new_network_data.
ResetHasNewNetworkData(c) == [c EXCEPT !.news = FALSE]
=============================================================================
