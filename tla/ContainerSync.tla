---------------------------- MODULE ContainerSync ----------------------------
(***************************************************************************)
(* A hub and a client that share one ReplicatedContainer.  The hub takes   *)
(* in its owner's edits and the stamped changes and snapshots of an        *)
(* origin, merges each at the next sequence number and sends the client    *)
(* what is new since a baseline; the client merges what it is sent.        *)
(*                                                                         *)
(* The library leaves the loop to the application: the stream is the       *)
(* carrier's reliable channel (in order, nothing lost), the baseline is    *)
(* the last sequence number sent or the last one known to be merged, or    *)
(* none, and the origin stamps a change with the number of its merge.      *)
(***************************************************************************)
EXTENDS ReplicatedContainer

CONSTANTS MaxSeq,     \* merges of the hub
          MaxEdits,   \* local edits
          MaxNet      \* messages on their way to the client

ASSUME SyncAssumption ==
    MaxSeq \in Nat /\ MaxEdits \in Nat /\ MaxNet \in Nat \ {0}

VARIABLES hub,        \* the hub's merged container
          work,       \* the owner's copy of it, edited and merged back
          edits,      \* edits made
          seq,        \* the sequence number of the last merge
          committed,  \* history: the values after each merge
          net,        \* messages on their way
          sent,       \* the sequence number of the last message sent
          client,     \* the client's merged container
          received,   \* the sequence number of the last message merged there
          missed,     \* history: the client has been passed over, see Deliver
          unseen      \* history: the client's values changed since its owner took its news

vars == <<hub, work, edits, seq, committed, net, sent, client, received, missed, unseen>>
hubVars == <<hub, work, edits, seq, committed>>
clientVars == <<client, received, missed, unseen>>

Init == /\ hub = Empty /\ work = Empty /\ edits = 0
        /\ seq = 0 /\ committed = [s \in {0} |-> NoValues]
        /\ net = <<>> /\ sent = Invalid
        /\ client = Empty /\ received = 0
        /\ missed = FALSE /\ unseen = FALSE

-----------------------------------------------------------------------------
\* The owner edits its copy through push_add, push_update or push_remove.
Edit == /\ edits < MaxEdits /\ seq < MaxSeq
        /\ edits' = edits + 1
        /\ \E k \in Keys :
             \/ \E v \in Values :
                  work' = Push(work, IF k \in DOMAIN work.values THEN "update" ELSE "add", k, v)
             \/ work' = Push(work, "remove", k, None)
        /\ UNCHANGED <<hub, seq, committed, net, sent, clientVars>>

\* The owner declares the value of a copy it has not edited the default.
MarkDefault == /\ work = hub /\ edits < MaxEdits /\ seq < MaxSeq
               /\ work' = SetCurrentValueAsDefault(work)
               /\ edits' = edits + 1
               /\ UNCHANGED <<hub, seq, committed, net, sent, clientVars>>

Merge(new) == /\ seq < MaxSeq
              /\ seq' = seq + 1
              /\ hub' = MergeAndUpdateSequence(hub, new, seq + 1, TRUE)
              /\ work' = hub'
              /\ committed' = [s \in 0 .. seq + 1 |->
                                 IF s = seq + 1 THEN hub'.values ELSE committed[s]]
              /\ UNCHANGED <<edits, net, sent, clientVars>>

\* The copy is merged and a new one is taken.
Commit == work # hub /\ Merge(work)

\* What the origin sends in one delta: a change, or an update and a removal.
Batches ==
    LET stamped(op, k, v) == [op |-> op, key |-> k, value |-> v, sequence |-> seq + 1]
    IN  {<<stamped("update", k, v)>> : k \in Keys, v \in Values} \cup
        {<<stamped("remove", k, None)>> : k \in Keys} \cup
        {<<stamped("update", p[1], v), stamped("remove", p[2], None)>> :
            p \in {q \in Keys \X Keys : q[1] # q[2]}, v \in Values}

\* Changes or a snapshot of the origin are decoded and merged.
FromOrigin ==
    /\ work = hub
    /\ \/ \E changes \in Batches : Merge(Unmarshal(MarshalChanges(Empty, changes)))
       \/ \E v \in Values :
            Merge(Unmarshal(MarshalFull([Empty EXCEPT !.values = [k \in Keys |-> v],
                                                      !.last_modified = seq + 1])))

\* The journal has the changes of every merge after a baseline that changed
\* something.
Journaled(baseline) ==
    \A s \in baseline + 1 .. seq :
        \/ committed[s] = committed[s - 1]
        \/ \E i \in DOMAIN hub.journal :
              hub.journal[i].sequence = s /\ hub.journal[i].changes # <<>>

\* The hub sends what is newer than a baseline, as the fixed states do with
\* marshal_since; the derived states call Marshal::marshal.
Send == /\ Len(net) < MaxNet
        /\ \E baseline \in {received, sent} :
             /\ IsDirty(hub, baseline)
             /\ \E body \in {MarshalSince(hub, baseline), MarshalCurrent(hub)} :
                  net' = Append(net, [seq |-> seq, body |-> body,
                                      gap |-> /\ body.mode = "delta"
                                              /\ ~Journaled(baseline)])
        /\ sent' = seq
        /\ UNCHANGED <<hubVars, clientVars>>

\* The client decodes a message and merges it.  It is passed over by a delta cut
\* off by the journal, and by one whose last change has no sequence number once
\* it has merged a snapshot; a snapshot makes up for both.
Deliver ==
    /\ net # <<>>
    /\ LET m == Head(net)
           new == Unmarshal(m.body)
       IN  /\ client' = MergeAndUpdateSequence(client, new, m.seq, TRUE)
           /\ received' = m.seq
           /\ unseen' = (unseen \/ client'.values # client.values)
           /\ missed' = /\ m.body.mode = "delta"
                        /\ \/ missed \/ m.gap
                           \/ ~Accepts(client, new) /\ Last(new.changes).sequence = Invalid
    /\ net' = Tail(net)
    /\ UNCHANGED <<hubVars, sent>>

\* The client's owner takes its news.
TakeNews == /\ client.news
            /\ client' = ResetHasNewNetworkData(client)
            /\ unseen' = FALSE
            /\ UNCHANGED <<hubVars, net, sent, received, missed>>

Next == Edit \/ MarkDefault \/ Commit \/ FromOrigin \/ Send \/ Deliver \/ TakeNews

Spec == Init /\ [][Next]_vars

\* The keys are interchangeable (the values are not: one is the default).
Symmetry == Permutations(Keys)

-----------------------------------------------------------------------------
SeqRange == Invalid .. MaxSeq

\* A well-formed container: its journal is bounded and ordered by sequence number.
IsContainer(c) ==
    /\ c.last_modified \in SeqRange /\ c.full \in SeqRange /\ c.processed \in SeqRange
    /\ c.values \in Maps
    /\ \A i \in DOMAIN c.changes : c.changes[i] \in Change(SeqRange)
    /\ Len(c.journal) <= JournalSize
    /\ \A i \in DOMAIN c.journal :
         /\ c.journal[i].sequence \in 1 .. MaxSeq
         /\ \A j \in DOMAIN c.journal[i].changes : c.journal[i].changes[j] \in Change(SeqRange)
         /\ i > 1 => c.journal[i - 1].sequence <= c.journal[i].sequence
    /\ {c.initialize, c.pending, c.default, c.news} \subseteq BOOLEAN

\* Types, with the limit that push_journal keeps and the order of the sequence
\* numbers of the merges that push to it.
TypeOK == /\ IsContainer(hub) /\ IsContainer(work) /\ IsContainer(client)
          /\ edits \in 0 .. MaxEdits /\ seq \in 0 .. MaxSeq
          /\ committed \in [0 .. seq -> Maps]
          /\ Len(net) <= MaxNet
          /\ sent \in Invalid .. seq /\ received \in 0 .. seq
          /\ missed \in BOOLEAN /\ unseen \in BOOLEAN

\* What summarize_changes and marshal_since give for a baseline that the journal
\* still reaches, decoded and applied to the values merged at that baseline,
\* yields the values of now.  Key-only changes take their value from now, so a
\* key that is edited, removed and added again goes through values it never had.
\* And is_dirty never calls a container clean that the client still has to hear of:
\* when the hub is clean for what it sent and nothing is on its way, the client
\* has the hub's values.
DeltaComplete ==
    /\ (net = <<>> /\ ~IsDirty(hub, sent) /\ ~missed) => client.values = hub.values
    /\ \A b \in {s \in 0 .. seq : Journaled(s)} :
         LET body == MarshalSince(hub, b)
         IN  body.mode = "delta" =>
               ApplyChanges(committed[b], Unmarshal(body).changes) = hub.values

\* merge_and_update_sequence leaves the client with the values the hub had when
\* it sent the last message merged, also where deltas overlap because the
\* baseline lags and where the sequence test rejects one, unless the client was
\* passed over (see Deliver).
InSync == ~missed => client.values = committed[received]

\* has_new_network_data stays set while the owner has not taken the news of a
\* change, whatever is merged meanwhile without being accepted.
NewsKept == unseen => client.news
=============================================================================
