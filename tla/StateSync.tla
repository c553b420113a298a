------------------------------ MODULE StateSync ------------------------------
(***************************************************************************)
(* A hub that owns a replicated state, a client that is sent filtered      *)
(* deltas of it and a peer hub that is sent it whole.                      *)
(*                                                                         *)
(* The library leaves the loop to the application, which is modelled from  *)
(* what the library offers it: the owner edits a copy that is merged at    *)
(* the next sequence number; a delta is cut against group_baselines, the   *)
(* sequence number per group of the last message with that group the       *)
(* client is known to have merged; messages to the client come in order    *)
(* but may be lost (is_unreliable); the client and the peer merge at the   *)
(* sequence number of the message.                                         *)
(***************************************************************************)
EXTENDS ReplicatedState, Sequences

CONSTANTS FieldKinds,   \* kinds of the compressed field of a derived state
          FixedKinds,   \* those of a fixed state
          Samples,      \* values it is set to
          Client,       \* the client that is modelled, one of Clients
          MaxSeq, MaxEdits, MaxNet,
          PeerDeltas    \* the peer is sent deltas, too

ASSUME SyncAssumption ==
    /\ FieldKinds \cup FixedKinds \subseteq Kinds /\ Samples \subseteq Nat /\ Client \in Clients
    /\ MaxSeq \in Nat /\ MaxEdits \in Nat /\ MaxNet \in Nat
    /\ PeerDeltas \in BOOLEAN

VARIABLES kind, fixed,  \* the kind of state
          audience,     \* who is sent it; sending does not change the hub, so a
                        \* behaviour has one of the receivers.  The three never change.
          hub,          \* the merged state
          work,         \* the owner's copy
          edits,
          seq,          \* sequence number of the last merge
          committed,    \* history: what the state said after each merge
          asked,        \* history: the value the compressed field was last set to
          net,          \* messages on their way to the client
          acked,        \* per group: the last message with it that the client merged
          client,
          unseen,       \* history: the client's fields changed since it took its news
          wire,         \* message on its way to the peer
          peer

vars == <<kind, fixed, audience, hub, work, edits, seq, committed, asked, net, acked, client,
          unseen, wire, peer>>
config == <<kind, fixed, audience>>
hubVars == <<hub, work, edits, seq, committed, asked>>
clientVars == <<net, acked, client, unseen>>
peerVars == <<wire, peer>>

\* What a merged state says: its values, what a receiver decodes of them, who may
\* see what, the value asked for.
Saying(state, k, value) ==
    [values |-> Reading(state, k), asked |-> value,
     decoded |-> [s \in StateSlots(k) |->
                    IF s \in Plain \/ state.fields[s].value = None THEN Reading(state, k)[s]
                    ELSE OnTheWire(k, s, state.fields[s].value)],
     visible |-> [c \in Clients |-> {g \in Groups : ShouldSendToClient(state, c, g)}]]

Init == /\ \/ fixed = FALSE /\ kind \in FieldKinds
           \/ fixed = TRUE /\ kind \in FixedKinds
        /\ audience \in {"client", "peer"}
        /\ hub = NewState(kind) /\ work = NewState(kind)
        /\ edits = 0 /\ seq = 0 /\ asked = 0
        /\ committed = [s \in {0} |-> Saying(hub, kind, 0)]
        /\ net = <<>> /\ acked = [g \in Groups |-> Invalid]
        /\ client = SetInitialNews(NewState(kind)) /\ unseen = FALSE
        /\ wire = <<>> /\ peer = NewState(kind)

-----------------------------------------------------------------------------
(* The owner.                                                              *)

Edit(state) == /\ edits < MaxEdits /\ seq < MaxSeq
               /\ state # work
               /\ work' = state /\ edits' = edits + 1
               /\ UNCHANGED <<config, hub, seq, committed, clientVars, peerVars>>

SetCompressedValue == \E v \in Samples : Edit(SetCompressed(work, kind, v)) /\ asked' = v

\* A plain field is set, cleared, or declared to have its default.
SetPlain ==
    \E s \in Plain :
        /\ \/ \E v \in {0, 1} : Edit([work EXCEPT !.fields[s] = SetValue(@, v)])
           \/ Edit([work EXCEPT !.fields[s] = ClearValue(@)])
           \/ Edit([work EXCEPT !.fields[s] = SetCurrentValueAsDefault(@, 0)])
        /\ UNCHANGED asked

\* The owner changes who may see group 1.
ChangeWhitelist ==
    /\ \/ \E c \in Clients : \/ Edit(AddClient(work, c, 1, fixed))
                             \/ Edit(RemoveClient(work, c, 1))
                             \/ Edit(SetOwningPlayer(work, c, fixed))
       \/ Edit(ClearWhitelist(work, 1))
    /\ UNCHANGED asked

\* The copy is merged and a new one is taken.
Commit == /\ work # hub /\ seq < MaxSeq
          /\ seq' = seq + 1
          /\ hub' = MergeState(hub, work, kind, seq + 1, TRUE)
          /\ work' = hub'
          /\ committed' = [s \in 0 .. seq + 1 |->
                             IF s = seq + 1 THEN Saying(hub', kind, asked) ELSE committed[s]]
          /\ UNCHANGED <<config, edits, asked, clientVars, peerVars>>

-----------------------------------------------------------------------------
(* The client.                                                             *)

\* A fragment that is dirty for the client is marshalled for it; one without
\* contents is left out of the bundle.
Send == /\ audience = "client" /\ Len(net) < MaxNet
        /\ \E g \in Groups : IsFragmentDirty(hub, acked[g])
        /\ LET contents == MarshalContents(hub, kind, Client, acked)
               shown == {g \in Groups : ShouldSendToClient(hub, Client, g)}
           IN  /\ DOMAIN contents # {}
               /\ net' = Append(net, [seq |-> seq, contents |-> contents, groups |-> shown])
        /\ UNCHANGED <<config, hubVars, acked, client, unseen, peerVars>>

Lose == /\ net # <<>>
        /\ net' = Tail(net)
        /\ UNCHANGED <<config, hubVars, acked, client, unseen, peerVars>>

\* The client decodes a message into a new state, merges it and acknowledges it.
Deliver ==
    /\ net # <<>>
    /\ LET m == Head(net)
       IN  /\ client' = MergeState(client, UnmarshalContents(kind, m.contents), kind, m.seq, TRUE)
           /\ acked' = [g \in Groups |-> IF g \in m.groups THEN m.seq ELSE acked[g]]
           /\ unseen' = (unseen \/ Reading(client', kind) # Reading(client, kind))
    /\ net' = Tail(net)
    /\ UNCHANGED <<config, hubVars, peerVars>>

\* The client's owner has consumed the news.
TakeNews == /\ audience = "client" /\ client.news
            /\ client' = ResetState(client)
            /\ unseen' = FALSE
            /\ UNCHANGED <<config, hubVars, net, acked, peerVars>>

-----------------------------------------------------------------------------
(* The peer hub.                                                           *)

\* BaselineableFragment::encode, of a state with contents to send.
SendPeer ==
    /\ audience = "peer" /\ wire = <<>> /\ seq > 0
    /\ \E baseline \in {Invalid} \cup (IF PeerDeltas /\ peer.merged
                                       THEN {peer.sequence} ELSE {}) :
         LET m == FullMarshal(hub, kind, fixed, baseline)
         IN  /\ DOMAIN m.contents # {}
             /\ wire' = <<[seq |-> seq, body |-> m]>>
    /\ UNCHANGED <<config, hubVars, clientVars, peer>>

DeliverPeer ==
    /\ wire # <<>>
    /\ peer' = MergeState(peer, FullUnmarshal(kind, fixed, wire[1].body), kind,
                          wire[1].seq, TRUE)
    /\ wire' = <<>>
    /\ UNCHANGED <<config, hubVars, clientVars>>

Next == \/ SetCompressedValue \/ SetPlain \/ ChangeWhitelist \/ Commit
        \/ Send \/ Lose \/ Deliver \/ TakeNews
        \/ SendPeer \/ DeliverPeer

Spec == Init /\ [][Next]_vars

-----------------------------------------------------------------------------
\* A slot is well formed; V are its values.
IsSlot(f, V) == /\ f.value \in V \cup {None} /\ f.default \in V \cup {None}
                /\ f.last_modified \in Invalid .. MaxSeq /\ f.news \in BOOLEAN

IsState(state) ==
    /\ \A s \in StateSlots(kind) : IsSlot(state.fields[s], Int)
    /\ \A g \in Groups : /\ IsSlot(state.lists[g], [Clients -> Nat])
                         /\ state.lists[g].value # None
                         /\ IsValid(state.lists[g].last_modified)
                         /\ IsSlot(state.bits[g], SUBSET StateSlots(kind))
    /\ {state.sequence, state.last_modified} \subseteq Invalid .. MaxSeq
    /\ {state.merged, state.news, state.detected} \subseteq BOOLEAN

\* Types.  A list or a stamp that a merge lost would show here: a whitelist is
\* always present and always has a stamp.
TypeOK == /\ IsState(hub) /\ IsState(work) /\ IsState(client) /\ IsState(peer)
          /\ seq \in 0 .. MaxSeq /\ edits \in 0 .. MaxEdits
          /\ DOMAIN committed = 0 .. seq
          /\ \A g \in Groups : acked[g] \in Invalid .. seq
          /\ Len(net) <= MaxNet /\ Len(wire) <= 1

\* The client has exactly what the hub had when the message it acknowledged was
\* cut, group by group, whatever was lost, revoked or granted in between: the
\* stamps, baselines and masks of the delta agree.  A slot with a declared
\* default is excepted, see DeclaredInSync.
ClientInSync ==
    \A g \in Groups :
        IsValid(acked[g]) =>
            \A s \in GroupSlots(kind, g) \ Declared :
                Reading(client, kind)[s] = committed[acked[g]].decoded[s]

\* The same of the slots with a declared default (README.md: "Fields marshal only
\* when dirty relative to a baseline"; "default bitsets let receivers restore"
\* what was suppressed).
DeclaredInSync ==
    \A g \in Groups :
        IsValid(acked[g]) =>
            \A s \in GroupSlots(kind, g) \cap Declared :
                Reading(client, kind)[s] = committed[acked[g]].values[s]

\* How far a reading may be off: a quantum of two units, and a timer has lost
\* its whole rollovers.
ReadsAs(value, reading) ==
    IF kind = "timer" THEN reading = value % Rollover
    ELSE IF kind = "counter" THEN reading = value
    ELSE reading - value \in -2 .. 2

\* What the hub and the client read out of the slots of the compressed field is
\* what the owner put in, however the slots were rebased, and whichever of them
\* the client was sent.
ReadsBack ==
    /\ ReadsAs(committed[seq].asked, ReadField(CompressedPart(hub, kind), kind))
    /\ IsValid(acked[0]) =>
          ReadsAs(committed[acked[0]].asked, ReadField(CompressedPart(client, kind), kind))

\* Nothing of a group reached the client in a message cut while the group's
\* whitelist kept it out.
NotDisclosed ==
    \A g \in Groups : \A s \in GroupSlots(kind, g) :
        client.fields[s].last_modified > 0 /\ client.fields[s].value # None
        /\ s \notin Declared
            => g \in committed[client.fields[s].last_modified].visible[Client]

\* A merge that changed what a group says made the fragment dirty for every
\* older baseline, and unless it changed whitelists only, the group, too.
ChangesAreDirty ==
    \A b \in 0 .. seq :
        LET before == committed[b] now == committed[seq]
        IN  /\ before.values # now.values \/ before.visible # now.visible
                 => IsFragmentDirty(hub, b)
            /\ \A g \in Groups :
                 (\E s \in GroupSlots(kind, g) : before.values[s] # now.values[s])
                     => DirtySlots(hub, kind, g, b) # {}

\* While the client's fields changed since it last took its news, there are news.
NewsKept == unseen => client.news

\* A peer that has merged the whole state at a sequence number says what the hub
\* said then: the values, the suppressed defaults, and who may see which group.
PeerMirrors ==
    peer.merged =>
        LET said == committed[peer.sequence]
        IN  /\ \A s \in StateSlots(kind) :
                 Reading(peer, kind)[s] = said.decoded[s]
            /\ \A c \in Clients : \A g \in Groups :
                 ShouldSendToClient(peer, c, g) = (g \in said.visible[c])
=============================================================================
