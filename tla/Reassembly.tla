------------------------------ MODULE Reassembly ------------------------------
(***************************************************************************)
(* The pure decisions of carrier/reassembler.rs on one channel: a staging  *)
(* queue q of frames in arrival order and the reliable sequence number     *)
(* last delivered on the channel.  A frame is a record with the fields     *)
(*   reliable   reliability = DataReliability::Reliable                    *)
(*   relSeq     send_reliable_seq_num                                      *)
(*   numChunks  num_chunks: how many frames, this one included, are left   *)
(*              of the message it is a chunk of                            *)
(* and whatever else the embedding module uses as the payload.             *)
(***************************************************************************)
EXTENDS SeqNum, Sequences

\* Mutant of ChunksReady: the ids of the chunks are not compared.
ChunksReadyAnyOrder(q, n) ==
    /\ Len(q) >= n
    /\ \A i \in 1 .. n : q[i].reliable

\* chunks_ready: the first n staged frames are reliable and consecutive.
ChunksReady(q, n) ==
    /\ Len(q) >= n
    /\ \A i \in 1 .. n : q[i].reliable
    /\ \A i \in 1 .. n - 1 : SeqDist(q[i].relSeq, q[i + 1].relSeq) = 1

\* Mutant of ReliableReady: any id newer than the last one delivered.
ReliableReadyNewer(q, last) ==
    /\ SeqLess(last, Head(q).relSeq)
    /\ Head(q).numChunks > 1 => ChunksReady(q, Head(q).numChunks)

\* The gate for a reliable head: the next id, and all of its chunks staged.
ReliableReady(q, last) ==
    /\ SeqDist(last, Head(q).relSeq) = 1
    /\ Head(q).numChunks > 1 => ChunksReady(q, Head(q).numChunks)

\* Mutant of UnreliableReady: the predecessor may be any delivered or undelivered id.
UnreliableReadyAlways(q, last) == q # << >>

\* The gate for an unreliable head: nothing reliable was delivered yet (the
\* sentinel value), or its reliable predecessor was the last one delivered.
UnreliableReady(q, last) ==
    \/ last = SeqMax
    \/ SeqDist(last, Head(q).relSeq) = 0

\* next_ready returns Some: only the head of the queue is ever looked at.
HeadReady(q, last) ==
    /\ q # << >>
    /\ IF Head(q).reliable THEN ReliableReady(q, last)
                           ELSE UnreliableReady(q, last)

\* How many frames next_ready pops: assemble_chunks for a multi-chunk
\* message, pop_front otherwise.
FramesTaken(q) ==
    IF Head(q).reliable /\ Head(q).numChunks > 1 THEN Head(q).numChunks ELSE 1

\* What next_ready leaves in staging.
StagingAfter(q) == SubSeq(q, FramesTaken(q) + 1, Len(q))

\* received_reliable_seq_num after next_ready: the last frame popped, when
\* the message is reliable.
LastAfter(q, last) ==
    IF Head(q).reliable THEN q[FramesTaken(q)].relSeq ELSE last
===============================================================================
