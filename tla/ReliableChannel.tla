---------------------------- MODULE ReliableChannel ----------------------------
(***************************************************************************)
(* What a carrier channel promises the application about reliable messages *)
(* (DataReliability::Reliable): a queue.  The messages queued on one end   *)
(* come out of the other end in order, each once and whole, in bursts.     *)
(***************************************************************************)
EXTENDS Integers, Sequences

CONSTANT Payloads    \* what a message can be

VARIABLES sent,      \* messages handed to the carrier
          received   \* messages handed to the peer's application

Init == sent = << >> /\ received = << >>

SendMessage ==
    /\ \E p \in Payloads : sent' = Append(sent, p)
    /\ UNCHANGED received

\* One turn of the peer's driver forwards whatever became deliverable.
Deliver ==
    /\ \E n \in Len(received) + 1 .. Len(sent) : received' = SubSeq(sent, 1, n)
    /\ UNCHANGED sent

Next == SendMessage \/ Deliver

Spec == Init /\ [][Next]_<<sent, received>>
===============================================================================
