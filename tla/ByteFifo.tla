------------------------------- MODULE ByteFifo -------------------------------
(***************************************************************************)
(* What edt_ring_buffer_t promises to one producer and one consumer: a     *)
(* bounded first-in first-out stream of bytes.  A write takes a non-empty  *)
(* prefix of what it is offered, a read hands out a non-empty prefix of    *)
(* what is queued, each at one instant.  The bytes of the stream are       *)
(* numbered modulo Wrap, so that a lost, repeated or reordered byte shows. *)
(***************************************************************************)
EXTENDS Naturals, Sequences

CONSTANTS Capacity,  \* bytes the buffer holds
          Wrap       \* byte numbers are taken modulo Wrap

VARIABLES queue,     \* the bytes accepted and not yet handed out
          accepted,  \* the number of the next byte to be accepted
          handed     \* what the last completed read handed out

vars == <<queue, accepted, handed>>

Stream(first, n) == [i \in 1..n |-> (first + i - 1) % Wrap]

Init == /\ queue = << >>
        /\ accepted = 0
        /\ handed = << >>

Put == \E n \in 1..(Capacity - Len(queue)) :
          /\ queue' = queue \o Stream(accepted, n)
          /\ accepted' = (accepted + n) % Wrap
          /\ UNCHANGED handed

Take == \E n \in 1..Len(queue) :
           /\ handed' = SubSeq(queue, 1, n)
           /\ queue' = SubSeq(queue, n + 1, Len(queue))
           /\ UNCHANGED accepted

Next == Put \/ Take

Spec == Init /\ [][Next]_vars

===============================================================================
