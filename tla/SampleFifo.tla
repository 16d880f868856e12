----------------------------- MODULE SampleFifo -----------------------------
(***************************************************************************)
(* What a circular buffer of samples promises its one producer and its one *)
(* consumer: a queue of at most Capacity samples, which come out in the    *)
(* order in which they went in, each once, as they were put in.            *)
(***************************************************************************)
EXTENDS Naturals, Sequences

CONSTANTS Item, Capacity

VARIABLE queue

Init == queue = <<>>

\* One more sample, the last of queue'.
Put ==
    /\ Len(queue) < Capacity
    /\ Len(queue') > 0
    /\ LET x == queue'[Len(queue')]
       IN  x \in Item /\ queue' = Append(queue, x)

Get == queue # <<>> /\ queue' = Tail(queue)

\* The device is opened anew.
Clear == queue' = <<>>

Next == Put \/ Get \/ Clear

Spec == Init /\ [][Next]_queue
=============================================================================
