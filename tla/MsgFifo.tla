------------------------------ MODULE MsgFifo ------------------------------
(***************************************************************************)
(* What a data queue of the user mode IDI interface promises its callers:  *)
(* messages leave in the order in which they were allocated, each with the *)
(* size it was allocated with, and none leaves before it was completed.    *)
(* An allocation may be refused; a refusal changes nothing.  The ring of   *)
(* kernel/dqueue.c (module MsgQueue) implements this specification.        *)
(***************************************************************************)
EXTENDS Naturals, Sequences

CONSTANT Sizes          \* the message sizes callers ask for

VARIABLE fifo           \* oldest first: [size |-> s, incomplete |-> b]

Message == [size : Sizes, incomplete : BOOLEAN]

Init == fifo = <<>>

\* A writer is given room for s bytes at the tail.
Reserve(s) == fifo' = Append(fifo, [size |-> s, incomplete |-> TRUE])

\* The writer of the i-th message hands it over to the readers.
Publish(i) == /\ i \in DOMAIN fifo
              /\ fifo[i].incomplete
              /\ fifo' = [fifo EXCEPT ![i].incomplete = FALSE]

\* The reader has consumed the oldest message.
Consume == /\ fifo # <<>>
           /\ ~ fifo[1].incomplete
           /\ fifo' = Tail(fifo)

Next == \/ \E s \in Sizes : Reserve(s)
        \/ \E i \in DOMAIN fifo : Publish(i)
        \/ Consume

Spec == Init /\ [][Next]_fifo
=============================================================================
