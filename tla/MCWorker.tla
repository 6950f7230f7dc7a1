------------------------------ MODULE MCWorker ------------------------------
(* Instances of Worker for TLC. *)
EXTENDS Worker

\* One kind of packet, for the runs about loss, reordering and marks.
PlainHeaders == {[tcp |-> TRUE, ack |-> 1, pure |-> FALSE, win |-> 2]}

\* Acknowledgements with and without payload, and a packet that is not TCP,
\* for the runs about duplicate suppression and the window.
AckHeaders ==
    {[tcp |-> TRUE, ack |-> a, pure |-> p, win |-> 2] : a \in {1, 2}, p \in BOOLEAN}
    \cup {[tcp |-> FALSE, ack |-> 1, pure |-> FALSE, win |-> 2]}

=============================================================================
