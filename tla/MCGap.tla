-------------------------------- MODULE MCGap --------------------------------
(* Instances of Gap for TLC. *)
EXTENDS Gap

PlainHeaders == {[tcp |-> TRUE, ack |-> 1, pure |-> FALSE, win |-> 2]}

=============================================================================
