-------------------------- MODULE MCWindowControl ---------------------------
(* Instances of WindowControl for TLC. *)
EXTENDS WindowControl

\* Link 1 is slow, link 2 is fast.
LinkRtt == [l \in Links |-> IF l = 1 THEN 4 ELSE 2]

=============================================================================
