----------------------------- MODULE MCNfqueue ------------------------------
(* The instance of Nfqueue that TLC checks. *)
EXTENDS Nfqueue

=============================================================================
