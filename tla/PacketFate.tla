----------------------------- MODULE PacketFate -----------------------------
(***************************************************************************)
(* What a worker owes the kernel queue and the trace: packets arrive one   *)
(* by one, every verdict goes to a packet that still waits for one, and    *)
(* packets are lost only to an armed loss, never more than it allows, and  *)
(* only as they arrive.  Nothing is said about the order of acceptance:    *)
(* reordering is a feature.                                                *)
(***************************************************************************)
EXTENDS Integers, Sequences

CONSTANT Losses      \* the losses a handover may arm

VARIABLES
    arrived,         \* number of packets so far; they are 1 .. arrived
    sent,            \* verdicts in order
    loss             \* packets the armed loss may still take

vars == <<arrived, sent, loss>>

Waiting == (1 .. arrived) \ {sent[i].id : i \in DOMAIN sent}

Init == arrived = 0 /\ sent = <<>> /\ loss = 0

Arrive ==
    /\ arrived' = arrived + 1
    /\ UNCHANGED <<sent, loss>>

ArmLoss ==
    /\ loss' \in Losses
    /\ UNCHANGED <<arrived, sent>>

Deliver ==
    /\ \E id \in Waiting : sent' = Append(sent, [id |-> id, why |-> "pass"])
    /\ UNCHANGED <<arrived, loss>>

Suppress ==
    /\ arrived \in Waiting
    /\ sent' = Append(sent, [id |-> arrived, why |-> "dup"])
    /\ UNCHANGED <<arrived, loss>>

Lose ==
    /\ loss > 0
    /\ arrived \in Waiting
    /\ sent' = Append(sent, [id |-> arrived, why |-> "loss"])
    /\ loss' = loss - 1
    /\ UNCHANGED arrived

Next == Arrive \/ ArmLoss \/ Deliver \/ Suppress \/ Lose

Spec == Init /\ [][Next]_vars

=============================================================================
