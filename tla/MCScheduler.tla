---------------------------- MODULE MCScheduler -----------------------------
(* Instances of Scheduler for TLC. *)
EXTENDS Scheduler

\* A handler that leaves the schedule alone, one that arms the sampler with
\* period 2 (at 1, in the past of later events), and one that halves it.
Effects ==
    {[kind |-> "plain", fire |-> 0, interval |-> 0],
     [kind |-> "arm", fire |-> 1, interval |-> 2],
     [kind |-> "period", fire |-> 0, interval |-> 1]}

=============================================================================
