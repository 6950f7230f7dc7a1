------------------------------- MODULE Event --------------------------------
(***************************************************************************)
(* The trace parser, src/src/event.c: what each kind of row expands into,  *)
(* in the order of the scheduler_add_event calls.  That order matters: it  *)
(* is the order in which events of the same millisecond run.               *)
(*                                                                         *)
(* A row is the record of its fields; an event is its time, its handler,   *)
(* its queue and the argument the handler passes on.  The windows of the   *)
(* controller are WindowControl's; here SOL_INIT_SCHED carries the periods *)
(* of the sampler and SOL_HO its phases.                                   *)
(***************************************************************************)
EXTENDS Integers, Sequences

CONSTANT LossExtra   \* 10: what parse_ho adds to reord_cnt to get the loss

ASSUME EventAssumption == LossExtra \in Nat

Ev(time, act, q, arg) == [time |-> time, act |-> act, q |-> q, arg |-> arg]

\* A conditional scheduler_add_event.
When(condition, event) == IF condition THEN <<event>> ELSE <<>>

parse_cmd(r) == <<Ev(r.time, "command", 0, 0)>>

start_without_gap(r) == r.time
start_time(r) == r.time + r.gap

\* The link changes when the gap begins.
mark_when_resumed(r) == start_time(r)
mark_time(r) == r.time

parse_ho(r) ==
    LET drop_cnt == IF r.cnt > 0 THEN r.cnt + LossExtra ELSE r.loss
    IN  <<Ev(r.time, "stop_nfqueue", r.q, 0),
          Ev(start_time(r), "start_nfqueue", r.q, 0),
          Ev(mark_time(r), "set_mark", r.q, r.mark)>>
        \o When(drop_cnt > 0, Ev(r.time, "set_drop", r.q, drop_cnt))
        \o When(r.cnt > 0, Ev(r.time, "set_reorder", r.q, r.cnt))

teardown_at_start(r) == r.time
teardown_time(r) == r.end

parse_init(r) ==
    <<Ev(r.time, "init_nfqueue", r.q, 0),
      Ev(teardown_time(r), "teardown_nfqueue", r.q, 0),
      Ev(r.time, "start_nfqueue", r.q, 0)>>
    \o When(r.mark > 0, Ev(r.time, "set_mark", r.q, r.mark))

parse_handle_dup(r) == <<Ev(r.time, "set_dedup", r.q, r.enable)>>

parse_init_sched(r) ==
    <<Ev(r.time, "init_tcp_sched", r.q,
         [fire |-> r.fire, sample_interval |-> r.sample_interval, rtt |-> r.rtt])>>

\* The phases: update and clamp at once; suppression and burst estimation
\* after freeze_ms; adaptation after freeze_ms + burst_duration.
burst_end_from_start(r) == r.time + r.burst_duration
burst_end(r) == r.time + r.freeze_ms + r.burst_duration

parse_handle_solution(r) ==
    LET thawed == r.time + r.freeze_ms
        dedup  == r.enable_dedup > 0
        burst  == r.burst_duration > 0
    IN  <<Ev(r.time, "sol_update", r.q, r.mark)>>
        \o When(r.enable_freeze > 0, Ev(r.time, "set_rwnd", r.q, r.mark))
        \o When(dedup, Ev(thawed, "set_dedup", r.q, 1))
        \o When(dedup, Ev(thawed + r.smooth_ms, "set_dedup", r.q, 0))
        \o When(burst, Ev(thawed, "set_burst", r.q, 1))
        \o When(burst, Ev(burst_end(r), "set_burst", r.q, 0))
        \o When(r.enable_adapt > 0, Ev(burst_end(r), "set_adapt", r.q, 1))

\* A row of a kind the parser does not know adds nothing.
parse_event(r) ==
    CASE r.ev = "INIT"           -> parse_init(r)
      [] r.ev = "CMD"            -> parse_cmd(r)
      [] r.ev = "HO"             -> parse_ho(r)
      [] r.ev = "SOL_HANDLEDUP"  -> parse_handle_dup(r)
      [] r.ev = "SOL_INIT_SCHED" -> parse_init_sched(r)
      [] r.ev = "SOL_HO"         -> parse_handle_solution(r)
      [] OTHER                   -> <<>>

=============================================================================
