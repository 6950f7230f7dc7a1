----------------------------- MODULE Scheduler ------------------------------
(***************************************************************************)
(* The event loop, src/src/scheduler.c: the parser appends events, qsort   *)
(* orders them, and scheduler_run executes them one after another on one   *)
(* thread, merged with the periodic sampler of the window controller       *)
(* (tcp_schedule), whose next due time is fire + sample_interval.          *)
(*                                                                         *)
(* A handler is what it does to the schedule: nothing ("plain"), arm the   *)
(* sampler (action_init_tcp_sched), or change its period (action_set_burst *)
(* and action_set_adapt).  Time may pass at every step: a handler may      *)
(* block, as CMD does, and usleep oversleeps.                              *)
(***************************************************************************)
EXTENDS Integers, Sequences, FiniteSets

CONSTANTS
    SCHEDULER_MAX_EVENT,
    MaxAdds,         \* bound: scheduler_add_event calls of the parser
    MaxTime,         \* bound: the clock
    Times,           \* times of events, in ms from the start
    Handlers,        \* effects on the schedule
    NoFire           \* 0xFFFFFFFF, the sampler's fire time before it is armed

ASSUME SchedulerAssumption ==
    /\ SCHEDULER_MAX_EVENT \in Nat /\ MaxAdds \in Nat /\ MaxTime \in Nat
    /\ NoFire \in Nat
    /\ Times \subseteq 0 .. MaxTime
    /\ Handlers \subseteq [kind : {"plain", "arm", "period"}, fire : Nat, interval : Nat]

VARIABLES
    phase,           \* "parse", "pick", "wait" or "done"
    events,          \* scheduler_ctx.events[0 .. event_count - 1]
    i,               \* scheduler_run's index: events before it were picked
    fire,            \* tcp_ctx.fire
    sample_interval, \* tcp_ctx.sample_interval
    cur,             \* what was picked: its due time and its event, or 0 for a sample
    now,             \* scheduler_get_time_ms() - started_at
    adds,            \* scheduler_add_event calls so far
    ran              \* ghost: executed events, in order

tcp_vars == <<fire, sample_interval>>
vars == <<phase, events, i, tcp_vars, cur, now, adds, ran>>

Event == [time : Times, idx : Nat, h : Handlers]

\* scheduler_compare_event(a, b) < 0: time first, then the order of arrival.
compare_time_only(a, b) == a.time <= b.time
scheduler_compare_event(a, b) == a.time < b.time \/ (a.time = b.time /\ a.idx < b.idx)

\* The sampler's next due time, get_tcp_scheduler_fire.
next_sample == fire + sample_interval

Init ==
    /\ phase = "parse"
    /\ events = <<>> /\ i = 0
    /\ fire = NoFire /\ sample_interval = 0
    /\ cur = [due |-> 0, ev |-> 0]
    /\ now = 0 /\ adds = 0
    /\ ran = <<>>

-----------------------------------------------------------------------------
\* No room for one more element of the events array.
table_overfull == Len(events) > SCHEDULER_MAX_EVENT
table_full == Len(events) >= SCHEDULER_MAX_EVENT

\* The parsers ignore the result of scheduler_add_event: past the limit the
\* event is gone.
scheduler_add_event(time, h) ==
    /\ phase = "parse"
    /\ adds < MaxAdds /\ adds' = adds + 1
    /\ events' = IF table_full THEN events
                 ELSE Append(events, [time |-> time, idx |-> Len(events), h |-> h])
    /\ UNCHANGED <<phase, i, tcp_vars, cur, now, ran>>

\* qsort leaves a permutation in which no later event compares smaller.
qsort(evs) ==
    {p \in [1 .. Len(evs) -> 1 .. Len(evs)] :
        \A a, b \in 1 .. Len(evs) :
            /\ p[a] = p[b] => a = b
            /\ a < b => scheduler_compare_event(evs[p[a]], evs[p[b]])}

scheduler_run ==
    /\ phase = "parse"
    /\ IF events = <<>>
         THEN phase' = "done" /\ UNCHANGED events
         ELSE /\ phase' = "pick"
              /\ \E p \in qsort(events) :
                    events' = [a \in 1 .. Len(events) |-> events[p[a]]]
    /\ UNCHANGED <<i, tcp_vars, cur, now, adds, ran>>

\* The loop's condition, and what its head compares and advances.
no_more_events_but_one == i >= Len(events) - 1
no_more_events == i >= Len(events)
event_always_first(time) == TRUE
event_first(time) == time < next_sample
fire_not_advanced == fire
fire_advanced == next_sample

\* The head of the loop: an event that is due before the next sample, or the
\* sample, whose fire time advances before it runs.
pick_event ==
    /\ phase = "pick"
    /\ ~no_more_events
    /\ event_first(events[i + 1].time)
    /\ cur' = [due |-> events[i + 1].time, ev |-> i + 1]
    /\ i' = i + 1
    /\ phase' = "wait"
    /\ UNCHANGED <<events, tcp_vars, now, adds, ran>>

pick_sample ==
    /\ phase = "pick"
    /\ ~no_more_events
    /\ ~event_first(events[i + 1].time)
    /\ cur' = [due |-> next_sample, ev |-> 0]
    /\ fire' = fire_advanced
    /\ phase' = "wait"
    /\ UNCHANGED <<events, i, sample_interval, now, adds, ran>>

\* The wait loop, and everything else that takes time.
tick ==
    /\ phase \in {"pick", "wait"}
    /\ now < MaxTime
    /\ now' = now + 1
    /\ UNCHANGED <<phase, events, i, tcp_vars, cur, adds, ran>>

\* event_handler(data) for an event,
call_event ==
    LET e == events[cur.ev]
    IN
    /\ phase = "wait"
    /\ cur.ev # 0
    /\ now >= cur.due
    /\ ran' = Append(ran, e)
    /\ fire' = IF e.h.kind = "arm" THEN e.h.fire ELSE fire
    /\ sample_interval' = IF e.h.kind = "plain" THEN sample_interval ELSE e.h.interval
    /\ phase' = "pick"
    /\ UNCHANGED <<events, i, cur, now, adds>>

\* and for the sampler: tcp_schedule touches the worker only.
call_sample ==
    /\ phase = "wait"
    /\ cur.ev = 0
    /\ now >= cur.due
    /\ phase' = "pick"
    /\ UNCHANGED <<events, i, tcp_vars, cur, now, adds, ran>>

scheduler_ends ==
    /\ phase = "pick"
    /\ no_more_events
    /\ phase' = "done"
    /\ UNCHANGED <<events, i, tcp_vars, cur, now, adds, ran>>

-----------------------------------------------------------------------------
Parse == \E time \in Times, h \in Handlers : scheduler_add_event(time, h)

Loop == pick_event \/ pick_sample \/ call_event \/ call_sample \/ scheduler_ends

Next == Parse \/ scheduler_run \/ Loop \/ tick

Spec == Init /\ [][Next]_vars

\* main always calls scheduler_run, its thread is scheduled, and the clock runs.
FairSpec == Spec /\ WF_vars(scheduler_run) /\ WF_vars(Loop) /\ WF_vars(tick)

-----------------------------------------------------------------------------
(* Properties. *)

\* The events array, the loop's index and the schedule are well typed.
TypeOK ==
    /\ phase \in {"parse", "pick", "wait", "done"}
    /\ events \in Seq(Event) /\ Len(events) <= SCHEDULER_MAX_EVENT
    /\ i \in 0 .. Len(events)
    /\ fire \in Nat /\ sample_interval \in Nat
    /\ cur \in [due : Nat, ev : 0 .. Len(events)]
    /\ now \in Nat /\ adds \in Nat
    /\ phase = "pick" \/ phase = "wait" => events # <<>>
    /\ ran \in Seq(Event)

\* Events run in the order of their times, and those of one millisecond in the
\* order of the trace file, however the sampler runs in between and however
\* late the thread is.
StableOrder ==
    \A a, b \in 1 .. Len(ran) : a < b =>
        \/ ran[a].time < ran[b].time
        \/ ran[a].time = ran[b].time /\ ran[a].idx < ran[b].idx

\* When scheduler_run returns, every event the parser could add has run.
NoEventLeftOut ==
    phase = "done" => \A k \in 1 .. Len(events) : \E a \in 1 .. Len(ran) : ran[a] = events[k]

\* What is about to run is the earliest of all that is pending: no event is
\* overtaken by a sample that is due after it, nor a sample by an event.
EarliestFirst ==
    phase = "wait" => /\ \A k \in i + 1 .. Len(events) : cur.due <= events[k].time
                      /\ cur.due <= next_sample

\* The run ends: the sampler cannot keep the loop from reaching the last
\* event, whatever the thread's delays.  (Periods are positive here.)
RunEnds == <>(phase = "done")

=============================================================================
