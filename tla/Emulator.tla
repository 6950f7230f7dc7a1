------------------------------ MODULE Emulator ------------------------------
(***************************************************************************)
(* The whole run of a trace, src/src/emulator.c: main reads the rows, the  *)
(* parser (Event) expands them, scheduler_run sorts the events and calls   *)
(* their handlers (src/src/action.c) merged with the window sampler, and   *)
(* the handlers find the queue and worker contexts in action_ctx.          *)
(*                                                                         *)
(* The table is the set of the events that have not run; what the sorted   *)
(* array and its index give is the earliest of them (Scheduler has the     *)
(* array).  Of idx only the order counts: an event has the line of its row *)
(* and its place in the row.                                               *)
(*                                                                         *)
(* A handler that is called for a queue that is not there dereferences a   *)
(* null pointer, and the sampler may lock a destroyed mutex, which is      *)
(* undefined: phase "crashed".  The packets are Worker's and Nfqueue's     *)
(* matter, the windows are WindowControl's and the clock is Scheduler's;   *)
(* here `now' is the due time of what ran last, every handler takes no     *)
(* time, and a teardown does not fail.                                     *)
(***************************************************************************)
EXTENDS Event, FiniteSets

CONSTANTS
    Traces,               \* the traces a run is started with
    Queues,               \* queue numbers
    SCHEDULER_MAX_EVENT,
    NoFire,               \* 0xFFFFFFFF
    Leftover              \* what the stack may leave in tcp_ctx, [fire, sample_interval, rtt]

Links == 1 .. 2

\* The rows, with the fields the parser reads.  Times are ints, far below NoFire.
Row ==
    [ev : {"INIT"}, time : Nat, q : Queues, mark : Nat, end : Nat]
    \cup [ev : {"HO"}, time : Nat, q : Queues, mark : Nat, gap : Nat, cnt : Nat, loss : Nat]
    \cup [ev : {"SOL_HANDLEDUP"}, time : Nat, q : Queues, enable : {0, 1}]
    \cup [ev : {"SOL_INIT_SCHED"}, time : Nat, q : Queues, fire : Nat, sample_interval : Nat,
          rtt : [Links -> Nat]]
    \cup [ev : {"SOL_HO"}, time : Nat, q : Queues, mark : Links, enable_freeze : Nat,
          freeze_ms : Nat, enable_dedup : Nat, smooth_ms : Nat, burst_duration : Nat,
          enable_adapt : Nat]
    \cup [ev : {"CMD", "UNKNOWN"}, time : Nat, q : Queues]

\* What SOL_INIT_SCHED gives the controller.
Sched == [fire : Nat, sample_interval : Nat, rtt : [Links -> Nat]]

ASSUME EmulatorAssumption ==
    /\ Queues \subseteq Nat /\ SCHEDULER_MAX_EVENT \in Nat /\ NoFire \in Nat
    /\ Traces \subseteq Seq(Row)
    /\ Leftover \subseteq Sched
    /\ \A tr \in Traces : \A k \in DOMAIN tr : \A j \in DOMAIN parse_event(tr[k]) :
          parse_event(tr[k])[j].time < NoFire

VARIABLES
    trace, line,          \* the input file and the rows of it that were read
    phase,                \* "parse", "run", "done" or "crashed"
    events,               \* scheduled and not yet run
    count,                \* scheduler_ctx.event_count
    now,
    queues,               \* action_ctx: "none", "bound" or "gone" for each queue
    running,              \* queues whose status is NFQ_RUNNING
    mark, loss, reorder,  \* the worker's mark and what was last armed
    dedup, burst, adapt,  \* workers whose flag is set
    wkctx, fire, sample_interval,
    link, params          \* tcp_ctx.mark and what SOL_INIT_SCHED gave

worker_vars == <<mark, loss, reorder, dedup, burst, adapt>>
tcp_vars    == <<wkctx, fire, sample_interval, link, params>>
state_vars  == <<queues, running, worker_vars, tcp_vars>>
vars == <<trace, line, phase, events, count, now, state_vars>>

\* wkctx is NULL, or points to a worker that was destroyed.
NoWorker  == -1
Destroyed == -2

\* init_tcp_scheduler sets fire, wkctx and sample_interval only: the link, the
\* remembered windows and the burst period are what the stack held.
Init ==
    /\ trace \in Traces /\ line = 0
    /\ phase = "parse" /\ events = {} /\ count = 0 /\ now = 0
    /\ queues = [q \in Queues |-> "none"] /\ running = {}
    /\ mark = [q \in Queues |-> 0]
    /\ loss = [q \in Queues |-> 0] /\ reorder = [q \in Queues |-> 0]
    /\ dedup = {} /\ burst = {} /\ adapt = {}
    /\ wkctx = NoWorker /\ fire = NoFire /\ sample_interval = 0
    /\ link \in Links /\ params \in Leftover

-----------------------------------------------------------------------------
(* main: one row after another, then scheduler_run. *)

\* The first n events of row k, in the order of the scheduler_add_event calls.
scheduled(k, n) ==
    LET evs == parse_event(trace[k])
    IN  {[time |-> evs[j].time, act |-> evs[j].act, q |-> evs[j].q, arg |-> evs[j].arg,
          idx |-> <<k, j>>] : j \in 1 .. n}

\* What does not fit is dropped and nobody looks.
fitting(n) == IF count + n <= SCHEDULER_MAX_EVENT THEN n ELSE SCHEDULER_MAX_EVENT - count

read_row ==
    LET n == fitting(Len(parse_event(trace[line + 1])))
    IN
    /\ phase = "parse" /\ line < Len(trace)
    /\ line' = line + 1
    /\ events' = events \cup scheduled(line + 1, n)
    /\ count' = count + n
    /\ UNCHANGED <<trace, phase, now, state_vars>>

\* The order of two numbers idx.
added_before(i, j) == i[1] < j[1] \/ (i[1] = j[1] /\ i[2] < j[2])

later_row_first(a, b) == a.time < b.time \/ (a.time = b.time /\ added_before(b.idx, a.idx))
scheduler_compare_event(a, b) == a.time < b.time \/ (a.time = b.time /\ added_before(a.idx, b.idx))

scheduler_run ==
    /\ phase = "parse" /\ line = Len(trace)
    /\ phase' = IF events = {} THEN "done" ELSE "run"
    /\ UNCHANGED <<trace, line, events, count, now, state_vars>>

\* The event at the index of the sorted array.
earliest == {e \in events : \A f \in events \ {e} : scheduler_compare_event(e, f)}

-----------------------------------------------------------------------------
(* The handlers. *)

next_sample == fire + sample_interval

\* Where the sampler's schedule moves when it runs.
fire_kept == fire
fire_moved == next_sample

\* The event e is due before the sampler, and its handler is act.
Due(e, act) == phase = "run" /\ e.time < next_sample /\ e.act = act

Finish(e) ==
    /\ events' = events \ {e}
    /\ now' = e.time
    /\ phase' = IF events' = {} THEN "done" ELSE "run"
    /\ UNCHANGED <<trace, line, count>>

\* A handler for a queue that is open.
Handle(e, act) == Due(e, act) /\ queues[e.q] = "bound" /\ Finish(e)

\* The workers whose flag is on after a setter with argument enable.
Set(flags, q, enable) == IF enable = 1 THEN flags \cup {q} ELSE flags \ {q}

\* A handler for a queue that is not, or a second bind, which makes the process
\* exit.
crash(e) ==
    /\ phase = "run" /\ e.time < next_sample
    /\ e.act # "command"
    /\ (e.act = "init_nfqueue") <=> (queues[e.q] = "bound")
    /\ phase' = "crashed"
    /\ UNCHANGED <<trace, line, events, count, now, state_vars>>

action_command(e) ==
    /\ Due(e, "command") /\ Finish(e)
    /\ UNCHANGED state_vars

action_init_nfqueue(e) ==
    /\ Due(e, "init_nfqueue") /\ queues[e.q] # "bound" /\ Finish(e)
    /\ queues' = [queues EXCEPT ![e.q] = "bound"]
    /\ mark' = [mark EXCEPT ![e.q] = 0]
    /\ loss' = [loss EXCEPT ![e.q] = 0] /\ reorder' = [reorder EXCEPT ![e.q] = 0]
    /\ dedup' = dedup \ {e.q} /\ burst' = burst \ {e.q} /\ adapt' = adapt \ {e.q}
    /\ running' \in {running, running \cup {e.q}}   \* the status is not initialised
    /\ UNCHANGED tcp_vars

action_start_nfqueue(e) ==
    /\ Handle(e, "start_nfqueue")
    /\ running' = running \cup {e.q}
    /\ UNCHANGED <<queues, worker_vars, tcp_vars>>

action_stop_nfqueue(e) ==
    /\ Handle(e, "stop_nfqueue")
    /\ running' = running \ {e.q}
    /\ UNCHANGED <<queues, worker_vars, tcp_vars>>

action_teardown_nfqueue(e) ==
    /\ Handle(e, "teardown_nfqueue")
    /\ queues' = [queues EXCEPT ![e.q] = "gone"]
    /\ running' = running \ {e.q}
    /\ wkctx' = IF wkctx = e.q THEN Destroyed ELSE wkctx
    /\ UNCHANGED <<worker_vars, fire, sample_interval, link, params>>

action_set_mark(e) ==
    /\ Handle(e, "set_mark")
    /\ mark' = [mark EXCEPT ![e.q] = e.arg]
    /\ UNCHANGED <<queues, running, loss, reorder, dedup, burst, adapt, tcp_vars>>

action_set_drop(e) ==
    /\ Handle(e, "set_drop")
    /\ loss' = [loss EXCEPT ![e.q] = e.arg]
    /\ UNCHANGED <<queues, running, mark, reorder, dedup, burst, adapt, tcp_vars>>

action_set_reorder(e) ==
    /\ Handle(e, "set_reorder")
    /\ reorder' = [reorder EXCEPT ![e.q] = e.arg]
    /\ UNCHANGED <<queues, running, mark, loss, dedup, burst, adapt, tcp_vars>>

action_set_dedup(e) ==
    /\ Handle(e, "set_dedup")
    /\ dedup' = Set(dedup, e.q, e.arg)
    /\ UNCHANGED <<queues, running, mark, loss, reorder, burst, adapt, tcp_vars>>

action_init_tcp_sched(e) ==
    /\ Handle(e, "init_tcp_sched")
    /\ wkctx' = e.q
    /\ fire' = e.arg.fire
    /\ sample_interval' = e.arg.rtt[1]
    /\ link' = 1 /\ params' = e.arg
    /\ adapt' = adapt \cup {e.q}
    /\ UNCHANGED <<queues, running, mark, loss, reorder, dedup, burst>>

\* The link is kept if the window happens to be 0.
action_sol_update(e) ==
    /\ Handle(e, "sol_update")
    /\ burst' = burst \ {e.q} /\ adapt' = adapt \ {e.q}
    /\ link' \in {link, e.arg}
    /\ UNCHANGED <<queues, running, mark, loss, reorder, dedup, wkctx, fire,
                   sample_interval, params>>

action_set_rwnd(e) ==
    /\ Handle(e, "set_rwnd")
    /\ UNCHANGED state_vars

action_set_burst(e) ==
    /\ Handle(e, "set_burst")
    /\ burst' = Set(burst, e.q, e.arg)
    /\ adapt' = IF e.arg = 1 THEN adapt \ {e.q} ELSE adapt
    /\ sample_interval' = IF e.arg = 1 THEN params.sample_interval ELSE sample_interval
    /\ UNCHANGED <<queues, running, mark, loss, reorder, dedup, wkctx, fire, link, params>>

action_set_adapt(e) ==
    /\ Handle(e, "set_adapt")
    /\ adapt' = Set(adapt, e.q, e.arg)
    /\ burst' = burst \ {e.q}
    /\ sample_interval' = params.rtt[link]
    /\ UNCHANGED <<queues, running, mark, loss, reorder, dedup, wkctx, fire, link, params>>

\* A shorter period can put the next sample in the past; it runs at once.
tcp_schedule ==
    /\ phase = "run"
    /\ \A e \in events : e.time >= next_sample
    /\ fire' = fire_moved
    /\ now' = IF next_sample > now THEN next_sample ELSE now
    /\ phase' \in CASE wkctx = NoWorker  -> {"crashed"}
                   [] wkctx = Destroyed -> {"crashed", "run"}
                   [] OTHER             -> {"run"}
    /\ UNCHANGED <<trace, line, events, count, queues, running, worker_vars, wkctx,
                   sample_interval, link, params>>

-----------------------------------------------------------------------------
Main == read_row \/ scheduler_run

Queue(e) ==
    \/ action_init_nfqueue(e)
    \/ action_start_nfqueue(e)
    \/ action_stop_nfqueue(e)
    \/ action_teardown_nfqueue(e)

Faults(e) == action_set_mark(e) \/ action_set_drop(e) \/ action_set_reorder(e)

Solution(e) ==
    \/ action_set_dedup(e)
    \/ action_init_tcp_sched(e)
    \/ action_sol_update(e)
    \/ action_set_rwnd(e)
    \/ action_set_burst(e)
    \/ action_set_adapt(e)

Handler(e) == Queue(e) \/ Faults(e) \/ Solution(e) \/ action_command(e) \/ crash(e)

Next == Main \/ tcp_schedule \/ \E e \in earliest : Handler(e)

Spec == Init /\ [][Next]_vars

\* The scheduler thread goes on as long as it has something to do.
FairSpec == Spec /\ WF_vars(Next)

-----------------------------------------------------------------------------
(* What the trace asks for.  A row is named by its line. *)

Rows(kind, q) == {k \in DOMAIN trace : trace[k].ev = kind /\ trace[k].q = q}
Used          == {q \in Queues : Rows("INIT", q) # {}}
Before(k, l)  == trace[k].time < trace[l].time \/ (trace[k].time = trace[l].time /\ k < l)
LastOf(S)     == CHOOSE k \in S : \A l \in S \ {k} : Before(l, k)

Thawed(r) == r.time + r.freeze_ms
Done(r)   == Thawed(r) + r.burst_duration

\* The time of the last event of a row, teardowns apart.
LastTime(r) ==
    CASE r.ev = "HO"     -> r.time + r.gap
      [] r.ev = "SOL_HO" -> IF r.enable_dedup > 0 /\ r.smooth_ms > r.burst_duration
                              THEN Thawed(r) + r.smooth_ms ELSE Done(r)
      [] OTHER           -> r.time

\* All events of the trace.
Expansion == UNION {scheduled(k, Len(parse_event(trace[k]))) : k \in DOMAIN trace}

\* The trace fits the table; each queue is opened by one row, before and above
\* everything that uses it, and closed after it; and the queue the sampler
\* watches is closed last.
Lifetimes ==
    /\ Cardinality(Expansion) <= SCHEDULER_MAX_EVENT
    /\ \A q \in Used : \A i, j \in Rows("INIT", q) : i = j
    /\ \A k \in DOMAIN trace :
          trace[k].ev \in {"HO", "SOL_HANDLEDUP", "SOL_INIT_SCHED", "SOL_HO"} =>
             \E i \in Rows("INIT", trace[k].q) :
                Before(i, k) /\ LastTime(trace[k]) < trace[i].end
    /\ \A i \in DOMAIN trace : trace[i].ev = "INIT" => trace[i].time < trace[i].end
    /\ \A k \in DOMAIN trace : trace[k].ev = "SOL_INIT_SCHED" =>
          \A i \in Rows("INIT", trace[k].q), e \in Expansion : e.time <= trace[i].end

\* No row of the kind starts before the one above it is over.
Disjoint(kind, q) ==
    \A k, l \in Rows(kind, q) : k < l => LastTime(trace[k]) <= trace[l].time

\* Everything that is due at `now' has run.
Settled == phase = "run" /\ \A e \in events : e.time > now

InGap(q, t) ==
    \E k \in Rows("HO", q) : trace[k].time <= t /\ t < trace[k].time + trace[k].gap

Started(kind, q, t) == {k \in Rows(kind, q) : trace[k].time <= t}
Loss(r)             == IF r.cnt > 0 THEN r.cnt + LossExtra ELSE r.loss

-----------------------------------------------------------------------------
(* Properties. *)

\* A trace that respects the queues' lifetimes never makes a handler or the
\* sampler use a context that does not exist yet or any more.
NoDanglingContext == Lifetimes => phase # "crashed"

\* If the handovers of a queue do not overlap, the queue is stopped at every
\* moment of a gap and runs at every other, whatever else falls on the same
\* millisecond.
GapHonoured ==
    Settled /\ Lifetimes =>
        \A q \in Used : queues[q] = "bound" /\ Disjoint("HO", q) =>
            \A e \in earliest : \A t \in now .. e.time - 1 : q \in running <=> ~InGap(q, t)

\* The mark in force is that of the handover that started last.  The loss and the
\* reordering last armed are those of the last started handover that has any: parse_ho
\* adds no event for a loss or a count of 0, so such a row leaves what an earlier one
\* armed.  Once a millisecond is over all three are set, so they are when a backlog
\* that waited is flushed.
HandoverInForce ==
    Settled /\ Lifetimes =>
        \A q \in Used : queues[q] = "bound" =>
            LET hos    == Started("HO", q, now)
                losing == {k \in hos : Loss(trace[k]) > 0}
                mixing == {k \in hos : trace[k].cnt > 0}
            IN  /\ mark[q] = trace[LastOf(IF hos = {} THEN Rows("INIT", q) ELSE hos)].mark
                /\ loss[q] = (IF losing = {} THEN 0 ELSE Loss(trace[LastOf(losing)]))
                /\ reorder[q] = (IF mixing = {} THEN 0 ELSE trace[LastOf(mixing)].cnt)

\* If the SOL_HO rows of a queue do not overlap and come after its controller is
\* configured, burst estimation is on exactly in the windows the rows give it
\* and adaptation exactly from the end of the last row's burst on.  Duplicate
\* suppression is what the last SOL_HANDLEDUP row says, or on exactly in the
\* windows of the SOL_HO rows, whichever of the two the queue uses.
PhasesHonoured ==
    Settled /\ Lifetimes =>
        \A q \in Used :
            queues[q] = "bound" /\ Disjoint("SOL_HO", q)
            /\ (\A k \in Rows("SOL_HO", q), i \in Rows("SOL_INIT_SCHED", q) : Before(i, k)) =>
                LET hos  == Started("SOL_HO", q, now)
                    dups == Started("SOL_HANDLEDUP", q, now)
                    last == trace[LastOf(hos)]
                IN  /\ q \in burst <=> \E k \in hos : Thawed(trace[k]) <= now /\ now < Done(trace[k])
                    /\ q \in adapt <=> IF hos = {} THEN Started("SOL_INIT_SCHED", q, now) # {}
                                       ELSE last.enable_adapt > 0 /\ Done(last) <= now
                    /\ Rows("SOL_HO", q) = {} =>
                          (q \in dedup <=> dups # {} /\ trace[LastOf(dups)].enable = 1)
                    /\ Rows("SOL_HANDLEDUP", q) = {} =>
                          (q \in dedup <=> \E k \in hos : /\ trace[k].enable_dedup > 0
                                                         /\ Thawed(trace[k]) <= now
                                                         /\ now < Thawed(trace[k]) + trace[k].smooth_ms)

\* The run of such a trace ends with every queue torn down: the sampler never
\* keeps the scheduler from the events behind it.
EveryQueueTornDown ==
    <>(Lifetimes => phase = "done" /\ \A q \in Used : queues[q] = "gone")

=============================================================================
