--------------------------------- MODULE Gap ---------------------------------
(***************************************************************************)
(* One handover on a queue with traffic: the worker of the queue (Worker), *)
(* the loop of the nfq thread around it (nfq_run of nfqueue.c), and the    *)
(* scheduler thread with the events of one HO row (parse_ho of event.c),   *)
(* every step of the two threads in any order.  The kernel always has a    *)
(* packet when the thread asks for one, or lets it wait.                   *)
(***************************************************************************)
EXTENDS Worker

CONSTANTS
    LossExtra,   \* 10: what parse_ho adds to reord_cnt to get the loss
    Gaps         \* values of gap_ms, 0 among them

ASSUME LossExtraAssumption == LossExtra \in Nat
ASSUME GapsAssumption == Gaps \subseteq Nat

VARIABLES
    row,         \* [mark, gap, loss, cnt, offset] : the HO row, its loss as parse_ho sets it
    todo_events, \* the events of the row that have not run
    status,      \* nfq_ctx.status
    run,         \* where nfq_run is: "check", "recv", or in the callback if pc # "recv"
    before       \* packets received before nfq_start ended the gap

gap_vars == <<row, todo_events, status, run, before>>

\* The events of a row in the order they run, which is the order of their times and,
\* within a millisecond, the order parse_ho adds them in: with gap_ms = 0 the queue is
\* started before the mark, the loss and the reordering are set.
with_faults(s, r) ==
    s \o (IF r.loss > 0 THEN <<"set_drop">> ELSE <<>>)
      \o (IF r.cnt > 0 THEN <<"set_reorder">> ELSE <<>>)
ho_mark_last(r) ==
    with_faults(<<"stop_nfqueue">>, r) \o <<"start_nfqueue", "set_mark">>
ho_events(r) ==
    IF r.gap > 0 THEN with_faults(<<"stop_nfqueue", "set_mark">>, r) \o <<"start_nfqueue">>
                 ELSE with_faults(<<"stop_nfqueue", "start_nfqueue", "set_mark">>, r)

drop_cnt(loss, cnt) == IF cnt > 0 THEN cnt + LossExtra ELSE loss

\* The queue runs when the handover begins.
GapInit ==
    /\ Init
    /\ \E new \in Marks, g \in Gaps, l \in Drops \cup {0}, c \in Counts \cup {0}, o \in Offsets :
          row = [mark |-> new, gap |-> g, loss |-> drop_cnt(l, c), cnt |-> c, offset |-> o]
    /\ todo_events = ho_events(row)
    /\ status = "NFQ_RUNNING" /\ run = "check"
    /\ before = 0

-----------------------------------------------------------------------------
(* The nfq thread. *)

\* switch (ctx->status): a stopped queue is looked at again and again.
status_ignored == TRUE
status_lets_pass == status = "NFQ_RUNNING"

nfq_run_check ==
    /\ pc = "recv" /\ run = "check"
    /\ status_lets_pass
    /\ run' = "recv"
    /\ UNCHANGED <<vars, row, todo_events, status, before>>

nfq_run_recv ==
    /\ run = "recv"
    /\ worker_callback
    /\ run' = "check"
    /\ UNCHANGED <<row, todo_events, status, before>>

\* The handlers of the callback and the verdicts.
nfq_handle_packet ==
    /\ pc # "recv"
    /\ NfqThread
    /\ UNCHANGED gap_vars

-----------------------------------------------------------------------------
(* The scheduler thread. *)

Event(name) ==
    /\ todo_events # <<>>
    /\ Head(todo_events) = name
    /\ todo_events' = Tail(todo_events)
    /\ UNCHANGED <<row, run>>

action_stop_nfqueue ==
    /\ Event("stop_nfqueue")
    /\ status' = "NFQ_STOPPED"
    /\ UNCHANGED <<vars, before>>

action_start_nfqueue ==
    /\ Event("start_nfqueue")
    /\ status' = "NFQ_RUNNING"
    /\ before' = Len(hdr)
    /\ UNCHANGED vars

action_set_mark ==
    /\ Event("set_mark")
    /\ worker_set_mark(row.mark)
    /\ UNCHANGED <<status, before>>

action_set_drop ==
    /\ Event("set_drop")
    /\ worker_set_drop(row.loss)
    /\ UNCHANGED <<status, before>>

action_set_reorder ==
    /\ Event("set_reorder")
    /\ worker_set_reorder(row.cnt, row.offset)
    /\ UNCHANGED <<status, before>>

GapNext ==
    \/ nfq_run_check \/ nfq_run_recv \/ nfq_handle_packet
    \/ action_stop_nfqueue \/ action_start_nfqueue
    \/ action_set_mark \/ action_set_drop \/ action_set_reorder

GapSpec == GapInit /\ [][GapNext]_<<vars, gap_vars>>

-----------------------------------------------------------------------------
(* Properties.  The gap is over when the queue has been started again. *)

Resumed     == "start_nfqueue" \notin ToSet(todo_events)
Backlog     == before + 1 .. Len(hdr)
LostIds     == {v.id : v \in {u \in ToSet(out) : u.why = "loss"}}
LostBacklog == LostIds \cap Backlog

\* What src/README.md says of the mark: it is set at time_ms, and at time_ms + gap_ms
\* the queue resumes, so every packet that is received from then on and accepted leaves
\* by the new link.
NewLinkOnceResumed ==
    Resumed =>
        \A v \in ToSet(out) : v.id \in Backlog /\ v.verdict = "accept" => v.mark = row.mark

\* In a row with a gap the packets of the backlog leave by the new link or are lost,
\* whichever event of the row the thread's last packet before the gap was overtaken
\* by.  (With gap_ms = 0 they need not: the queue is started before the mark is set.)
BacklogOnNewLink == row.gap > 0 => NewLinkOnceResumed

Smaller(x, y) == IF x < y THEN x ELSE y

\* What src/README.md says of the loss: that many packets are dropped once the queue
\* resumes, or all there are.
LossesOnceResumed ==
    Resumed /\ pc = "recv" =>
        Cardinality(LostBacklog) = Smaller(row.loss, Cardinality(Backlog))

\* In a row with a gap the backlog loses exactly the documented number of packets,
\* unless the thread lost the packet that it was handling, or waiting for, when the
\* queue was stopped: that one is then the first of them, and the backlog loses the
\* others.
BacklogLoses ==
    row.gap > 0 /\ Resumed /\ pc = "recv" =>
        LET straggler == IF LostIds \ Backlog = {} THEN 0 ELSE 1
        IN  Cardinality(LostBacklog) = Smaller(row.loss - straggler, Cardinality(Backlog))

\* The documented outcome for n packets of the backlog: `loss' packets are gone;
\* of the others the first cnt are held, the next offset pass, then the held ones
\* follow in reverse order, then the rest.  cnt and offset are what the setter
\* gets.
Expected(n) ==
    LET kept   == [i \in 1 .. (IF n > row.loss THEN n - row.loss ELSE 0) |-> before + row.loss + i]
        cnt    == capped_count(row.cnt)
        offset == row.offset % U16
        waited == cnt + offset
    IN  IF cnt = 0 THEN kept
        ELSE IF Len(kept) < waited THEN SubSeq(kept, cnt + 1, Len(kept))
        ELSE SubSeq(kept, cnt + 1, waited) \o Reverse(SubSeq(kept, 1, cnt))
             \o SubSeq(kept, waited + 1, Len(kept))

\* The thread's last packet before the gap was not overtaken by the row.
Undisturbed ==
    /\ Len(out) >= before
    /\ \A i \in 1 .. before : out[i].id = i /\ out[i].verdict = "accept"

\* The positions of the backlog's packets among the verdicts that accept, and the
\* place of position i among them.
AcceptedBacklog == {i \in DOMAIN out : out[i].verdict = "accept" /\ out[i].id \in Backlog}
Rank(i)         == Cardinality({j \in AcceptedBacklog : j <= i})

\* What src/README.md says of reord_cnt and reord_offset, if the gap was clean: whenever
\* the callback has returned, exactly the documented packets of the backlog have been
\* accepted, in the documented order.
HeldThenReversed ==
    Resumed /\ pc = "recv" /\ Undisturbed =>
        LET expected == Expected(Cardinality(Backlog))
        IN  /\ Len(expected) = Cardinality(AcceptedBacklog)
            /\ \A i \in AcceptedBacklog : out[i].id = expected[Rank(i)]

\* The documented order is kept by every row with a gap, whatever its loss and count,
\* if its offset is not 0 or it does not reorder.  (With an offset of 0 the first packet
\* that worker_handle_reorder holds is released at once and ends the reordering.)
DocumentedOrder ==
    row.gap > 0 /\ (row.cnt = 0 \/ row.offset % U16 > 0) => HeldThenReversed

=============================================================================
