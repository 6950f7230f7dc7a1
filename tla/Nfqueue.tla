------------------------------ MODULE Nfqueue -------------------------------
(***************************************************************************)
(* The life of one NFQUEUE, src/src/nfqueue.c with the actions of          *)
(* src/src/action.c that open and close it.  Three parties:                *)
(*   - the kernel copies every queued packet into the netlink socket and   *)
(*     keeps an entry for it until a verdict arrives;                      *)
(*   - the nfq thread (nfq_run) reads messages and runs the callback;      *)
(*   - the scheduler thread opens, starts, stops and tears down.           *)
(* The callback is one step here and Worker models it: it passes or drops  *)
(* its packet, holds it without a verdict, or releases all that is held.   *)
(***************************************************************************)
EXTENDS Integers, Sequences, FiniteSets

CONSTANTS
    MaxPackets,      \* bound: packets the rule sends to the queue
    MaxCalls,        \* bound: nfq_start and nfq_stop calls
    MaxErrors,       \* bound: failing recv calls
    Lengths,         \* packet lengths
    Garbage,         \* what malloc may leave in ctx->status
    NFQ_QUEUE_SIZE, NFQ_PKT_SIZE, NFQ_MSG_BUF, WORKER_MAX_REORDER_COUNT,
    Overhead         \* nfnetlink header and attributes of a message

Statuses == {"NFQ_STOPPED", "NFQ_RUNNING", "NFQ_DEAD", "OTHER"}

\* The second conjunct is the _Static_assert of nfqueue.c, with 256 >= Overhead.
ASSUME QueueAssumption ==
    /\ NFQ_QUEUE_SIZE \in Nat \ {0} /\ NFQ_PKT_SIZE \in Nat /\ Overhead \in Nat
    /\ NFQ_MSG_BUF \in Nat /\ NFQ_MSG_BUF > NFQ_PKT_SIZE + Overhead
    /\ Lengths \subseteq Nat
    /\ Garbage \subseteq Statuses
    /\ WORKER_MAX_REORDER_COUNT \in Nat
    /\ MaxPackets \in Nat /\ MaxCalls \in Nat /\ MaxErrors \in Nat

VARIABLES
    status,        \* nfq_ctx.status
    queue,         \* the kernel queue: "none", "bound" or "destroyed"
    fd,            \* the netlink socket: "none", "open" or "closed"
    worker,        \* the worker context: "none", "live" or "destroyed"
    thread,        \* where nfq_run is
    sched,         \* where the scheduler thread is in a teardown
    failed,        \* nfq_destroy_queue or nfq_close reported an error
    sock,          \* messages in the socket buffer
    waiting,       \* packets the kernel keeps until their verdict
    held,          \* those of them whose ids are in the worker's reorder_ids
    \* ghosts and bounds
    late,          \* packets the callback was run for since nfq_stop, in the current gap
    sent,          \* verdicts given in the current gap
    kept,          \* packets that were held when the current gap began
    arrivals, calls, errors

kernel_vars == <<queue, sock, waiting>>
gap_vars    == <<late, sent, kept>>
sched_vars  == <<sched, failed, worker, calls>>
vars == <<status, kernel_vars, held, fd, thread, sched_vars, gap_vars, arrivals, errors>>

\* nfq_set_mode(NFQNL_COPY_PACKET, NFQ_PKT_SIZE) limits what a message copies.
message_size_uncapped(len) == len + Overhead
message_size(len) == (IF len > NFQ_PKT_SIZE THEN NFQ_PKT_SIZE ELSE len) + Overhead

Init ==
    /\ status = "NFQ_STOPPED" /\ queue = "none" /\ fd = "none"
    /\ worker = "none" /\ thread = "none"
    /\ sched = "idle" /\ failed = FALSE
    /\ sock = <<>> /\ waiting = 0 /\ held = 0
    /\ late = 0 /\ sent = 0 /\ kept = 0
    /\ arrivals = 0 /\ calls = 0 /\ errors = 0

-----------------------------------------------------------------------------
(* The kernel. *)

\* A packet meets the iptables rule.  A full queue drops it.
packet_arrives ==
    /\ queue = "bound"
    /\ arrivals < MaxPackets
    /\ arrivals' = arrivals + 1
    /\ IF waiting < NFQ_QUEUE_SIZE
         THEN /\ waiting' = waiting + 1
              /\ \E len \in Lengths : sock' = Append(sock, message_size(len))
         ELSE UNCHANGED <<waiting, sock>>
    /\ UNCHANGED <<status, queue, fd, thread, sched_vars, held, gap_vars, errors>>

-----------------------------------------------------------------------------
(* The nfq thread: nfq_run. *)

\* Where the thread goes when recv fails, after a message, and after it has slept because the
\* queue is stopped.
after_error == "check"
next_message_unchecked == "recv"
next_message == "check"
stopped_thread_ends == "exited"
stopped_thread_polls == "check"

\* switch (ctx->status): a value outside the enum falls through to recv.
nfq_run_check ==
    /\ thread = "check"
    /\ thread' = CASE status = "NFQ_STOPPED" -> stopped_thread_polls
                   [] status = "NFQ_DEAD"    -> "exited"
                   [] OTHER                  -> "recv"
    /\ UNCHANGED <<status, kernel_vars, fd, sched_vars, held, gap_vars, arrivals, errors>>

\* recv on an empty socket blocks, and closing the descriptor does not wake it.
nfq_run_recv_blocks ==
    /\ thread = "recv"
    /\ fd = "open"
    /\ sock = <<>>
    /\ thread' = "blocked"
    /\ UNCHANGED <<status, kernel_vars, fd, sched_vars, held, gap_vars, arrivals, errors>>

\* recv returns a message; nfq_handle_packet calls the callback, or fails if
\* the message was cut off, and then no verdict is given.
nfq_run_recv ==
    /\ (thread = "recv" /\ fd = "open") \/ thread = "blocked"
    /\ sock # <<>>
    /\ sock' = Tail(sock)
    /\ thread' = IF Head(sock) <= NFQ_MSG_BUF THEN "callback" ELSE next_message
    /\ UNCHANGED <<status, queue, waiting, fd, sched_vars, held, gap_vars, arrivals, errors>>

\* recv fails: the descriptor is closed, or the kernel reports a lost message.
nfq_run_recv_error ==
    /\ thread = "recv"
    /\ fd = "closed" \/ errors < MaxErrors
    /\ errors' = IF fd = "closed" THEN errors ELSE errors + 1
    /\ thread' = after_error
    /\ UNCHANGED <<status, kernel_vars, fd, sched_vars, held, gap_vars, arrivals>>

\* What the worker still holds when the callback returns: it passed or dropped the
\* packet, held it, or released everything (worker_handle_reorder releases the held
\* packets in the callback of the last one that it holds or passes).
held_after(h) == {h, 0} \cup {n \in {h + 1} : n <= WORKER_MAX_REORDER_COUNT}

\* The callback and its verdicts.  After nfq_destroy_queue there is no entry left.
nfq_run_callback ==
    /\ thread = "callback"
    /\ held' \in held_after(held)
    /\ LET verdicts == held + 1 - held'
       IN  /\ waiting' = IF queue = "bound" THEN waiting - verdicts ELSE waiting
           /\ IF status = "NFQ_STOPPED"
                THEN late' = late + 1 /\ sent' = sent + verdicts
                ELSE UNCHANGED <<late, sent>>
    /\ thread' = next_message
    /\ UNCHANGED <<status, queue, sock, fd, sched_vars, kept, arrivals, errors>>

-----------------------------------------------------------------------------
(* The scheduler thread. *)

\* action_init_nfqueue: the worker context is initialised, the queue bound
\* and the thread created; nobody writes ctx->status.  If any call of nfq_init
\* fails the process exits.
action_init_nfqueue ==
    /\ sched = "idle" /\ queue = "none"
    /\ \/ /\ status' \in Garbage
          /\ queue' = "bound" /\ fd' = "open"
          /\ worker' = "live" /\ thread' = "check"
          /\ UNCHANGED sched
       \/ /\ sched' = "exit"
          /\ UNCHANGED <<status, queue, fd, worker, thread>>
    /\ UNCHANGED <<failed, sock, waiting, held, gap_vars, arrivals, calls, errors>>

nfq_start ==
    /\ sched = "idle" /\ queue = "bound"
    /\ calls < MaxCalls /\ calls' = calls + 1
    /\ status' = "NFQ_RUNNING"
    /\ late' = 0 /\ sent' = 0
    /\ UNCHANGED <<kernel_vars, held, fd, thread, sched, failed, worker, kept, arrivals, errors>>

nfq_stop ==
    /\ sched = "idle" /\ queue = "bound"
    /\ calls < MaxCalls /\ calls' = calls + 1
    /\ status' = "NFQ_STOPPED"
    /\ kept' = IF status = "NFQ_STOPPED" THEN kept ELSE held
    /\ UNCHANGED <<kernel_vars, held, fd, thread, sched, failed, worker, late, sent,
                   arrivals, errors>>

\* nfq_teardown and then worker_destroy_ctx, one library call after another;
\* the thread is not joined.
nfq_teardown ==
    /\ sched = "idle" /\ queue = "bound"
    /\ status' = "NFQ_DEAD"
    /\ sched' = "destroy_queue"
    /\ UNCHANGED <<kernel_vars, fd, thread, failed, worker, calls, held, gap_vars,
                   arrivals, errors>>

nfq_destroy_queue ==
    /\ sched = "destroy_queue"
    /\ queue' = "destroyed" /\ waiting' = 0
    /\ failed' \in BOOLEAN
    /\ sched' = "close"
    /\ UNCHANGED <<status, sock, fd, thread, worker, calls, held, gap_vars, arrivals, errors>>

nfq_close ==
    /\ sched = "close"
    /\ fd' = "closed"
    /\ failed' \in {failed, TRUE}
    /\ sched' = "destroy_worker"
    /\ UNCHANGED <<status, kernel_vars, thread, worker, calls, held, gap_vars, arrivals, errors>>

\* action_teardown_nfqueue returns early if the teardown reported an error.
worker_destroy_ctx ==
    /\ sched = "destroy_worker"
    /\ worker' = IF failed THEN worker ELSE "destroyed"
    /\ sched' = "done"
    /\ UNCHANGED <<status, kernel_vars, fd, thread, failed, calls, held, gap_vars,
                   arrivals, errors>>

-----------------------------------------------------------------------------
nfq_run ==
    \/ nfq_run_check
    \/ nfq_run_recv_blocks
    \/ nfq_run_recv
    \/ nfq_run_recv_error
    \/ nfq_run_callback

Scheduler ==
    \/ action_init_nfqueue
    \/ nfq_start
    \/ nfq_stop
    \/ nfq_teardown
    \/ nfq_destroy_queue
    \/ nfq_close
    \/ worker_destroy_ctx

Next == packet_arrives \/ nfq_run \/ Scheduler

Spec == Init /\ [][Next]_vars

\* The operating system runs the nfq thread whenever it can take a step.
FairSpec == Spec /\ WF_vars(nfq_run)

-----------------------------------------------------------------------------
(* Properties. *)

\* However long a gap is and however often it is extended, the callback is run for
\* at most one packet in it: the one nfq_run was already receiving or handling when
\* nfq_stop stored NFQ_STOPPED.  Every other packet of the queue keeps waiting; the
\* verdicts sent in the gap are that packet's and those of packets that the worker
\* held back when the gap began.
AtMostOneStraggler == late <= 1 /\ sent <= kept + late

\* While the queue is bound every packet the kernel keeps is in the socket, in the
\* callback or held by the worker, so nothing is lost between the kernel and the worker:
\* none waits for a verdict that nobody will give.
EveryWaitingPacketIsReachable ==
    queue = "bound" =>
        waiting = Len(sock) + held + (IF thread = "callback" THEN 1 ELSE 0)

\* Once the queue is started the backlog of the gap is flushed, unless the
\* queue is stopped or torn down again, in spite of failing recv calls.
StartDrains ==
    (status = "NFQ_RUNNING" /\ sock # <<>>) ~> (sock = <<>> \/ status # "NFQ_RUNNING")

\* What worker.h says of worker_destroy_ctx: the context is released after use.
WorkerReleasedAfterUse == worker = "destroyed" => thread # "callback"

=============================================================================
