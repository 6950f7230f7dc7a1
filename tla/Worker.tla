------------------------------- MODULE Worker -------------------------------
(***************************************************************************)
(* The verdict path of one queue, src/src/worker.c.  Two threads share a   *)
(* worker_ctx: the queue's nfq thread runs worker_callback for one packet  *)
(* at a time, and the scheduler thread calls the worker_set_xxx functions  *)
(* between any two of the callback's critical sections.                    *)
(*                                                                         *)
(* A critical section (drop_lock, reorder_lock, dedup_lock, rwnd_lock) is  *)
(* one step, except where a verdict is sent: the mark is read without a    *)
(* lock, so reading it ("load") and sending the verdict ("send") are two   *)
(* steps, and `lock' names the mutex the nfq thread keeps meanwhile.       *)
(* do_burst, do_adapt and data_rcvd are read by the sampler only and do    *)
(* not appear here: no verdict depends on them.                            *)
(***************************************************************************)
EXTENDS Integers, Sequences, FiniteSets, SequencesExt

CONSTANTS
    MaxPackets,    \* bound: packets that reach the queue
    MaxCalls,      \* bound: calls of the scheduler thread
    Headers,       \* what the verdict path reads of a packet
    AckValues,     \* 32-bit acknowledgement numbers, garbage included
    Marks,         \* fwmarks the trace uses; worker_init_ctx sets 0
    Windows,       \* receive windows the controller may install
    Drops,         \* loss fields the parser passes on (it skips loss <= 0)
    Counts,        \* reord_cnt fields (int, truncated by the call)
    Offsets,       \* reord_offset fields
    U16,           \* 2^16: the modulus of a uint16_t parameter
    WORKER_MAX_REORDER_COUNT,
    Overlap        \* may a trace re-arm reordering while it is still active?

ASSUME BoundsAssumption == MaxPackets \in Nat /\ MaxCalls \in Nat

ASSUME HeadersAssumption ==
    Headers \subseteq [tcp : BOOLEAN, ack : AckValues, pure : BOOLEAN, win : Nat]

ASSUME ParametersAssumption ==
    /\ Marks \subseteq Nat
    /\ AckValues \subseteq Nat
    /\ Windows \subseteq Nat
    /\ Drops \subseteq Nat \ {0}
    /\ Counts \subseteq Nat
    /\ Offsets \subseteq Nat
    /\ U16 \in Nat \ {0}
    /\ WORKER_MAX_REORDER_COUNT \in Nat \ {0}
    /\ Overlap \in BOOLEAN

VARIABLES
    \* worker_ctx
    mark, do_drop, drop_count,
    do_reorder, reorder_count, reorder_offset,
    reorder_ids,   \* reorder_ids[0 .. reorder_id_cur - 1]
    do_dedup, do_rwnd, tune_rwnd, last_ack,
    \* the nfq thread inside worker_callback
    pc,            \* the next step
    lock,          \* the mutex kept while verdicts are sent
    todo,          \* packets the running handler still has to accept
    m,             \* the mark it has loaded for the first of them
    \* the kernel's side and ghosts
    hdr,           \* packets handed to the callback so far; their ids are 1, 2, ...
    out,           \* verdicts, in the order they were sent
    calls,         \* setter calls so far
    stale,         \* verdicts sent since worker_set_mark with an older mark
    ack0           \* the value malloc left in last_ack

drop_vars    == <<do_drop, drop_count>>
reorder_vars == <<do_reorder, reorder_count, reorder_offset, reorder_ids>>
rwnd_vars    == <<do_rwnd, tune_rwnd, last_ack>>
thread_vars  == <<pc, lock, todo, m>>
kernel_vars  == <<hdr, out>>
vars == <<mark, drop_vars, reorder_vars, do_dedup, rwnd_vars, thread_vars,
          kernel_vars, calls, stale, ack0>>

\* The packet the callback is working on.
Current == Len(hdr)
Header  == hdr[Current]

\* A handler that sets `handled' ends the callback, any other leaves the
\* packet to the next one.
handled_ignored(handled, next) == next
handled_then(handled, next) == IF handled THEN "recv" ELSE next

\* worker_set_reorder's two uint16_t parameters and its cap.
uncapped_count(count) == count % U16
capped_count(count) ==
    LET c == count % U16
    IN  IF c > WORKER_MAX_REORDER_COUNT THEN WORKER_MAX_REORDER_COUNT ELSE c

\* The order in which the held packets are released, newest first.
release_from_past_end(ids) == <<0>> \o Reverse(ids)
release_skips_first(ids) == IF ids = <<>> THEN <<>> ELSE Reverse(Tail(ids))
release_oldest_first(ids) == ids
release_order(ids) == Reverse(ids)

\* An ack-only packet that repeats the recorded acknowledgement number.
is_old_ack(h) == h.tcp /\ h.ack <= last_ack /\ h.pure
is_dup_ack(h) == h.tcp /\ h.ack = last_ack /\ h.pure

\* The mark is loaded anew for every packet of the release loop.
mark_hoisted == "send"
mark_reloaded == "load"

\* A setter waits for rwnd_lock, which the nfq thread keeps from comparing
\* the window with the packet's until the rewritten packet has been sent.
rwnd_lock_ignored == TRUE
rwnd_lock_free == lock # "rwnd"

Accept(id, w) == [id |-> id, verdict |-> "accept", mark |-> m, win |-> w, why |-> "pass"]
Drop(id, why) == [id |-> id, verdict |-> "drop", mark |-> 0, win |-> 0, why |-> why]

-----------------------------------------------------------------------------
\* worker_init_ctx.  The context comes from malloc: tune_rwnd and last_ack
\* (and the counters that no flag enables yet) keep what was in memory.
worker_init_ctx ==
    /\ mark = 0
    /\ do_drop = FALSE /\ drop_count = 0
    /\ do_reorder = FALSE /\ reorder_count = 0 /\ reorder_offset = 0
    /\ reorder_ids = <<>>
    /\ do_dedup = FALSE
    /\ do_rwnd = FALSE /\ tune_rwnd \in Windows /\ last_ack \in AckValues

Init ==
    /\ worker_init_ctx
    /\ pc = "recv" /\ lock = "none" /\ todo = <<>> /\ m = 0
    /\ hdr = <<>> /\ out = <<>>
    /\ calls = 0 /\ stale = 0 /\ ack0 = last_ack

-----------------------------------------------------------------------------
(* The nfq thread. *)

\* nfq_handle_packet enters worker_callback with the next packet.
worker_callback ==
    /\ pc = "recv"
    /\ Len(hdr) < MaxPackets
    /\ \E h \in Headers : hdr' = Append(hdr, h)
    /\ pc' = "drop"
    /\ UNCHANGED <<mark, drop_vars, reorder_vars, do_dedup, rwnd_vars, lock,
                   todo, m, out, calls, stale, ack0>>

worker_handle_drop ==
    /\ pc = "drop"
    /\ drop_count' = IF do_drop THEN drop_count - 1 ELSE drop_count
    /\ do_drop' = (do_drop /\ drop_count' > 0)
    /\ LET handled == do_drop /\ drop_count > 0
       IN  /\ out' = IF handled THEN Append(out, Drop(Current, "loss")) ELSE out
           /\ pc' = handled_then(handled, "reorder")
    /\ UNCHANGED <<mark, reorder_vars, do_dedup, rwnd_vars, lock, todo, m, hdr,
                   calls, stale, ack0>>

\* Hold the packet, or pass it, or neither; then release the held ones in
\* reverse order if no offset is left.
worker_handle_reorder ==
    LET hold    == reorder_count > 0
        pass    == ~hold /\ reorder_offset > 0
        ids     == IF hold THEN Append(reorder_ids, Current) ELSE reorder_ids
        release == reorder_offset' <= 0
    IN
    /\ pc = "reorder"
    /\ do_reorder
    /\ reorder_count' = reorder_count - 1
    /\ reorder_offset' = IF hold THEN reorder_offset ELSE reorder_offset - 1
    /\ do_reorder' = ~release
    /\ reorder_ids' = IF release THEN <<>> ELSE ids
    /\ todo' = (IF pass THEN <<Current>> ELSE <<>>)
               \o (IF release THEN release_order(ids) ELSE <<>>)
    /\ IF todo' = <<>> THEN pc' = "recv" /\ UNCHANGED lock
                       ELSE pc' = "load" /\ lock' = "reorder"
    /\ UNCHANGED <<mark, drop_vars, do_dedup, rwnd_vars, m, kernel_vars, calls,
                   stale, ack0>>

worker_skip_reorder ==
    /\ pc = "reorder"
    /\ ~do_reorder
    /\ pc' = "dedup"
    /\ UNCHANGED <<mark, drop_vars, reorder_vars, do_dedup, rwnd_vars, lock,
                   todo, m, kernel_vars, calls, stale, ack0>>

worker_handle_dedup ==
    /\ pc = "dedup"
    /\ LET handled == do_dedup /\ is_dup_ack(Header)
       IN  /\ out' = IF handled THEN Append(out, Drop(Current, "dup")) ELSE out
           /\ pc' = handled_then(handled, "rwnd")
    /\ UNCHANGED <<mark, drop_vars, reorder_vars, do_dedup, rwnd_vars, lock,
                   todo, m, hdr, calls, stale, ack0>>

\* The packet is accepted either way: here, its window rewritten, with
\* rwnd_lock held, or by worker_callback's last statement.
worker_handle_rwnd ==
    /\ pc = "rwnd"
    /\ todo' = <<Current>>
    /\ pc' = "load"
    /\ IF Header.tcp /\ do_rwnd
         THEN /\ last_ack' = Header.ack
              /\ lock' = IF tune_rwnd < Header.win THEN "rwnd" ELSE "none"
         ELSE UNCHANGED <<last_ack, lock>>
    /\ UNCHANGED <<mark, drop_vars, reorder_vars, do_dedup, do_rwnd, tune_rwnd,
                   m, kernel_vars, calls, stale, ack0>>

\* nfq_set_verdict2(..., __atomic_load_n(&ctx->mark), ...): read the mark,
load_mark ==
    /\ pc = "load"
    /\ m' = mark
    /\ pc' = "send"
    /\ UNCHANGED <<mark, drop_vars, reorder_vars, do_dedup, rwnd_vars, lock,
                   todo, kernel_vars, calls, stale, ack0>>

\* ... then send the verdict, and go on with the next held packet if any.
nfq_set_verdict2 ==
    LET id == Head(todo)
    IN
    /\ pc = "send"
    /\ out' = Append(out, Accept(id, IF lock = "rwnd" THEN tune_rwnd ELSE hdr[id].win))
    /\ stale' = IF m = mark THEN stale ELSE stale + 1
    /\ todo' = Tail(todo)
    /\ IF Len(todo) = 1 THEN pc' = "recv" /\ lock' = "none"
                        ELSE pc' = mark_reloaded /\ UNCHANGED lock
    /\ UNCHANGED <<mark, drop_vars, reorder_vars, do_dedup, rwnd_vars, m, hdr,
                   calls, ack0>>

-----------------------------------------------------------------------------
(* The scheduler thread. *)

Call == calls < MaxCalls /\ calls' = calls + 1

worker_set_mark(new) ==
    /\ Call
    /\ mark' = new
    /\ stale' = 0
    /\ UNCHANGED <<drop_vars, reorder_vars, do_dedup, rwnd_vars, thread_vars,
                   kernel_vars, ack0>>

worker_set_drop(n) ==
    /\ Call
    /\ do_drop' = TRUE
    /\ drop_count' = n
    /\ UNCHANGED <<mark, reorder_vars, do_dedup, rwnd_vars, thread_vars,
                   kernel_vars, stale, ack0>>

\* count and offset arrive as uint16_t, and the parser enables only.  The
\* held packets' ids are overwritten from reorder_ids[0] on.
worker_set_reorder(count, offset) ==
    /\ lock # "reorder"
    /\ Overlap \/ ~do_reorder
    /\ Call
    /\ do_reorder' = TRUE
    /\ reorder_count' = capped_count(count)
    /\ reorder_offset' = offset % U16
    /\ reorder_ids' = <<>>
    /\ UNCHANGED <<mark, drop_vars, do_dedup, rwnd_vars, thread_vars,
                   kernel_vars, stale, ack0>>

worker_set_dedup(enable) ==
    /\ Call
    /\ do_dedup' = enable
    /\ UNCHANGED <<mark, drop_vars, reorder_vars, rwnd_vars, thread_vars,
                   kernel_vars, stale, ack0>>

worker_init_tcp_sched(enable) ==
    /\ rwnd_lock_free
    /\ Call
    /\ do_rwnd' = enable
    /\ UNCHANGED <<mark, drop_vars, reorder_vars, do_dedup, tune_rwnd, last_ack,
                   thread_vars, kernel_vars, stale, ack0>>

\* Also what worker_sol_update, worker_set_burst, worker_set_adapt and the
\* sampler do to the verdict path.
worker_set_rwnd(w) ==
    /\ rwnd_lock_free
    /\ Call
    /\ tune_rwnd' = w
    /\ UNCHANGED <<mark, drop_vars, reorder_vars, do_dedup, do_rwnd, last_ack,
                   thread_vars, kernel_vars, stale, ack0>>

-----------------------------------------------------------------------------
NfqThread ==
    \/ worker_callback
    \/ worker_handle_drop
    \/ worker_handle_reorder
    \/ worker_skip_reorder
    \/ worker_handle_dedup
    \/ worker_handle_rwnd
    \/ load_mark
    \/ nfq_set_verdict2

SchedulerThread ==
    \/ \E new \in Marks : worker_set_mark(new)
    \/ \E n \in Drops : worker_set_drop(n)
    \/ \E c \in Counts, o \in Offsets : worker_set_reorder(c, o)
    \/ \E b \in BOOLEAN : worker_set_dedup(b)
    \/ \E b \in BOOLEAN : worker_init_tcp_sched(b)
    \/ \E w \in Windows : worker_set_rwnd(w)

Next == NfqThread \/ SchedulerThread

Spec == Init /\ [][Next]_vars

-----------------------------------------------------------------------------
(* Properties. *)

Ids     == 1 .. Len(hdr)
SentIds == {out[i].id : i \in DOMAIN out}

\* Packets in the hands of the callback: between two handlers, or listed for
\* acceptance and not sent yet.
InCallback ==
    IF pc \in {"drop", "reorder", "dedup", "rwnd"} THEN {Current} ELSE ToSet(todo)

Verdicts == [id : Nat, verdict : {"accept", "drop"}, mark : Nat, win : Nat,
             why : {"pass", "loss", "dup"}]

\* Every field of worker_ctx keeps its type, ids are ids of packets that
\* arrived, the thread has a packet exactly when it is between two handlers,
\* and it keeps a mutex only while it sends.
TypeOK ==
    /\ mark \in Nat /\ m \in Nat
    /\ do_drop \in BOOLEAN /\ drop_count \in Int
    /\ do_reorder \in BOOLEAN /\ reorder_count \in Int /\ reorder_offset \in Int
    /\ reorder_ids \in Seq(Ids)
    /\ do_dedup \in BOOLEAN
    /\ do_rwnd \in BOOLEAN /\ tune_rwnd \in Nat /\ last_ack \in AckValues
    /\ pc \in {"recv", "drop", "reorder", "dedup", "rwnd", "load", "send"}
    /\ lock \in {"none", "reorder", "rwnd"}
    /\ todo \in Seq(Ids)
    /\ hdr \in Seq(Headers) /\ out \in Seq(Verdicts)
    /\ calls \in Nat /\ stale \in Nat /\ ack0 \in AckValues
    /\ (todo # <<>>) <=> (pc \in {"load", "send"})
    /\ pc \in {"drop", "reorder", "dedup", "rwnd"} => hdr # <<>>
    /\ lock # "none" => pc \in {"load", "send"}
    /\ lock = "rwnd" => Len(todo) = 1

\* No packet is given two verdicts (the kernel forgets an id at the first
\* one): not by two handlers of one callback, not by the release loop and a
\* handler, whatever the scheduler thread arms in between.
OneVerdict == \A i, j \in DOMAIN out : out[i].id = out[j].id => i = j

\* A packet that was handed to the callback has its verdict, or the callback
\* or the reorder buffer still knows it: none is left in the kernel for ever.
NoPacketForgotten == Ids \subseteq SentIds \cup InCallback \cup ToSet(reorder_ids)

\* reorder_ids[reorder_id_cur++] never writes past the array, which has
\* WORKER_MAX_REORDER_COUNT elements: what is held and what may still be held
\* fits, however the setter interrupts a hold.
ReorderWithinBuffer ==
    /\ Len(reorder_ids) <= WORKER_MAX_REORDER_COUNT
    /\ do_reorder /\ reorder_count > 0 =>
          Len(reorder_ids) + reorder_count <= WORKER_MAX_REORDER_COUNT

\* After worker_set_mark returns, at most one verdict still carries an older
\* mark, even when a release of many held packets is under way: the flow moves
\* to the new link with the next packet.
AtMostOneStaleMark == stale <= 1

\* Duplicate suppression never removes the first copy of an acknowledgement:
\* the sender was given that number before, or it is the number that happened
\* to be in memory when the context was allocated.
DroppedAckWasDelivered ==
    \A i \in DOMAIN out : out[i].why = "dup" =>
        \/ hdr[out[i].id].ack = ack0
        \/ \E j \in 1 .. i - 1 : /\ out[j].verdict = "accept"
                                /\ hdr[out[j].id].ack = hdr[out[i].id].ack

\* The window a packet leaves with is never above the one the peer advertised,
\* even when the controller changes tune_rwnd while the packet is rewritten.
WindowNeverRaised ==
    \A i \in DOMAIN out : out[i].verdict = "accept" => out[i].win <= hdr[out[i].id].win

\* The packet repeats the acknowledgement of the one before it, which was
\* accepted, and carries no payload.
RepeatedAck ==
    /\ Current > 1
    /\ Header.tcp /\ Header.pure
    /\ hdr[Current - 1].tcp /\ hdr[Current - 1].ack = Header.ack
    /\ \E i \in DOMAIN out : out[i].id = Current - 1 /\ out[i].verdict = "accept"

\* What SOL_HANDLEDUP documents: while suppression is on, an ack-only packet
\* that repeats the previous packet's number does not pass worker_handle_dedup.
RepeatedAckSuppressed ==
    [][pc = "dedup" /\ pc' = "rwnd" /\ do_dedup => ~RepeatedAck]_vars

\* The contract with the kernel queue and the trace: PacketFate.
Fate == INSTANCE PacketFate WITH
    Losses  <- Drops,
    arrived <- Len(hdr),
    sent    <- [i \in 1 .. Len(out) |-> [id |-> out[i].id, why |-> out[i].why]],
    loss    <- IF do_drop THEN drop_count ELSE 0

\* Every step of the worker is a step PacketFate allows: a verdict for a
\* packet that waits for one, a loss that was armed and not used up, or
\* nothing that either the kernel or the trace can see.
ImplementsPacketFate == Fate!Spec

=============================================================================
