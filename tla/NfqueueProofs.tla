--------------------------- MODULE NfqueueProofs ----------------------------
(* The gap of a handover, for every number of packets, calls and errors. *)
EXTENDS Nfqueue, SequenceTheorems, TLAPS

\* The strengthening of AtMostOneStraggler: a running queue owes nothing, a thread
\* that is still on its way to a verdict in a gap is the first to give one, and until
\* it does the worker holds what it held when the gap began.  A context that is dead
\* before its teardown has garbage in its status word, and has given no verdict.
GapInv ==
    /\ status \in Statuses /\ late \in {0, 1}
    /\ held \in Nat /\ sent \in Nat /\ kept \in Nat
    /\ sent <= kept + late /\ (late = 0 => sent = 0)
    /\ status = "NFQ_STOPPED" /\ late = 0 => kept = held
    /\ status \in {"NFQ_RUNNING", "OTHER"} => late = 0
    /\ status = "NFQ_STOPPED" /\ thread \in {"recv", "blocked", "callback"} => late = 0
    /\ status = "NFQ_DEAD" /\ sched = "idle" => late = 0
    /\ queue = "none" => thread = "none" /\ late = 0 /\ held = 0 /\ kept = 0

LEMMA VerdictsOfCallback ==
    ASSUME NEW h \in Nat, NEW k \in Nat, k <= h + 1
    PROVE  0 + (h + 1 - k) \in Nat /\ 0 + (h + 1 - k) <= h + 1
  OBVIOUS

LEMMA NextGap == GapInv /\ [Next]_vars => GapInv'
  <1> SUFFICES ASSUME GapInv, [Next]_vars PROVE GapInv'
    OBVIOUS
  <1> USE DEF GapInv, Statuses, gap_vars
  <1>1. CASE packet_arrives
    BY <1>1 DEF packet_arrives, sched_vars
  <1>2. CASE nfq_run_check
    BY <1>2 DEF nfq_run_check, stopped_thread_polls, kernel_vars, sched_vars
  <1>3. CASE nfq_run_recv_blocks
    BY <1>3 DEF nfq_run_recv_blocks, kernel_vars, sched_vars
  <1>4. CASE nfq_run_recv
    BY <1>4 DEF nfq_run_recv, next_message, sched_vars
  <1>5. CASE nfq_run_recv_error
    BY <1>5 DEF nfq_run_recv_error, after_error, kernel_vars, sched_vars
  <1>6. CASE nfq_run_callback
    <2>1. /\ held' \in Nat /\ held' <= held + 1 /\ thread = "callback" /\ thread' = "check"
          /\ UNCHANGED <<status, queue, sched, kept>>
      BY <1>6 DEF nfq_run_callback, held_after, next_message, sched_vars
    <2>2. queue # "none"
      BY <2>1
    <2>3. CASE status = "NFQ_STOPPED"
      <3>1. late = 0 /\ sent = 0 /\ kept = held /\ held \in Nat
        BY <2>1, <2>3
      <3>2. late' = late + 1 /\ sent' = sent + (held + 1 - held')
        BY <1>6, <2>3 DEF nfq_run_callback
      <3>3. late' = 1 /\ sent' \in Nat /\ sent' <= kept + late' /\ kept' = kept /\ kept \in Nat
        <4> HIDE DEF GapInv
        <4>1. late' = 1
          BY <3>1, <3>2
        <4>2. sent' \in Nat /\ sent' <= held + 1
          <5>1. held' \in Nat /\ held' <= held + 1 /\ held \in Nat /\ sent = 0
            BY <2>1, <3>1
          <5>2. sent' = 0 + (held + 1 - held')
            BY <3>2, <5>1
          <5> QED BY <5>1, <5>2, VerdictsOfCallback
        <4>3. kept' = kept /\ kept = held
          BY <2>1, <3>1
        <4> QED BY <3>1, <4>1, <4>2, <4>3
      <3>4. /\ status' = "NFQ_STOPPED" /\ thread' = "check" /\ queue' # "none"
            /\ held' \in Nat
        BY <2>1, <2>2, <2>3
      <3> QED BY <3>3, <3>4
    <2>4. CASE status # "NFQ_STOPPED"
      <3>1. late' = late /\ sent' = sent
        BY <1>6, <2>4 DEF nfq_run_callback
      <3> QED BY <2>1, <2>2, <2>4, <3>1
    <2> QED BY <2>3, <2>4
  <1>7. CASE action_init_nfqueue
    BY <1>7, QueueAssumption DEF action_init_nfqueue
  <1>8. CASE nfq_start
    BY <1>8 DEF nfq_start, kernel_vars
  <1>9. CASE nfq_stop
    BY <1>9 DEF nfq_stop, kernel_vars
  <1>10. CASE nfq_teardown
    BY <1>10 DEF nfq_teardown, kernel_vars
  <1>11. CASE nfq_destroy_queue
    BY <1>11 DEF nfq_destroy_queue
  <1>12. CASE nfq_close
    BY <1>12 DEF nfq_close, kernel_vars
  <1>13. CASE worker_destroy_ctx
    BY <1>13 DEF worker_destroy_ctx, kernel_vars
  <1>14. CASE UNCHANGED vars
    BY <1>14 DEF vars, kernel_vars, sched_vars
  <1> QED
    BY <1>1, <1>2, <1>3, <1>4, <1>5, <1>6, <1>7, <1>8, <1>9, <1>10, <1>11, <1>12, <1>13, <1>14
       DEF Next, nfq_run, Scheduler

\* In a gap the callback is run for at most one packet, and beyond that packet's
\* verdict only packets that worker_handle_reorder held before the gap get one, whatever
\* garbage the status word starts with and however the gaps of several handovers overlap.
THEOREM OneStragglerPerGap == Spec => []AtMostOneStraggler
  <1>1. Init => GapInv
    BY DEF Init, GapInv, Statuses
  <1>2. GapInv => AtMostOneStraggler
    BY DEF GapInv, AtMostOneStraggler
  <1> QED
    BY <1>1, <1>2, NextGap, PTL DEF Spec

-----------------------------------------------------------------------------
(* Packets waiting in the kernel. *)

\* The strengthening of EveryWaitingPacketIsReachable: no message in the
\* socket is too long for the buffer recv is given.
ReachInv ==
    /\ sock \in Seq(Nat) /\ waiting \in Int /\ held \in Nat
    /\ \A i \in 1 .. Len(sock) : sock[i] <= NFQ_MSG_BUF
    /\ EveryWaitingPacketIsReachable
    /\ queue = "none" => thread = "none" /\ sock = <<>> /\ waiting = 0 /\ held = 0
    /\ queue = "bound" => fd = "open"
    /\ sched \in {"close", "destroy_worker", "done"} => queue = "destroyed"

\* The copy range and the static assertion together bound a message.
LEMMA MessageFits ==
    ASSUME NEW len \in Lengths
    PROVE  message_size(len) \in Nat /\ message_size(len) <= NFQ_MSG_BUF
  BY QueueAssumption DEF message_size

LEMMA NextReach == ReachInv /\ [Next]_vars => ReachInv'
  <1> SUFFICES ASSUME ReachInv, [Next]_vars PROVE ReachInv'
    OBVIOUS
  <1> USE DEF ReachInv, EveryWaitingPacketIsReachable, sched_vars
  <1>1. CASE packet_arrives
    <2>1. CASE waiting < NFQ_QUEUE_SIZE
      <3>1. PICK len \in Lengths : sock' = Append(sock, message_size(len))
        BY <1>1, <2>1 DEF packet_arrives
      <3>2. message_size(len) \in Nat /\ message_size(len) <= NFQ_MSG_BUF
        BY MessageFits
      <3>3. /\ sock' \in Seq(Nat) /\ Len(sock') = Len(sock) + 1 /\ Len(sock) \in Nat
            /\ \A i \in 1 .. Len(sock) : sock'[i] = sock[i]
            /\ sock'[Len(sock) + 1] = message_size(len)
        BY <3>1, <3>2, AppendProperties
      <3>4. \A i \in 1 .. Len(sock') : sock'[i] <= NFQ_MSG_BUF
        <4> SUFFICES ASSUME NEW i \in 1 .. Len(sock') PROVE sock'[i] <= NFQ_MSG_BUF
          OBVIOUS
        <4>1. i \in 1 .. Len(sock) \/ i = Len(sock) + 1
          BY <3>3
        <4> QED BY <3>2, <3>3, <4>1
      <3> QED
        BY <1>1, <2>1, <3>3, <3>4 DEF packet_arrives
    <2>2. CASE ~(waiting < NFQ_QUEUE_SIZE)
      BY <1>1, <2>2 DEF packet_arrives
    <2> QED BY <2>1, <2>2
  <1>2. CASE nfq_run_check
    BY <1>2 DEF nfq_run_check, stopped_thread_polls, kernel_vars
  <1>3. CASE nfq_run_recv_blocks
    BY <1>3 DEF nfq_run_recv_blocks, kernel_vars
  <1>4. CASE nfq_run_recv
    <2>1. /\ Len(sock) \in Nat \ {0} /\ Head(sock) = sock[1]
          /\ sock' \in Seq(Nat) /\ Len(sock') = Len(sock) - 1
          /\ \A i \in 1 .. Len(sock') : sock'[i] = sock[i + 1]
      BY <1>4, EmptySeq, HeadTailProperties DEF nfq_run_recv
    <2>2. thread' = "callback" /\ thread # "callback" /\ queue # "none"
      <3>1. Head(sock) <= NFQ_MSG_BUF
        BY <2>1
      <3>2. thread \in {"recv", "blocked"} /\ sock # <<>>
        BY <1>4 DEF nfq_run_recv
      <3> QED BY <1>4, <3>1, <3>2 DEF nfq_run_recv
    <2>3. \A i \in 1 .. Len(sock') : sock'[i] <= NFQ_MSG_BUF
      <3> SUFFICES ASSUME NEW i \in 1 .. Len(sock') PROVE sock'[i] <= NFQ_MSG_BUF
        OBVIOUS
      <3>1. i + 1 \in 1 .. Len(sock)
        BY <2>1
      <3> QED BY <2>1, <3>1
    <2>4. UNCHANGED <<queue, waiting, held, fd, sched>>
      BY <1>4 DEF nfq_run_recv
    <2> QED
      BY <2>1, <2>2, <2>3, <2>4
  <1>5. CASE nfq_run_recv_error
    BY <1>5 DEF nfq_run_recv_error, after_error, kernel_vars
  <1>6. CASE nfq_run_callback
    <2>1. /\ held' \in Nat /\ thread = "callback" /\ thread' = "check"
          /\ UNCHANGED <<queue, sock, fd, sched>>
      BY <1>6 DEF nfq_run_callback, held_after, next_message
    <2>2. queue = "bound" => waiting' = waiting - (held + 1 - held')
      BY <1>6 DEF nfq_run_callback
    <2>3. /\ waiting' \in Int /\ Len(sock) \in Nat /\ held \in Nat /\ queue # "none"
          /\ queue = "bound" => waiting = Len(sock) + held + 1
      BY <1>6, <2>1 DEF nfq_run_callback
    <2>4. queue = "bound" => waiting' = Len(sock) + held' + 0
      BY <2>1, <2>2, <2>3
    <2>5. EveryWaitingPacketIsReachable'
      BY <2>1, <2>4
    <2> HIDE DEF EveryWaitingPacketIsReachable
    <2> QED BY <2>1, <2>3, <2>5
  <1>7. CASE action_init_nfqueue
    <2>1. Len(<<>>) = 0
      BY EmptySeq
    <2> QED BY <1>7, <2>1 DEF action_init_nfqueue
  <1>8. CASE nfq_start
    BY <1>8 DEF nfq_start, kernel_vars
  <1>9. CASE nfq_stop
    BY <1>9 DEF nfq_stop, kernel_vars
  <1>10. CASE nfq_teardown
    BY <1>10 DEF nfq_teardown, kernel_vars
  <1>11. CASE nfq_destroy_queue
    BY <1>11 DEF nfq_destroy_queue
  <1>12. CASE nfq_close
    BY <1>12 DEF nfq_close, kernel_vars
  <1>13. CASE worker_destroy_ctx
    BY <1>13 DEF worker_destroy_ctx, kernel_vars
  <1>14. CASE UNCHANGED vars
    BY <1>14 DEF vars, kernel_vars
  <1> QED
    BY <1>1, <1>2, <1>3, <1>4, <1>5, <1>6, <1>7, <1>8, <1>9, <1>10, <1>11, <1>12, <1>13, <1>14
       DEF Next, nfq_run, Scheduler

\* For any packet lengths and any queue length, NFQ_MSG_BUF is large enough
\* that every packet the kernel keeps is in the socket, in the callback or held by
\* the worker: the queue does not silently back up.
THEOREM NothingStranded == Spec => []EveryWaitingPacketIsReachable
  <1>1. Init => ReachInv
    <2> SUFFICES ASSUME Init PROVE ReachInv
      OBVIOUS
    <2>1. sock \in Seq(Nat) /\ Len(sock) = 0
      BY EmptySeq DEF Init
    <2> QED
      BY <2>1 DEF Init, ReachInv, EveryWaitingPacketIsReachable
  <1>2. ReachInv => EveryWaitingPacketIsReachable
    BY DEF ReachInv
  <1> QED
    BY <1>1, <1>2, NextReach, PTL DEF Spec

=============================================================================
