------------------------------ MODULE GapProofs ------------------------------
(* What a handover does to the packets that wait during its gap, for every row, *)
(* every number of packets and every interleaving of the two threads.           *)
EXTENDS Gap, WorkerProofs, FiniteSetTheorems

EventNames == {"stop_nfqueue", "set_mark", "set_drop", "set_reorder", "start_nfqueue"}

Pending(e) == \E i \in 1 .. Len(todo_events) : todo_events[i] = e

\* The row, one with a gap, and what is left of its events: each at most once,
\* stop_nfqueue before and start_nfqueue after all others.
RowInv ==
    /\ row.gap > 0
    /\ row.mark \in Marks /\ row.loss \in Nat /\ row.cnt \in Nat /\ row.offset \in Offsets
    /\ Pending("set_reorder") => row.cnt \in Counts /\ row.cnt > 0
    /\ Pending("set_drop") => row.loss > 0
    /\ todo_events \in Seq(EventNames)
    /\ Distinct(todo_events)
    /\ \A i \in 1 .. Len(todo_events) :
          /\ todo_events[i] = "stop_nfqueue" => i = 1
          /\ todo_events[Len(todo_events)] = "start_nfqueue"

\* The new mark is in force from set_mark on, and the verdict that the thread may
\* be about to send with an older one is for a packet from before the gap.
LinkInv ==
    /\ before \in Nat /\ before <= Len(hdr)
    /\ ~Pending("set_mark") => mark = row.mark
    /\ ~Pending("start_nfqueue") /\ pc = "send" => m = row.mark \/ Head(todo) <= before
    /\ ~Pending("start_nfqueue") =>
          \A i \in 1 .. Len(out) :
             out[i].verdict = "accept" /\ out[i].id > before => out[i].mark = row.mark

\* The thread has a packet that passed the stop, or waits for one.
Straggler == run = "recv" \/ pc = "drop"

\* Some packet has been lost.
SomeLoss == \E i \in 1 .. Len(out) : out[i].why = "loss"

\* Before the gap ends the loss is not armed, or it is whole and no packet is lost, or
\* the straggler has taken one packet of it and there is no other.
ArmedInv ==
    /\ run \in {"check", "recv"} /\ (run = "recv" => pc = "recv")
    /\ do_drop => drop_count > 0
    /\ Pending("start_nfqueue") /\ ~Pending("stop_nfqueue") => status = "NFQ_STOPPED"
    /\ Pending("stop_nfqueue") => row.loss = 0 \/ Pending("set_drop")
    /\ Pending("set_drop") => Left = 0
    /\ Pending("stop_nfqueue") \/ Pending("set_drop") => ~SomeLoss
    /\ Pending("start_nfqueue") /\ ~Pending("set_drop") =>
          \/ Left = row.loss /\ ~SomeLoss
          \/ Left = row.loss - 1 /\ SomeLoss /\ ~Straggler /\ ~Pending("stop_nfqueue")

\* The packets of the backlog that worker_handle_drop has seen.
Seen == Len(hdr) - before - (IF pc = "drop" THEN 1 ELSE 0)

\* The packet that the straggler takes of the loss.
EarlyLoss == \E i \in 1 .. Len(out) : out[i].why = "loss" /\ out[i].id <= before
Taken     == IF EarlyLoss THEN 1 ELSE 0

\* After the gap the lost packets of the backlog are its first k, and every packet
\* that was seen is lost as long as the loss is not used up.
LostFirst(k) ==
    /\ \A i \in 1 .. Len(out) : out[i].why = "loss" => out[i].id <= before + k
    /\ \A id \in before + 1 .. before + k :
          \E i \in 1 .. Len(out) : out[i].id = id /\ out[i].why = "loss"
    /\ Left + k = row.loss - Taken
    /\ IF Seen < 0 THEN k = 0 /\ Taken = 0
                   ELSE k <= Seen /\ (Left > 0 => k = Seen)

LossesInv == ~Pending("start_nfqueue") => \E k \in Nat : LostFirst(k)

-----------------------------------------------------------------------------
(* The row and the worker. *)

\* An event that runs was the first of those left.
LEMMA EventStep ==
    ASSUME RowInv, NEW e, Event(e)
    PROVE  /\ row' = row /\ run' = run
           /\ Pending(e)
           /\ \A f : Pending(f)' <=> Pending(f) /\ f # e
           /\ e # "stop_nfqueue" => ~Pending("stop_nfqueue")
           /\ e = "start_nfqueue" => \A f : ~Pending(f)'
           /\ RowInv'
  <1> DEFINE s == todo_events
  <1>1. /\ s \in Seq(EventNames) /\ s # <<>> /\ Head(s) = e /\ s' = Tail(s)
        /\ row' = row /\ run' = run
    BY DEF Event, RowInv
  <1>2. /\ Len(s) \in Nat \ {0} /\ Head(s) = s[1] /\ s' \in Seq(EventNames)
        /\ Len(s') = Len(s) - 1
        /\ \A i \in 1 .. Len(s') : s'[i] = s[i + 1]
    BY <1>1, EmptySeq, HeadTailProperties
  <1>3. /\ \A i, j \in 1 .. Len(s) : s[i] = s[j] => i = j
        /\ \A i \in 1 .. Len(s) : s[i] = "stop_nfqueue" => i = 1
        /\ s[Len(s)] = "start_nfqueue"
    <2>1. 1 \in 1 .. Len(s)
      BY <1>2
    <2> QED BY <2>1 DEF RowInv, Distinct
  <1> HIDE DEF s
  <1>4. /\ 1 \in 1 .. Len(s) /\ s[1] = e /\ Len(s) \in 1 .. Len(s)
        /\ \A i \in 1 .. Len(s') : i + 1 \in 1 .. Len(s) /\ i + 1 # 1
        /\ \A i \in 1 .. Len(s) : i # 1 => i - 1 \in 1 .. Len(s') /\ s'[i - 1] = s[i]
    BY <1>1, <1>2
  <1>5. \A i \in 1 .. Len(s') : s[i + 1] # e
    BY <1>3, <1>4
  <1>6. Pending(e)
    BY <1>4 DEF Pending, s
  <1>7. \A f : Pending(f)' <=> Pending(f) /\ f # e
    <2> SUFFICES ASSUME NEW f
                 PROVE  (\E i \in 1 .. Len(s') : s'[i] = f) <=> (\E i \in 1 .. Len(s) : s[i] = f) /\ f # e
      BY DEF Pending, s
    <2>1. ASSUME NEW i \in 1 .. Len(s'), s'[i] = f
          PROVE  (\E j \in 1 .. Len(s) : s[j] = f) /\ f # e
      BY <1>2, <1>4, <1>5, <2>1
    <2>2. ASSUME NEW i \in 1 .. Len(s), s[i] = f, f # e
          PROVE  \E j \in 1 .. Len(s') : s'[j] = f
      BY <1>4, <2>2
    <2> QED BY <2>1, <2>2
  <1>8. e # "stop_nfqueue" => ~Pending("stop_nfqueue")
    BY <1>3, <1>4 DEF Pending, s
  <1>9. e = "start_nfqueue" => \A f : ~Pending(f)'
    <2> SUFFICES ASSUME e = "start_nfqueue" PROVE Len(s') = 0
      BY DEF Pending, s
    <2>1. Len(s) = 1
      BY <1>3, <1>4
    <2> QED BY <1>2, <2>1
  <1>10. RowInv'
    <2>1. /\ row'.gap > 0
          /\ row'.mark \in Marks /\ row'.loss \in Nat /\ row'.cnt \in Nat /\ row'.offset \in Offsets
          /\ Pending("set_reorder")' => row'.cnt \in Counts /\ row'.cnt > 0
          /\ Pending("set_drop")' => row'.loss > 0
      BY <1>1, <1>7 DEF RowInv
    <2>2. \A i, j \in 1 .. Len(s') : s'[i] = s'[j] => i = j
      <3> SUFFICES ASSUME NEW i \in 1 .. Len(s'), NEW j \in 1 .. Len(s'), s'[i] = s'[j]
                   PROVE  i = j
        OBVIOUS
      <3>1. s[i + 1] = s[j + 1] /\ i + 1 \in 1 .. Len(s) /\ j + 1 \in 1 .. Len(s)
        BY <1>2, <1>4
      <3>2. i + 1 = j + 1
        BY <1>3, <3>1
      <3> QED BY <1>2, <3>2
    <2>3. \A i \in 1 .. Len(s') : s'[i] # "stop_nfqueue" /\ s'[Len(s')] = "start_nfqueue"
      <3> SUFFICES ASSUME NEW i \in 1 .. Len(s')
                   PROVE  s'[i] # "stop_nfqueue" /\ s'[Len(s')] = "start_nfqueue"
        OBVIOUS
      <3>1. Len(s') \in 1 .. Len(s') /\ Len(s') + 1 = Len(s)
        BY <1>2
      <3> QED BY <1>2, <1>3, <1>4, <3>1
    <2> QED BY <1>2, <2>1, <2>2, <2>3 DEF RowInv, Distinct, s
  <1> QED BY <1>1, <1>6, <1>7, <1>8, <1>9, <1>10

\* A step that runs no event leaves the row alone.
LEMMA NoEvent ==
    ASSUME RowInv, UNCHANGED <<row, todo_events>>
    PROVE  RowInv' /\ \A f : Pending(f)' <=> Pending(f)
  BY DEF RowInv, Pending, Distinct

Threads == nfq_run_check \/ nfq_run_recv \/ nfq_handle_packet

LEMMA NextRow == RowInv /\ [GapNext]_<<vars, gap_vars>> => RowInv'
  <1> SUFFICES ASSUME RowInv, [GapNext]_<<vars, gap_vars>> PROVE RowInv'
    OBVIOUS
  <1>1. CASE Threads \/ UNCHANGED <<vars, gap_vars>>
    BY <1>1, NoEvent DEF Threads, nfq_run_check, nfq_run_recv, nfq_handle_packet, gap_vars
  <1>2. CASE \E e \in EventNames : Event(e)
    BY <1>2, EventStep
  <1> QED BY <1>1, <1>2
          DEF GapNext, Threads, EventNames, action_stop_nfqueue, action_start_nfqueue,
              action_set_mark, action_set_drop, action_set_reorder

\* Every step is one of the worker, or arms the loss of the row.
LEMMA WorkerStep ==
    ASSUME RowInv, [GapNext]_<<vars, gap_vars>>
    PROVE  [Next]_vars \/ worker_set_drop(row.loss)
  <1>1. CASE nfq_run_check \/ action_stop_nfqueue \/ action_start_nfqueue
             \/ UNCHANGED <<vars, gap_vars>>
    <2>1. UNCHANGED vars
      BY <1>1 DEF nfq_run_check, action_stop_nfqueue, action_start_nfqueue
    <2> QED BY <2>1
  <1>2. CASE nfq_run_recv \/ nfq_handle_packet
    BY <1>2 DEF nfq_run_recv, nfq_handle_packet, Next, NfqThread
  <1>3. CASE action_set_mark
    BY <1>3 DEF action_set_mark, RowInv, Next, SchedulerThread
  <1>4. CASE action_set_drop
    BY <1>4 DEF action_set_drop
  <1>5. CASE action_set_reorder
    <2>1. row.cnt \in Counts /\ row.offset \in Offsets
      BY <1>5, EventStep DEF action_set_reorder, RowInv
    <2> QED BY <1>5, <2>1 DEF action_set_reorder, Next, SchedulerThread
  <1> QED BY <1>1, <1>2, <1>3, <1>4, <1>5 DEF GapNext

\* The loss of a reordering row is not one of those the trace gives, but it is a
\* number all the same.
LEMMA NextWorker ==
    TypeOK /\ VerdictInv /\ RowInv /\ [GapNext]_<<vars, gap_vars>> => TypeOK' /\ VerdictInv'
  <1> SUFFICES ASSUME TypeOK, VerdictInv, RowInv, [GapNext]_<<vars, gap_vars>>
               PROVE  TypeOK' /\ VerdictInv'
    OBVIOUS
  <1>1. CASE [Next]_vars
    BY <1>1, NextType, NextVerdict
  <1>2. CASE worker_set_drop(row.loss)
    <2>1. row.loss \in Nat
      BY DEF RowInv
    <2>2. TypeOK'
      BY <1>2, <2>1 DEF worker_set_drop, Call, TypeOK, Ids, reorder_vars, rwnd_vars, thread_vars,
                        kernel_vars
    <2>3. VerdictInv'
      BY <1>2 DEF worker_set_drop, VerdictInv, Fresh, Distinct, InHandler, Ids, Current,
                  reorder_vars, thread_vars, kernel_vars
    <2> QED BY <2>2, <2>3
  <1> QED BY <1>1, <1>2, WorkerStep

\* One more event at the end of a list.
LEMMA EventAdded ==
    ASSUME NEW s \in Seq(EventNames), NEW e \in EventNames
    PROVE  /\ s \o <<e>> \in Seq(EventNames) /\ Len(s) \in Nat /\ Len(s \o <<e>>) = Len(s) + 1
           /\ \A i \in 1 .. Len(s) : (s \o <<e>>)[i] = s[i]
           /\ (s \o <<e>>)[Len(s) + 1] = e
  <1>1. <<e>> \in Seq(EventNames) /\ Len(<<e>>) = 1 /\ <<e>>[1] = e
    OBVIOUS
  <1> HIDE <1>1
  <1>2. s \o <<e>> \in Seq(EventNames) /\ Len(s \o <<e>>) = Len(s) + 1 /\ Len(s) \in Nat
    BY <1>1, ConcatProperties
  <1>3. \A i \in 1 .. Len(s) + 1 : (s \o <<e>>)[i] = IF i <= Len(s) THEN s[i] ELSE <<e>>[i - Len(s)]
    BY <1>1, <1>2, ConcatProperties
  <1>4. (Len(s) + 1) - Len(s) = 1
    BY <1>2
  <1> QED BY <1>1, <1>2, <1>3, <1>4

\* The list of a row with a gap: stop_nfqueue first, then the others in their order, each at
\* most once, start_nfqueue last.
LEMMA HoEvents ==
    ASSUME NEW r, r.gap > 0, r.loss \in Nat, r.cnt \in Nat
    PROVE  LET s == ho_events(r)
           IN  /\ s \in Seq(EventNames) /\ Len(s) \in 3 .. 5
               /\ s[1] = "stop_nfqueue" /\ s[2] = "set_mark" /\ s[Len(s)] = "start_nfqueue"
               /\ Distinct(s)
               /\ (\E i \in 1 .. Len(s) : s[i] = "set_drop") <=> r.loss > 0
               /\ (\E i \in 1 .. Len(s) : s[i] = "set_reorder") <=> r.cnt > 0
  <1> DEFINE s1 == <<"stop_nfqueue", "set_mark">>
             s2 == s1 \o (IF r.loss > 0 THEN <<"set_drop">> ELSE <<>>)
             s3 == s2 \o (IF r.cnt > 0 THEN <<"set_reorder">> ELSE <<>>)
             s4 == s3 \o <<"start_nfqueue">>
  <1>0. ho_events(r) = s4
    BY DEF ho_events, with_faults
  <1>1. s1 \in Seq(EventNames) /\ Len(s1) = 2 /\ s1[1] = "stop_nfqueue" /\ s1[2] = "set_mark"
        /\ {"set_drop", "set_reorder", "start_nfqueue"} \subseteq EventNames
    BY DEF EventNames
  <1> HIDE DEF s1
  <1>2. /\ s2 \in Seq(EventNames) /\ s2[1] = "stop_nfqueue" /\ s2[2] = "set_mark"
        /\ r.loss > 0 => Len(s2) = 3 /\ s2[3] = "set_drop"
        /\ ~(r.loss > 0) => Len(s2) = 2
    <2>1. CASE r.loss > 0
      <3>1. s2 = s1 \o <<"set_drop">>
        BY <2>1
      <3> HIDE DEF s2
      <3>2. /\ s2 \in Seq(EventNames) /\ Len(s2) = Len(s1) + 1 /\ s2[Len(s1) + 1] = "set_drop"
            /\ \A i \in 1 .. Len(s1) : s2[i] = s1[i]
        BY <1>1, <3>1, EventAdded
      <3>3. Len(s2) = 3 /\ s2[3] = "set_drop" /\ s2[1] = s1[1] /\ s2[2] = s1[2]
        BY <1>1, <3>2
      <3> QED BY <1>1, <2>1, <3>2, <3>3
    <2>2. CASE ~(r.loss > 0)
      <3>1. s2 = s1
        BY <1>1, <2>2, ConcatEmptySeq
      <3> HIDE DEF s2
      <3> QED BY <1>1, <2>2, <3>1
    <2> QED BY <2>1, <2>2
  <1> HIDE DEF s2
  <1>3. /\ s3 \in Seq(EventNames) /\ s3[1] = "stop_nfqueue" /\ s3[2] = "set_mark"
        /\ Len(s2) \in {2, 3}
        /\ Len(s2) = 3 => s3[3] = s2[3]
        /\ r.cnt > 0 => Len(s3) = Len(s2) + 1 /\ s3[Len(s2) + 1] = "set_reorder"
        /\ ~(r.cnt > 0) => Len(s3) = Len(s2)
    <2>1. CASE r.cnt > 0
      <3>1. s3 = s2 \o <<"set_reorder">>
        BY <2>1
      <3> HIDE DEF s3
      <3> QED BY <1>1, <1>2, <2>1, <3>1, EventAdded
    <2>2. CASE ~(r.cnt > 0)
      <3>1. s3 = s2
        BY <1>2, <2>2, ConcatEmptySeq
      <3> HIDE DEF s3
      <3> QED BY <1>2, <2>2, <3>1
    <2> QED BY <2>1, <2>2
  <1> HIDE DEF s3
  <1>4. /\ s4 \in Seq(EventNames) /\ Len(s4) = Len(s3) + 1
        /\ \A i \in 1 .. Len(s3) : s4[i] = s3[i]
        /\ s4[Len(s3) + 1] = "start_nfqueue"
    BY <1>1, <1>3, EventAdded
  <1> HIDE DEF s4
  <1>5. /\ s4[1] = "stop_nfqueue" /\ s4[2] = "set_mark" /\ Len(s3) \in 2 .. 4
        /\ \/ /\ r.loss > 0 /\ r.cnt > 0 /\ Len(s4) = 5
              /\ s4[3] = "set_drop" /\ s4[4] = "set_reorder" /\ s4[5] = "start_nfqueue"
           \/ /\ r.loss > 0 /\ ~(r.cnt > 0) /\ Len(s4) = 4
              /\ s4[3] = "set_drop" /\ s4[4] = "start_nfqueue"
           \/ /\ ~(r.loss > 0) /\ r.cnt > 0 /\ Len(s4) = 4
              /\ s4[3] = "set_reorder" /\ s4[4] = "start_nfqueue"
           \/ /\ ~(r.loss > 0) /\ ~(r.cnt > 0) /\ Len(s4) = 3 /\ s4[3] = "start_nfqueue"
    <2>1. CASE r.loss > 0 /\ r.cnt > 0
      <3>a. Len(s2) = 3
        BY <1>2, <2>1
      <3>0. Len(s2) = 3 /\ Len(s2) + 1 = 4
        BY <3>a
      <3>1. Len(s3) = 4 /\ s3[3] = "set_drop" /\ s3[4] = "set_reorder"
        BY <1>2, <1>3, <2>1, <3>0
      <3> QED BY <1>3, <1>4, <2>1, <3>1
    <2>2. CASE r.loss > 0 /\ ~(r.cnt > 0)
      <3>1. Len(s3) = 3 /\ s3[3] = "set_drop"
        BY <1>2, <1>3, <2>2
      <3> QED BY <1>3, <1>4, <2>2, <3>1
    <2>3. CASE ~(r.loss > 0) /\ r.cnt > 0
      <3>a. Len(s2) = 2
        BY <1>2, <2>3
      <3>0. Len(s2) = 2 /\ Len(s2) + 1 = 3
        BY <3>a
      <3>1. Len(s3) = 3 /\ s3[3] = "set_reorder"
        BY <1>2, <1>3, <2>3, <3>0
      <3> QED BY <1>3, <1>4, <2>3, <3>1
    <2>4. CASE ~(r.loss > 0) /\ ~(r.cnt > 0)
      <3>1. Len(s3) = 2
        BY <1>2, <1>3, <2>4
      <3> QED BY <1>3, <1>4, <2>4, <3>1
    <2> QED BY <2>1, <2>2, <2>3, <2>4
  <1>6. Distinct(s4)
    BY <1>5 DEF Distinct
  <1>7. /\ (\E i \in 1 .. Len(s4) : s4[i] = "set_drop") <=> r.loss > 0
        /\ (\E i \in 1 .. Len(s4) : s4[i] = "set_reorder") <=> r.cnt > 0
    BY <1>5
  <1>8. s4[Len(s4)] = "start_nfqueue" /\ Len(s4) \in 3 .. 5
    BY <1>5
  <1> QED BY <1>0, <1>4, <1>5, <1>6, <1>7, <1>8

\* The events of a row, as RowInv wants them.
LEMMA InitRow == GapInit /\ row.gap > 0 =>
                            RowInv /\ Pending("stop_nfqueue") /\ Pending("start_nfqueue")
                            /\ Pending("set_mark") /\ (row.loss > 0 => Pending("set_drop"))
                            /\ (row.cnt > 0 => Pending("set_reorder"))
  <1> SUFFICES ASSUME GapInit, row.gap > 0
               PROVE  RowInv /\ Pending("stop_nfqueue") /\ Pending("start_nfqueue")
                      /\ Pending("set_mark") /\ (row.loss > 0 => Pending("set_drop"))
                      /\ (row.cnt > 0 => Pending("set_reorder"))
    OBVIOUS
  <1>1. PICK new \in Marks, g \in Gaps, l \in Drops \cup {0}, c \in Counts \cup {0}, o \in Offsets :
           row = [mark |-> new, gap |-> g, loss |-> drop_cnt(l, c), cnt |-> c, offset |-> o]
    BY DEF GapInit
  <1>2. l \in Nat /\ c \in Nat
    BY ParametersAssumption
  <1>3. drop_cnt(l, c) \in Nat
    BY <1>2, LossExtraAssumption DEF drop_cnt
  <1>4. /\ row.mark \in Marks /\ row.loss \in Nat /\ row.cnt \in Nat /\ row.offset \in Offsets
        /\ row.cnt > 0 => row.cnt \in Counts
    BY <1>1, <1>2, <1>3
  <1>5. todo_events = ho_events(row)
    BY DEF GapInit
  <1>6. /\ todo_events \in Seq(EventNames) /\ Len(todo_events) \in 3 .. 5
        /\ todo_events[1] = "stop_nfqueue" /\ todo_events[2] = "set_mark"
        /\ todo_events[Len(todo_events)] = "start_nfqueue"
        /\ Distinct(todo_events)
        /\ Pending("set_drop") <=> row.loss > 0
        /\ Pending("set_reorder") <=> row.cnt > 0
    BY <1>4, <1>5, HoEvents DEF Pending
  <1>7. 1 \in 1 .. Len(todo_events) /\ 2 \in 1 .. Len(todo_events)
        /\ Len(todo_events) \in 1 .. Len(todo_events)
    BY <1>6
  <1>8. Pending("stop_nfqueue") /\ Pending("start_nfqueue") /\ Pending("set_mark")
    BY <1>6, <1>7 DEF Pending
  <1>9. \A i \in 1 .. Len(todo_events) : todo_events[i] = "stop_nfqueue" => i = 1
    BY <1>6, <1>7 DEF Distinct
  <1> QED BY <1>4, <1>6, <1>8, <1>9 DEF RowInv

-----------------------------------------------------------------------------
(* The new link. *)

LEMMA StartLast ==
    ASSUME RowInv, NEW e, Pending(e)
    PROVE  Pending("start_nfqueue")
  <1>1. PICK i \in 1 .. Len(todo_events) : todo_events[i] = e
    BY DEF Pending
  <1>2. todo_events[Len(todo_events)] = "start_nfqueue" /\ Len(todo_events) \in Nat
    BY <1>1 DEF RowInv
  <1>3. Len(todo_events) \in 1 .. Len(todo_events)
    BY <1>1, <1>2
  <1> QED BY <1>2, <1>3 DEF Pending

\* A verdict that is sent now.
LEMMA LinkVerdict ==
    ASSUME TypeOK, LinkInv, NEW v \in Verdicts, out' = Append(out, v),
           hdr' = hdr, UNCHANGED <<mark, gap_vars>>, pc' # "send",
           ~Pending("start_nfqueue") /\ v.verdict = "accept" /\ v.id > before => v.mark = row.mark
    PROVE  LinkInv'
  <1>1. /\ Len(out) \in Nat /\ Len(out') = Len(out) + 1
        /\ \A i \in 1 .. Len(out) : out'[i] = out[i]
        /\ out'[Len(out) + 1] = v
        /\ \A i \in 1 .. Len(out') : i \in 1 .. Len(out) \/ i = Len(out) + 1
    BY OneMore
  <1>2. ASSUME ~Pending("start_nfqueue"), NEW i \in 1 .. Len(out'),
               out'[i].verdict = "accept", out'[i].id > before
        PROVE  out'[i].mark = row.mark
    <2>1. CASE i \in 1 .. Len(out)
      BY <1>1, <1>2, <2>1 DEF LinkInv
    <2>2. CASE i = Len(out) + 1
      BY <1>1, <1>2, <2>2
    <2> QED BY <1>1, <2>1, <2>2
  <1>3. \A f : Pending(f)' <=> Pending(f)
    BY DEF Pending, gap_vars
  <1> QED BY <1>2, <1>3 DEF LinkInv, gap_vars

LEMMA NextLink ==
    TypeOK /\ VerdictInv /\ RowInv /\ LinkInv /\ [GapNext]_<<vars, gap_vars>> => LinkInv'
  <1> SUFFICES ASSUME TypeOK, VerdictInv, RowInv, LinkInv, [GapNext]_<<vars, gap_vars>>
               PROVE  LinkInv'
    OBVIOUS
  <1>0. Len(hdr) \in Nat
    BY DEF TypeOK
  <1>1. CASE nfq_run_check \/ UNCHANGED <<vars, gap_vars>>
    <2>1. UNCHANGED <<mark, pc, m, todo, hdr, out, row, todo_events, before>>
      BY <1>1 DEF nfq_run_check, vars, thread_vars, kernel_vars, gap_vars
    <2> QED BY <2>1 DEF LinkInv, Pending
  <1>2. CASE nfq_run_recv
    <2>1. UNCHANGED <<mark, m, todo, out, row, todo_events, before>> /\ pc' = "drop"
      BY <1>2 DEF nfq_run_recv, worker_callback
    <2>2. Len(hdr') = Len(hdr) + 1
      <3>1. PICK h \in Headers : hdr' = Append(hdr, h)
        BY <1>2 DEF nfq_run_recv, worker_callback
      <3> QED BY <3>1, AppendProperties DEF TypeOK
    <2>3. before \in Nat /\ before <= Len(hdr')
      BY <1>0, <2>2 DEF LinkInv
    <2> QED BY <2>1, <2>3 DEF LinkInv, Pending
  <1>3. CASE nfq_handle_packet
    <2> USE <1>3 DEF nfq_handle_packet
    <2>0. UNCHANGED gap_vars /\ \A f : Pending(f)' <=> Pending(f)
      BY NoEvent DEF gap_vars
    <2>1. CASE load_mark
      <3>1. UNCHANGED <<mark, todo, out, hdr>> /\ m' = mark
        BY <2>1 DEF load_mark, kernel_vars
      <3>2. ~Pending("start_nfqueue") => m' = row.mark
        BY <3>1, StartLast DEF LinkInv
      <3> QED BY <2>0, <3>1, <3>2 DEF LinkInv, gap_vars
    <2>2. CASE nfq_set_verdict2
      <3> DEFINE w == IF lock = "rwnd" THEN tune_rwnd ELSE hdr[Head(todo)].win
                 v == Accept(Head(todo), w)
      <3>1. /\ pc = "send" /\ out' = Append(out, v) /\ hdr' = hdr /\ mark' = mark
            /\ pc' \in {"recv", "load"}
        BY <2>2 DEF nfq_set_verdict2, mark_reloaded
      <3>2. v \in Verdicts
        BY <3>1, AcceptType
      <3>3. v.id = Head(todo) /\ v.mark = m
        BY DEF Accept
      <3>4. Head(todo) \in Nat /\ before \in Nat
        BY <3>1, HeadOfTodo DEF Ids, LinkInv
      <3> HIDE DEF v
      <3>5. ~Pending("start_nfqueue") /\ v.id > before => v.mark = row.mark
        BY <3>1, <3>3, <3>4 DEF LinkInv
      <3> QED BY <2>0, <3>1, <3>2, <3>5, LinkVerdict
    <2>3. CASE worker_handle_drop \/ worker_handle_dedup
      <3>1. /\ hdr' = hdr /\ mark' = mark /\ pc' # "send"
            /\ out' = out \/ \E why \in {"loss", "dup"} : out' = Append(out, Drop(Current, why))
        BY <2>3 DEF worker_handle_drop, worker_handle_dedup, handled_then
      <3>2. CASE out' = out
        BY <2>0, <3>1, <3>2 DEF LinkInv, gap_vars
      <3>3. ASSUME NEW why \in {"loss", "dup"}, out' = Append(out, Drop(Current, why))
            PROVE  LinkInv'
        <4> DEFINE v == Drop(Current, why)
        <4>1. v \in Verdicts
          BY DropType
        <4>2. v.verdict # "accept"
          BY DEF Drop
        <4>3. out' = Append(out, v)
          BY <3>3
        <4> HIDE DEF v
        <4> QED BY <2>0, <3>1, <4>1, <4>2, <4>3, LinkVerdict
      <3> QED BY <3>1, <3>2, <3>3
    <2>4. CASE worker_handle_reorder \/ worker_skip_reorder \/ worker_handle_rwnd
      <3>1. UNCHANGED <<mark, out, hdr>> /\ pc' # "send"
        BY <2>4 DEF worker_handle_reorder, worker_skip_reorder, worker_handle_rwnd, kernel_vars
      <3> QED BY <2>0, <3>1 DEF LinkInv, gap_vars
    <2> QED BY <2>1, <2>2, <2>3, <2>4 DEF NfqThread, worker_callback
  <1>4. CASE action_stop_nfqueue
    <2>1. UNCHANGED <<mark, pc, m, todo, hdr, out, before>>
      BY <1>4 DEF action_stop_nfqueue, vars, thread_vars, kernel_vars
    <2>2. row' = row /\ \A f : Pending(f)' <=> Pending(f) /\ f # "stop_nfqueue"
      BY <1>4, EventStep DEF action_stop_nfqueue
    <2> QED BY <2>1, <2>2 DEF LinkInv
  <1>5. CASE action_start_nfqueue
    <2>1. UNCHANGED <<mark, pc, m, todo, hdr, out>> /\ before' = Len(hdr)
      BY <1>5 DEF action_start_nfqueue, vars, thread_vars, kernel_vars
    <2>2. row' = row /\ \A f : Pending(f)' => Pending(f)
      BY <1>5, EventStep DEF action_start_nfqueue
    <2>3. ~Pending("set_mark")
      BY <1>5, EventStep, StartLast DEF action_start_nfqueue, Pending
    <2>4. pc = "send" => Head(todo) <= Len(hdr)
      BY HeadOfTodo, <1>0 DEF Ids
    <2>5. \A i \in 1 .. Len(out) : ~(out[i].id > Len(hdr))
      BY <1>0 DEF VerdictInv, Ids
    <2> QED BY <1>0, <2>1, <2>2, <2>3, <2>4, <2>5 DEF LinkInv
  <1>6. CASE action_set_mark
    <2>1. UNCHANGED <<pc, m, todo, hdr, out, before>> /\ mark' = row.mark
      BY <1>6 DEF action_set_mark, worker_set_mark, thread_vars, kernel_vars
    <2>2. /\ row' = row /\ Pending("start_nfqueue")
          /\ \A f : Pending(f)' <=> Pending(f) /\ f # "set_mark"
      BY <1>6, EventStep, StartLast DEF action_set_mark
    <2> QED BY <2>1, <2>2 DEF LinkInv
  <1>7. CASE action_set_drop \/ action_set_reorder
    <2>1. UNCHANGED <<mark, pc, m, todo, hdr, out, before>>
      BY <1>7 DEF action_set_drop, action_set_reorder, worker_set_drop, worker_set_reorder,
                  thread_vars, kernel_vars
    <2>2. PICK e \in {"set_drop", "set_reorder"} : Event(e)
      BY <1>7 DEF action_set_drop, action_set_reorder
    <2>3. row' = row /\ \A f : Pending(f)' <=> Pending(f) /\ f # e
      BY <2>2, EventStep
    <2> QED BY <2>1, <2>2, <2>3 DEF LinkInv
  <1> QED BY <1>1, <1>2, <1>3, <1>4, <1>5, <1>6, <1>7 DEF GapNext

GapInv == TypeOK /\ VerdictInv /\ RowInv /\ LinkInv

LEMMA InitGap == GapInit /\ row.gap > 0 => GapInv
  <1> SUFFICES ASSUME GapInit, row.gap > 0 PROVE GapInv
    OBVIOUS
  <1>1. TypeOK
    BY InitType DEF GapInit
  <1>2. VerdictInv
    BY EmptySeq DEF GapInit, Init, worker_init_ctx, VerdictInv, Fresh, Distinct, InHandler
  <1>3. /\ RowInv /\ Pending("set_mark") /\ Pending("start_nfqueue")
    BY InitRow
  <1>4. before = 0 /\ Len(hdr) \in Nat
    BY <1>1 DEF GapInit, TypeOK
  <1> QED BY <1>1, <1>2, <1>3, <1>4 DEF GapInv, LinkInv

\* No step changes the row.
LEMMA RowKept == [GapNext]_<<vars, gap_vars>> => row' = row
  BY DEF GapNext, nfq_run_check, nfq_run_recv, nfq_handle_packet, Event, action_stop_nfqueue,
         action_start_nfqueue, action_set_mark, action_set_drop, action_set_reorder, gap_vars

LEMMA GapInvariant == GapSpec => [](row.gap > 0 => GapInv)
  <1> DEFINE Inv == row.gap > 0 => GapInv
  <1>1. Inv /\ [GapNext]_<<vars, gap_vars>> => Inv'
    BY NextWorker, NextRow, NextLink, RowKept DEF GapInv
  <1>2. GapInit => Inv
    BY InitGap
  <1> QED BY <1>1, <1>2, PTL DEF GapSpec

LEMMA ResumedMeans ==
    ASSUME RowInv
    PROVE  Resumed <=> ~Pending("start_nfqueue")
  <1>1. DOMAIN todo_events = 1 .. Len(todo_events)
    BY LenProperties DEF RowInv
  <1> QED BY <1>1 DEF Resumed, Pending, ToSet

\* After the gap of a row with gap_ms > 0 no packet of the backlog leaves by the old
\* link: action_set_mark runs before action_start_nfqueue, and the one verdict that
\* worker_callback may still be about to send with the mark it loaded before is for a
\* packet that was received before the gap ended, whatever the row loses and reorders.
THEOREM NewLinkAfterGap == GapSpec => []BacklogOnNewLink
  <1>1. (row.gap > 0 => GapInv) => BacklogOnNewLink
    <2> SUFFICES ASSUME GapInv, Resumed, NEW v \in ToSet(out), v.id \in Backlog, v.verdict = "accept"
                 PROVE  v.mark = row.mark
      BY DEF BacklogOnNewLink, NewLinkOnceResumed
    <2>1. ~Pending("start_nfqueue")
      BY ResumedMeans DEF GapInv
    <2>2. out \in Seq(Verdicts) /\ DOMAIN out = 1 .. Len(out)
      BY LenProperties DEF GapInv, TypeOK
    <2>3. PICK i \in 1 .. Len(out) : v = out[i]
      BY <2>2 DEF ToSet
    <2>4. v.id > before
      BY DEF Backlog, GapInv, LinkInv
    <2> QED BY <2>1, <2>3, <2>4 DEF GapInv, LinkInv
  <1> QED BY <1>1, GapInvariant, PTL

-----------------------------------------------------------------------------
(* The losses of the row. *)

\* worker_handle_drop takes a packet exactly when some loss is left.
LEMMA DropHandler ==
    ASSUME TypeOK, do_drop => drop_count > 0, worker_handle_drop
    PROVE  /\ pc = "drop" /\ hdr' = hdr /\ Left \in Nat
           /\ do_drop' => drop_count' > 0
           /\ \/ /\ Left > 0 /\ Left' = Left - 1 /\ pc' = "recv"
                 /\ out' = Append(out, Drop(Current, "loss"))
              \/ Left = 0 /\ Left' = 0 /\ pc' = "reorder" /\ out' = out
  <1>1. pc = "drop" /\ hdr' = hdr /\ drop_count \in Int
    BY DEF worker_handle_drop, TypeOK
  <1>2. do_drop' <=> do_drop /\ drop_count' > 0
    BY Zenon DEF worker_handle_drop
  <1>3. CASE do_drop
    <2>1. drop_count' = drop_count - 1 /\ drop_count > 0
      BY <1>3 DEF worker_handle_drop
    <2>2. pc' = "recv" /\ out' = Append(out, Drop(Current, "loss"))
      BY <1>3, <2>1 DEF worker_handle_drop, handled_then
    <2> QED BY <1>1, <1>2, <1>3, <2>1, <2>2 DEF Left
  <1>4. CASE ~do_drop
    <2>1. pc' = "reorder" /\ out' = out
      BY <1>4 DEF worker_handle_drop, handled_then
    <2> QED BY <1>1, <1>2, <1>4, <2>1 DEF Left
  <1> QED BY <1>3, <1>4

\* The other handlers lose nothing.
LEMMA OtherHandler ==
    ASSUME TypeOK, NfqThread, pc \notin {"recv", "drop"}
    PROVE  /\ UNCHANGED <<hdr, do_drop, drop_count>> /\ pc' # "drop"
           /\ \/ out' = out
              \/ \E v \in Verdicts : v.why # "loss" /\ out' = Append(out, v)
  <1>1. CASE worker_handle_reorder \/ worker_skip_reorder \/ worker_handle_rwnd \/ load_mark
    BY <1>1 DEF worker_handle_reorder, worker_skip_reorder, worker_handle_rwnd, load_mark,
                drop_vars, kernel_vars
  <1>2. CASE worker_handle_dedup
    <2>1. /\ UNCHANGED <<hdr, do_drop, drop_count>> /\ pc' # "drop"
          /\ out' = out \/ out' = Append(out, Drop(Current, "dup"))
      BY <1>2 DEF worker_handle_dedup, handled_then, drop_vars
    <2>2. Drop(Current, "dup") \in Verdicts /\ Drop(Current, "dup").why # "loss"
      <3>1. Drop(Current, "dup") \in Verdicts
        BY DropType
      <3> QED BY <3>1 DEF Drop
    <2> QED BY <2>1, <2>2
  <1>3. CASE nfq_set_verdict2
    <2> DEFINE v == Accept(Head(todo), IF lock = "rwnd" THEN tune_rwnd ELSE hdr[Head(todo)].win)
    <2>1. /\ UNCHANGED <<hdr, do_drop, drop_count>> /\ pc' # "drop" /\ pc = "send"
          /\ out' = Append(out, v)
      BY <1>3 DEF nfq_set_verdict2, mark_reloaded, drop_vars
    <2>2. v \in Verdicts
      BY <2>1, AcceptType
    <2>3. v.why = "pass"
      BY DEF Accept
    <2> HIDE DEF v
    <2> QED BY <2>1, <2>2, <2>3
  <1> QED BY <1>1, <1>2, <1>3 DEF NfqThread, worker_callback, worker_handle_drop

\* The setters that leave the losses alone.
LEMMA OtherSetter ==
    ASSUME action_stop_nfqueue \/ action_start_nfqueue \/ action_set_mark \/ action_set_reorder
    PROVE  UNCHANGED <<pc, hdr, out, do_drop, drop_count>>
  BY DEF action_stop_nfqueue, action_start_nfqueue, action_set_mark, action_set_reorder,
         worker_set_mark, worker_set_reorder, vars, drop_vars, thread_vars, kernel_vars

\* Whether a packet has been lost changes only with a verdict for a loss.
LEMMA SameLoss ==
    ASSUME out' = out
    PROVE  SomeLoss' <=> SomeLoss
  BY DEF SomeLoss

LEMMA OtherVerdictSameLoss ==
    ASSUME TypeOK, NEW v \in Verdicts, v.why # "loss", out' = Append(out, v)
    PROVE  SomeLoss' <=> SomeLoss
  <1>1. /\ Len(out) \in Nat /\ Len(out') = Len(out) + 1
        /\ \A i \in 1 .. Len(out) : out'[i] = out[i]
        /\ out'[Len(out) + 1] = v
        /\ \A i \in 1 .. Len(out') : i \in 1 .. Len(out) \/ i = Len(out) + 1
    BY OneMore
  <1>2. \A i \in 1 .. Len(out) : i \in 1 .. Len(out')
    BY <1>1
  <1>3. ASSUME NEW i \in 1 .. Len(out'), out'[i].why = "loss" PROVE out[i].why = "loss" /\ i \in 1 .. Len(out)
    BY <1>1, <1>3
  <1> QED BY <1>1, <1>2, <1>3 DEF SomeLoss

LEMMA LossVerdict ==
    ASSUME TypeOK, out' = Append(out, Drop(Current, "loss"))
    PROVE  SomeLoss'
  <1> DEFINE v == Drop(Current, "loss")
  <1>1. v \in Verdicts
    BY DropType
  <1>2. v.why = "loss" /\ out' = Append(out, v)
    BY DEF Drop
  <1> HIDE DEF v
  <1>3. out'[Len(out) + 1] = v /\ Len(out) + 1 \in 1 .. Len(out')
    <2>1. Len(out) \in Nat /\ Len(out') = Len(out) + 1 /\ out'[Len(out) + 1] = v
      BY <1>1, <1>2, OneMore
    <2> QED BY <2>1
  <1> QED BY <1>2, <1>3 DEF SomeLoss

LEMMA NextArmed ==
    TypeOK /\ RowInv /\ ArmedInv /\ [GapNext]_<<vars, gap_vars>> => ArmedInv'
  <1> SUFFICES ASSUME TypeOK, RowInv, ArmedInv, [GapNext]_<<vars, gap_vars>>
               PROVE  ArmedInv'
    OBVIOUS
  <1>0. row.loss \in Nat /\ drop_count \in Int
    BY DEF RowInv, TypeOK
  <1>1. CASE nfq_run_check
    <2>1. /\ UNCHANGED <<pc, out, do_drop, drop_count, row, todo_events, status>>
          /\ status = "NFQ_RUNNING" /\ run' = "recv" /\ pc = "recv"
      BY <1>1 DEF nfq_run_check, status_lets_pass, vars, thread_vars, kernel_vars, drop_vars
    <2>2. \A f : Pending(f)' <=> Pending(f)
      BY <2>1 DEF Pending
    <2>3. Pending("start_nfqueue") => Pending("stop_nfqueue")
      BY <2>1 DEF ArmedInv
    <2> QED BY <2>1, <2>2, <2>3, SameLoss DEF ArmedInv, Left
  <1>2. CASE nfq_run_recv
    <2>1. /\ UNCHANGED <<out, do_drop, drop_count, row, todo_events, status>>
          /\ run = "recv" /\ run' = "check" /\ pc' = "drop"
      BY <1>2 DEF nfq_run_recv, worker_callback, drop_vars
    <2>2. \A f : Pending(f)' <=> Pending(f)
      BY <2>1 DEF Pending
    <2> QED BY <2>1, <2>2, SameLoss DEF ArmedInv, Left, Straggler
  <1>3. CASE nfq_handle_packet
    <2>0. /\ UNCHANGED gap_vars /\ NfqThread /\ pc # "recv"
          /\ UNCHANGED <<row, todo_events, status, run>>
          /\ \A f : Pending(f)' <=> Pending(f)
      BY <1>3, NoEvent DEF nfq_handle_packet, gap_vars
    <2>1. run = "check"
      BY <2>0 DEF ArmedInv
    <2>2. CASE worker_handle_drop
      <3>1. /\ pc = "drop" /\ Left \in Nat
            /\ do_drop' => drop_count' > 0
            /\ \/ Left > 0 /\ Left' = Left - 1 /\ pc' = "recv" /\ SomeLoss'
               \/ Left = 0 /\ Left' = 0 /\ (SomeLoss' <=> SomeLoss)
        <4>1. do_drop => drop_count > 0
          BY DEF ArmedInv
        <4>2. /\ pc = "drop" /\ Left \in Nat
              /\ do_drop' => drop_count' > 0
              /\ \/ /\ Left > 0 /\ Left' = Left - 1 /\ pc' = "recv"
                    /\ out' = Append(out, Drop(Current, "loss"))
                 \/ Left = 0 /\ Left' = 0 /\ out' = out
          BY <2>2, <4>1, DropHandler
        <4> QED BY <4>2, SameLoss, LossVerdict
      <3>2. Straggler
        BY <3>1 DEF Straggler
      <3>3. CASE Left = 0
        <4>1. Left' = Left /\ (Straggler' => Straggler) /\ (SomeLoss' <=> SomeLoss)
          BY <3>1, <3>2, <3>3
        <4>2. (do_drop' => drop_count' > 0) /\ run' = "check" /\ row' = row
          BY <2>0, <2>1, <3>1
        <4>3. Pending("start_nfqueue") /\ ~Pending("set_drop") => Left = row.loss /\ ~SomeLoss
          BY <3>2 DEF ArmedInv
        <4> QED BY <2>0, <4>1, <4>2, <4>3 DEF ArmedInv
      <3>4. CASE Left > 0
        <4>1. ~Straggler'
          BY <2>0, <2>1, <3>1, <3>4 DEF Straggler
        <4>2. Pending("start_nfqueue") /\ ~Pending("set_drop") => Left = row.loss /\ ~Pending("stop_nfqueue")
          BY <1>0, <3>2, <3>4 DEF ArmedInv
        <4>3. ~Pending("set_drop") /\ ~Pending("stop_nfqueue")
          <5>1. ~Pending("set_drop")
            BY <3>1, <3>4 DEF ArmedInv
          <5>2. Pending("stop_nfqueue") => Pending("start_nfqueue")
            BY StartLast
          <5> QED BY <4>2, <5>1, <5>2
        <4>4. SomeLoss' /\ Left' = Left - 1 /\ Left \in Nat /\ run' = "check" /\ UNCHANGED <<row, status>>
          BY <2>0, <2>1, <3>1, <3>4
        <4> QED BY <1>0, <2>0, <3>1, <4>1, <4>2, <4>3, <4>4 DEF ArmedInv
      <3> QED BY <3>1, <3>3, <3>4
    <2>3. CASE pc # "drop"
      <3>1. /\ UNCHANGED <<do_drop, drop_count>> /\ pc' # "drop"
            /\ \/ out' = out
               \/ \E v \in Verdicts : v.why # "loss" /\ out' = Append(out, v)
        BY <2>0, <2>3, OtherHandler
      <3>2. Left' = Left /\ ~Straggler' /\ (SomeLoss' <=> SomeLoss)
        BY <2>0, <2>1, <3>1, SameLoss, OtherVerdictSameLoss DEF Left, Straggler
      <3>3. row' = row /\ status' = status /\ run' = "check"
        BY <2>0, <2>1
      <3> QED BY <2>0, <3>1, <3>2, <3>3 DEF ArmedInv
    <2> QED BY <2>0, <2>2, <2>3
            DEF NfqThread, worker_callback, worker_handle_reorder, worker_skip_reorder,
                worker_handle_dedup, worker_handle_rwnd, load_mark, nfq_set_verdict2
  <1>4. CASE action_stop_nfqueue
    <2>1. UNCHANGED <<pc, out, do_drop, drop_count>> /\ status' = "NFQ_STOPPED"
      BY <1>4, OtherSetter DEF action_stop_nfqueue
    <2>2. UNCHANGED <<row, run>> /\ \A f : Pending(f)' <=> Pending(f) /\ f # "stop_nfqueue"
      BY <1>4, EventStep DEF action_stop_nfqueue
    <2> QED BY <2>1, <2>2, SameLoss DEF ArmedInv, Left, Straggler
  <1>5. CASE action_start_nfqueue
    <2>1. UNCHANGED <<pc, do_drop, drop_count>>
      BY <1>5, OtherSetter
    <2>2. UNCHANGED <<row, run>> /\ \A f : ~Pending(f)'
      BY <1>5, EventStep DEF action_start_nfqueue
    <2> QED BY <2>1, <2>2 DEF ArmedInv
  <1>6. CASE action_set_mark \/ action_set_reorder
    <2>1. UNCHANGED <<pc, out, do_drop, drop_count, status>>
      BY <1>6, OtherSetter DEF action_set_mark, action_set_reorder
    <2>2. PICK e \in {"set_mark", "set_reorder"} : Event(e)
      BY <1>6 DEF action_set_mark, action_set_reorder
    <2>3. UNCHANGED <<row, run>> /\ \A f : Pending(f)' <=> Pending(f) /\ f # e
      BY <2>2, EventStep
    <2> QED BY <2>1, <2>2, <2>3, SameLoss DEF ArmedInv, Left, Straggler
  <1>7. CASE action_set_drop
    <2>1. UNCHANGED <<pc, out, status>> /\ do_drop' = TRUE /\ drop_count' = row.loss
      BY <1>7 DEF action_set_drop, worker_set_drop, thread_vars, kernel_vars
    <2>2. /\ UNCHANGED <<row, run>> /\ \A f : Pending(f)' <=> Pending(f) /\ f # "set_drop"
          /\ Pending("set_drop") /\ ~Pending("stop_nfqueue")
      BY <1>7, EventStep DEF action_set_drop
    <2>3. Left' = row.loss /\ row.loss > 0
      BY <2>1, <2>2 DEF Left, RowInv
    <2>4. ~SomeLoss' /\ ~SomeLoss
      BY <2>1, <2>2, SameLoss DEF ArmedInv
    <2> QED BY <2>1, <2>2, <2>3, <2>4 DEF ArmedInv
  <1>8. CASE UNCHANGED <<vars, gap_vars>>
    <2>1. UNCHANGED <<pc, out, do_drop, drop_count, row, todo_events, status, run>>
      BY <1>8 DEF vars, thread_vars, kernel_vars, drop_vars, gap_vars
    <2> QED BY <2>1, SameLoss DEF ArmedInv, Left, Pending, Straggler
  <1> QED BY <1>1, <1>2, <1>3, <1>4, <1>5, <1>6, <1>7, <1>8 DEF GapNext

\* What LostFirst looks at.
LEMMA SameLosses ==
    ASSUME NEW k, LostFirst(k), UNCHANGED <<out, before, row, Left, Seen>>
    PROVE  LostFirst(k)'
  <1>1. Taken' = Taken
    BY DEF Taken, EarlyLoss
  <1> QED BY <1>1 DEF LostFirst

LEMMA SeenType ==
    ASSUME TypeOK, LinkInv
    PROVE  Seen \in Int /\ Seen >= -1 /\ before \in Nat /\ Len(hdr) \in Nat
           /\ (Seen < 0 => pc = "drop" /\ before = Len(hdr))
  BY DEF TypeOK, LinkInv, Seen

\* One more loss of a packet that arrived before the gap ended, or of the first
\* packet of the backlog that is not lost.
LEMMA OneLost ==
    ASSUME TypeOK, LinkInv, RowInv, NEW k \in Nat, LostFirst(k), Left > 0, Left \in Nat,
           Left' = Left - 1, hdr' = hdr, UNCHANGED <<before, row>>, pc = "drop", pc' = "recv",
           out' = Append(out, Drop(Current, "loss"))
    PROVE  \E j \in Nat : LostFirst(j)'
  <1> DEFINE v == Drop(Current, "loss")
  <1>1. v \in Verdicts
    BY DropType
  <1>2. v.id = Len(hdr) /\ v.why = "loss"
    BY DEF Drop, Current
  <1>3. out' = Append(out, v)
    OBVIOUS
  <1> HIDE DEF v
  <1>4. /\ Len(out) \in Nat /\ Len(out') = Len(out) + 1
        /\ \A i \in 1 .. Len(out) : out'[i] = out[i] /\ i \in 1 .. Len(out')
        /\ out'[Len(out) + 1] = v /\ Len(out) + 1 \in 1 .. Len(out')
        /\ \A i \in 1 .. Len(out') : i \in 1 .. Len(out) \/ i = Len(out) + 1
    BY <1>1, <1>3, OneMore
  <1>5. /\ Seen \in Int /\ Seen >= -1 /\ before \in Nat /\ Len(hdr) \in Nat
        /\ Seen = Len(hdr) - before - 1 /\ Seen' = Seen + 1
        /\ row.loss \in Nat
    BY SeenType DEF Seen, RowInv
  <1>6. /\ \A i \in 1 .. Len(out) : out[i].why = "loss" => out[i].id <= before + k
        /\ \A id \in before + 1 .. before + k :
              \E i \in 1 .. Len(out) : out[i].id = id /\ out[i].why = "loss"
        /\ Left + k = row.loss - Taken /\ Taken \in {0, 1}
        /\ IF Seen < 0 THEN k = 0 /\ Taken = 0
                       ELSE k <= Seen /\ (Left > 0 => k = Seen)
    BY DEF LostFirst, Taken
  <1>7. \A i \in 1 .. Len(out) : out[i].why = "loss" => out[i].id \in Int
    <2>1. \A i \in 1 .. Len(out) : out[i] \in Verdicts
      BY ElementOfSeq DEF TypeOK
    <2> QED BY <2>1 DEF Verdicts
  <1>8. CASE Seen < 0
    <2>1. k = 0 /\ Left = row.loss /\ before = Len(hdr) /\ Taken' = 1
      <3>1. k = 0 /\ Taken = 0 /\ before = Len(hdr)
        BY <1>5, <1>6, <1>8
      <3>2. before' = before /\ out'[Len(out) + 1].why = "loss" /\ out'[Len(out) + 1].id <= before
        BY <1>2, <1>4, <1>5, <3>1
      <3>3. EarlyLoss'
        BY <1>4, <3>2 DEF EarlyLoss
      <3>4. Left = row.loss
        BY <1>5, <1>6, <3>1
      <3> QED BY <3>1, <3>3, <3>4 DEF Taken
    <2>2. \A i \in 1 .. Len(out') : out'[i].why = "loss" => out'[i].id <= before + 0
      BY <1>2, <1>4, <1>5, <1>6, <2>1
    <2>3. LostFirst(0)'
      <3>1. before + 1 .. before + 0 = {}
        BY <1>5
      <3>2. Left' + 0 = row.loss - Taken' /\ ~(Seen' < 0) /\ 0 <= Seen' /\ (Left' > 0 => 0 = Seen')
        BY <1>5, <1>8, <2>1
      <3> QED BY <2>2, <3>1, <3>2 DEF LostFirst
    <2> QED BY <2>3
  <1>9. CASE ~(Seen < 0)
    <2>1. k = Seen /\ Len(hdr) = before + k + 1
      BY <1>5, <1>6, <1>9
    <2>2. \A i \in 1 .. Len(out') : out'[i].why = "loss" => out'[i].id <= before + (k + 1)
      <3> SUFFICES ASSUME NEW i \in 1 .. Len(out'), out'[i].why = "loss"
                   PROVE  out'[i].id <= before + (k + 1)
        OBVIOUS
      <3>1. CASE i = Len(out) + 1
        BY <1>2, <1>4, <1>5, <2>1, <3>1
      <3>2. CASE i \in 1 .. Len(out)
        <4>1. out'[i] = out[i] /\ out[i].id <= before + k /\ out[i].id \in Int
          BY <1>4, <1>6, <1>7, <3>2
        <4> QED BY <1>5, <4>1
      <3> QED BY <1>4, <3>1, <3>2
    <2>3. \A id \in before + 1 .. before + (k + 1) :
             \E i \in 1 .. Len(out') : out'[i].id = id /\ out'[i].why = "loss"
      <3> SUFFICES ASSUME NEW id \in before + 1 .. before + (k + 1)
                   PROVE  \E i \in 1 .. Len(out') : out'[i].id = id /\ out'[i].why = "loss"
        OBVIOUS
      <3>1. CASE id = before + k + 1
        BY <1>2, <1>4, <2>1, <3>1
      <3>2. CASE id # before + k + 1
        <4>1. id \in before + 1 .. before + k
          BY <1>5, <3>2
        <4> QED BY <1>4, <1>6, <4>1
      <3> QED BY <3>1, <3>2
    <2>4. LostFirst(k + 1)'
      <3>1. Left' + (k + 1) = Left + k
        BY <1>5
      <3>a. EarlyLoss' <=> EarlyLoss
        <4>1. before' = before /\ ~(v.id <= before)
          BY <1>2, <1>5, <2>1
        <4>2. ASSUME NEW i \in 1 .. Len(out'), out'[i].why = "loss", out'[i].id <= before
              PROVE  i \in 1 .. Len(out) /\ out[i].why = "loss" /\ out[i].id <= before
          BY <1>4, <4>1, <4>2
        <4>3. ASSUME NEW i \in 1 .. Len(out), out[i].why = "loss", out[i].id <= before
              PROVE  i \in 1 .. Len(out') /\ out'[i].why = "loss" /\ out'[i].id <= before
          BY <1>4, <4>3
        <4> QED BY <4>1, <4>2, <4>3 DEF EarlyLoss
      <3>2. Left' + (k + 1) = row.loss - Taken'
        BY <1>6, <3>1, <3>a DEF Taken
      <3>3. ~(Seen' < 0) /\ k + 1 <= Seen' /\ k + 1 = Seen'
        BY <1>5, <1>9, <2>1
      <3> QED BY <2>2, <2>3, <3>2, <3>3 DEF LostFirst
    <2> QED BY <2>4
  <1> QED BY <1>8, <1>9

LEMMA NextLosses ==
    GapInv /\ ArmedInv /\ LossesInv /\ [GapNext]_<<vars, gap_vars>> => LossesInv'
  <1> SUFFICES ASSUME GapInv, ArmedInv, LossesInv, [GapNext]_<<vars, gap_vars>>,
                      ~Pending("start_nfqueue")'
               PROVE  \E k \in Nat : LostFirst(k)'
    BY DEF LossesInv
  <1>0. /\ TypeOK /\ VerdictInv /\ RowInv /\ LinkInv /\ row.loss \in Nat
        /\ Len(hdr) \in Nat
    BY DEF GapInv, RowInv, TypeOK
  <1>1. CASE nfq_run_check \/ UNCHANGED <<vars, gap_vars>>
    <2>1. UNCHANGED <<pc, hdr, out, do_drop, drop_count, row, todo_events, before>>
      BY <1>1 DEF nfq_run_check, vars, thread_vars, kernel_vars, drop_vars, gap_vars
    <2>2. ~Pending("start_nfqueue") /\ UNCHANGED <<out, before, row, Left, Seen>>
      BY <2>1 DEF Pending, Left, Seen
    <2> QED BY <2>2, SameLosses DEF LossesInv
  <1>2. CASE nfq_run_recv
    <2>1. /\ UNCHANGED <<out, do_drop, drop_count, row, todo_events, before>>
          /\ pc = "recv" /\ pc' = "drop"
      BY <1>2 DEF nfq_run_recv, worker_callback, drop_vars
    <2>2. Len(hdr') = Len(hdr) + 1
      <3>1. PICK h \in Headers : hdr' = Append(hdr, h)
        BY <1>2 DEF nfq_run_recv, worker_callback
      <3> QED BY <1>0, <3>1, AppendProperties DEF TypeOK
    <2>3. Seen' = Seen
      BY <1>0, <2>1, <2>2 DEF Seen, LinkInv
    <2>4. ~Pending("start_nfqueue") /\ UNCHANGED <<out, before, row, Left>>
      BY <2>1 DEF Pending, Left
    <2> QED BY <2>3, <2>4, SameLosses DEF LossesInv
  <1>3. CASE nfq_handle_packet
    <2>0. /\ NfqThread /\ pc # "recv" /\ UNCHANGED <<row, todo_events, before>>
          /\ ~Pending("start_nfqueue")
      BY <1>3 DEF nfq_handle_packet, gap_vars, Pending
    <2>1. PICK k \in Nat : LostFirst(k)
      BY <2>0 DEF LossesInv
    <2>2. CASE worker_handle_drop
      <3>0. do_drop => drop_count > 0
        BY DEF ArmedInv
      <3>1. /\ pc = "drop" /\ hdr' = hdr /\ Left \in Nat
            /\ \/ /\ Left > 0 /\ Left' = Left - 1 /\ pc' = "recv"
                  /\ out' = Append(out, Drop(Current, "loss"))
               \/ Left = 0 /\ Left' = 0 /\ pc' = "reorder" /\ out' = out
        BY <1>0, <2>2, <3>0, DropHandler
      <3>2. CASE Left > 0
        BY <1>0, <2>0, <2>1, <3>1, <3>2, OneLost
      <3>3. CASE Left = 0
        <4>1. Left' = 0 /\ pc' = "reorder" /\ out' = out
          BY <3>1, <3>3
        <4>2. /\ Seen \in Int /\ Seen >= -1 /\ before \in Nat
              /\ Seen' = Seen + 1
          BY <1>0, <2>0, <3>1, <4>1, SeenType DEF Seen
        <4>3. ~(Seen' < 0) /\ k <= Seen'
          BY <2>1, <4>2 DEF LostFirst
        <4>4. Taken' = Taken /\ row' = row
          BY <2>0, <4>1 DEF Taken, EarlyLoss
        <4> QED BY <2>0, <2>1, <3>3, <4>1, <4>3, <4>4 DEF LostFirst
      <3> QED BY <3>1, <3>2, <3>3
    <2>3. CASE pc # "drop"
      <3>1. /\ UNCHANGED <<hdr, do_drop, drop_count>> /\ pc' # "drop"
            /\ \/ out' = out
               \/ \E v \in Verdicts : v.why # "loss" /\ out' = Append(out, v)
        BY <1>0, <2>0, <2>3, OtherHandler
      <3>2. UNCHANGED <<before, row, Left, Seen>>
        BY <2>0, <2>3, <3>1 DEF Left, Seen
      <3>3. CASE out' = out
        BY <2>1, <3>2, <3>3, SameLosses
      <3>4. ASSUME NEW v \in Verdicts, v.why # "loss", out' = Append(out, v)
            PROVE  LostFirst(k)'
        <4>1. /\ Len(out) \in Nat /\ Len(out') = Len(out) + 1
              /\ \A i \in 1 .. Len(out) : out'[i] = out[i]
              /\ out'[Len(out) + 1] = v
              /\ \A i \in 1 .. Len(out') : i \in 1 .. Len(out) \/ i = Len(out) + 1
          BY <1>0, <3>4, OneMore
        <4>2. \A i \in 1 .. Len(out) : i \in 1 .. Len(out')
          BY <4>1
        <4>3. \A i \in 1 .. Len(out') : out'[i].why = "loss" => out'[i].id <= before + k
          BY <2>1, <3>4, <4>1 DEF LostFirst
        <4>4. \A id \in before + 1 .. before + k :
                 \E i \in 1 .. Len(out') : out'[i].id = id /\ out'[i].why = "loss"
          BY <2>1, <4>1, <4>2 DEF LostFirst
        <4>5. EarlyLoss' <=> EarlyLoss
          <5>1. ASSUME NEW i \in 1 .. Len(out'), out'[i].why = "loss"
                PROVE  i \in 1 .. Len(out) /\ out'[i] = out[i]
            BY <3>4, <4>1, <5>1
          <5> QED BY <3>2, <4>1, <4>2, <5>1 DEF EarlyLoss
        <4>6. Taken' = Taken
          BY <4>5 DEF Taken
        <4> QED BY <2>1, <3>2, <4>3, <4>4, <4>6 DEF LostFirst
      <3> QED BY <2>1, <3>1, <3>3, <3>4
    <2> QED BY <2>0, <2>2, <2>3
            DEF NfqThread, worker_callback, worker_handle_reorder, worker_skip_reorder,
                worker_handle_dedup, worker_handle_rwnd, load_mark, nfq_set_verdict2
  <1>4. CASE action_start_nfqueue
    <2>1. UNCHANGED <<pc, hdr, out, do_drop, drop_count>> /\ before' = Len(hdr)
      BY <1>4, OtherSetter DEF action_start_nfqueue
    <2>2. /\ row' = row /\ Pending("start_nfqueue")
          /\ ~Pending("stop_nfqueue") /\ ~Pending("set_drop")
      BY <1>0, <1>4, EventStep DEF action_start_nfqueue
    <2>3. /\ Left' = Left
          /\ \/ Left = row.loss /\ ~SomeLoss
             \/ Left = row.loss - 1 /\ SomeLoss /\ pc # "drop"
      BY <2>1, <2>2 DEF ArmedInv, Left, Straggler
    <2>4. \A i \in 1 .. Len(out) : out[i].id <= Len(hdr) + 0 /\ out[i].id <= Len(hdr)
      BY <1>0 DEF VerdictInv, Ids
    <2>a. EarlyLoss' <=> SomeLoss
      BY <2>1, <2>4 DEF EarlyLoss, SomeLoss
    <2>b. Taken' = IF SomeLoss THEN 1 ELSE 0
      BY <2>a DEF Taken
    <2>5. Len(hdr) + 1 .. Len(hdr) + 0 = {}
      BY <1>0
    <2>6. Left' + 0 = row.loss - Taken'
      BY <1>0, <2>3, <2>b
    <2>7. Seen' = IF pc = "drop" THEN -1 ELSE 0
      BY <1>0, <2>1 DEF Seen
    <2>8. IF Seen' < 0 THEN 0 = 0 /\ Taken' = 0 ELSE 0 <= Seen' /\ (Left' > 0 => 0 = Seen')
      BY <2>3, <2>7, <2>b
    <2>9. LostFirst(0)'
      BY <2>1, <2>2, <2>4, <2>5, <2>6, <2>8 DEF LostFirst
    <2> QED BY <2>9
  <1>5. ASSUME NEW e \in EventNames \ {"start_nfqueue"}, Event(e)
        PROVE  FALSE
    BY <1>0, <1>5, EventStep, StartLast
  <1> QED BY <1>1, <1>2, <1>3, <1>4, <1>5
          DEF GapNext, EventNames, action_stop_nfqueue, action_set_mark, action_set_drop,
              action_set_reorder

LEMMA IntervalSize ==
    ASSUME NEW a \in Nat, NEW n \in Nat
    PROVE  Cardinality(a + 1 .. a + n) = n
  <1> DEFINE lo == a + 1
             hi == a + n
  <1>1. lo \in Int /\ hi \in Int /\ hi - lo + 1 = n /\ (lo > hi => n = 0)
    OBVIOUS
  <1> HIDE DEF lo, hi
  <1>2. Cardinality(lo .. hi) = IF lo > hi THEN 0 ELSE hi - lo + 1
    BY <1>1, FS_Interval
  <1>3. Cardinality(lo .. hi) = n
    BY <1>1, <1>2
  <1> QED BY <1>3 DEF lo, hi

\* In a row with gap_ms > 0 the backlog loses exactly row.loss packets, or all there
\* are, less the one that the straggler may take: worker_handle_drop loses the first
\* packets after the gap, and only the one packet that nfq_run had let in before
\* action_stop_nfqueue can have used up a loss that action_set_drop armed.
THEOREM LossesOfTheRow == GapSpec => []BacklogLoses
  <1> DEFINE Inv == GapInv /\ ArmedInv /\ LossesInv
             HasGap == row.gap > 0
  <1>1. GapInit => (HasGap => Inv)
    <2> SUFFICES ASSUME GapInit, row.gap > 0 PROVE Inv
      OBVIOUS
    <2>1. GapInv
      BY InitGap
    <2>2. /\ Pending("stop_nfqueue") /\ Pending("start_nfqueue") /\ row.loss \in Nat
          /\ row.loss > 0 => Pending("set_drop")
      BY InitRow DEF RowInv
    <2>3. ~do_drop /\ pc = "recv" /\ run = "check"
      BY DEF GapInit, Init, worker_init_ctx
    <2>4. Left = 0
      BY <2>3 DEF Left
    <2>a. ~SomeLoss
      BY EmptySeq DEF GapInit, Init, SomeLoss
    <2>5. ArmedInv
      BY <2>2, <2>3, <2>4, <2>a DEF ArmedInv
    <2> QED BY <2>1, <2>2, <2>5 DEF LossesInv
  <1>2. (HasGap => Inv) /\ [GapNext]_<<vars, gap_vars>> => (HasGap => Inv)'
    BY NextWorker, NextRow, NextLink, NextArmed, NextLosses, RowKept DEF GapInv
  <1>3. (HasGap => Inv) => BacklogLoses
    <2> SUFFICES ASSUME GapInv, ArmedInv, LossesInv, Resumed, pc = "recv"
                 PROVE  Cardinality(LostBacklog) =
                           Smaller(row.loss - (IF LostIds \ Backlog = {} THEN 0 ELSE 1),
                                   Cardinality(Backlog))
      BY DEF BacklogLoses
    <2>1. PICK k \in Nat : LostFirst(k)
      BY ResumedMeans DEF LossesInv, GapInv
    <2>2. /\ before \in Nat /\ Len(hdr) \in Nat /\ before <= Len(hdr)
          /\ Seen = Len(hdr) - before /\ row.loss \in Nat
      BY DEF GapInv, LinkInv, RowInv, TypeOK, Seen
    <2>3. Left \in Nat
      BY DEF ArmedInv, Left, GapInv, TypeOK
    <2>4. /\ Left + k = row.loss - Taken /\ Taken \in {0, 1} /\ k <= Seen
          /\ Left > 0 => k = Seen
      BY <2>1, <2>2 DEF LostFirst, Taken
    <2>5. Backlog = before + 1 .. before + Seen
      BY <2>2 DEF Backlog
    <2>6. LostBacklog = before + 1 .. before + k
      <3>1. out \in Seq(Verdicts) /\ DOMAIN out = 1 .. Len(out)
        BY LenProperties DEF GapInv, TypeOK
      <3>2. ASSUME NEW id \in LostBacklog
            PROVE  id \in before + 1 .. before + k
        <4>1. PICK u \in ToSet(out) : u.why = "loss" /\ id = u.id
          BY DEF LostBacklog, LostIds
        <4>2. id <= before + k
          BY <2>1, <3>1, <4>1 DEF LostFirst, ToSet
        <4>3. id \in before + 1 .. before + Seen
          BY <2>5 DEF LostBacklog
        <4> QED BY <2>2, <4>2, <4>3
      <3>3. ASSUME NEW id \in before + 1 .. before + k
            PROVE  id \in LostBacklog
        <4>1. PICK i \in 1 .. Len(out) : out[i].id = id /\ out[i].why = "loss"
          BY <2>1 DEF LostFirst
        <4>2. out[i] \in ToSet(out)
          BY <3>1 DEF ToSet
        <4>3. id \in before + 1 .. before + Seen
          BY <2>2, <2>4
        <4> QED BY <2>5, <4>1, <4>2, <4>3 DEF LostBacklog, LostIds
      <3> QED BY <3>2, <3>3
    <2>7. Cardinality(Backlog) = Seen
      BY <2>2, <2>5, IntervalSize
    <2>8. Cardinality(LostBacklog) = k
      BY <2>2, <2>6, IntervalSize
    <2>9. k = Smaller(row.loss - Taken, Seen)
      BY <2>2, <2>3, <2>4 DEF Smaller
    <2>10. EarlyLoss <=> LostIds \ Backlog # {}
      <3>1. out \in Seq(Verdicts) /\ DOMAIN out = 1 .. Len(out)
        BY LenProperties DEF GapInv, TypeOK
      <3>2. \A i \in 1 .. Len(out) : out[i].id \in 1 .. Len(hdr)
        BY DEF GapInv, VerdictInv, Ids
      <3>3. \A i \in 1 .. Len(out) : out[i].id \in Backlog <=> ~(out[i].id <= before)
        BY <2>2, <3>2 DEF Backlog
      <3>4. LostIds = {out[i].id : i \in {j \in 1 .. Len(out) : out[j].why = "loss"}}
        BY <3>1 DEF LostIds, ToSet
      <3> QED BY <3>3, <3>4 DEF EarlyLoss
    <2>11. Taken = IF LostIds \ Backlog = {} THEN 0 ELSE 1
      BY <2>10 DEF Taken
    <2> QED BY <2>7, <2>8, <2>9, <2>11
  <1> QED BY <1>1, <1>2, <1>3, PTL DEF GapSpec

=============================================================================
