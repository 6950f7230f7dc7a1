-------------------------- MODULE SchedulerProofs ---------------------------
(* The order of execution, for every trace and every timing of the thread. *)
EXTENDS Scheduler, SequenceTheorems, TLAPS

-----------------------------------------------------------------------------
(* Types. *)

\* Times are natural numbers.
LEMMA EventTime ==
    ASSUME NEW e \in Event
    PROVE  e.time \in Nat
  <1>1. e.time \in Times
    BY DEF Event
  <1>2. Times \subseteq Nat
    BY SchedulerAssumption
  <1> QED BY <1>1, <1>2

\* qsort permutes the table.
LEMMA QsortType ==
    ASSUME events \in Seq(Event), NEW p \in qsort(events),
           events' = [a \in 1 .. Len(events) |-> events[p[a]]]
    PROVE  events' \in Seq(Event) /\ Len(events') = Len(events)
  <1>1. p \in [1 .. Len(events) -> 1 .. Len(events)] /\ Len(events) \in Nat
    BY DEF qsort
  <1>2. \A a \in 1 .. Len(events) : events[p[a]] \in Event
    BY <1>1
  <1> QED
    BY <1>1, <1>2

LEMMA InitType == Init => TypeOK
  <1> SUFFICES ASSUME Init PROVE TypeOK
    OBVIOUS
  <1>1. events \in Seq(Event) /\ ran \in Seq(Event) /\ Len(events) = 0
    BY EmptySeq DEF Init
  <1> QED
    BY <1>1, SchedulerAssumption DEF Init, TypeOK

LEMMA NextType == TypeOK /\ [Next]_vars => TypeOK'
  <1> SUFFICES ASSUME TypeOK, [Next]_vars PROVE TypeOK'
    OBVIOUS
  <1> USE SchedulerAssumption DEF TypeOK, tcp_vars
  <1>1. ASSUME NEW time \in Times, NEW h \in Handlers, scheduler_add_event(time, h)
        PROVE  TypeOK'
    <2> DEFINE e == [time |-> time, idx |-> Len(events), h |-> h]
    <2>1. e \in Event
      BY DEF Event
    <2>2. CASE table_full
      BY <1>1, <2>2 DEF scheduler_add_event
    <2>3. CASE ~table_full
      <3>1. events' = Append(events, e)
        BY <1>1, <2>3 DEF scheduler_add_event
      <3> HIDE DEF e
      <3>2. events' \in Seq(Event) /\ Len(events') = Len(events) + 1 /\ Len(events) \in Nat
        BY <2>1, <3>1
      <3>3. Len(events') <= SCHEDULER_MAX_EVENT
        BY <2>3, <3>2 DEF table_full
      <3>4. i' \in 0 .. Len(events') /\ cur' \in [due : Nat, ev : 0 .. Len(events')]
        BY <1>1, <3>2 DEF scheduler_add_event
      <3> QED BY <1>1, <3>2, <3>3, <3>4 DEF scheduler_add_event
    <2> QED BY <2>2, <2>3
  <1>2. CASE scheduler_run
    <2>1. CASE events = <<>>
      BY <1>2, <2>1 DEF scheduler_run
    <2>2. CASE events # <<>>
      <3>1. PICK p \in qsort(events) : events' = [a \in 1 .. Len(events) |-> events[p[a]]]
        BY <1>2, <2>2 DEF scheduler_run
      <3>2. events' \in Seq(Event) /\ Len(events') = Len(events)
        BY <3>1, QsortType
      <3>3. events' # <<>>
        BY <2>2, <3>2, EmptySeq
      <3> QED BY <1>2, <2>2, <3>2, <3>3 DEF scheduler_run
    <2> QED BY <2>1, <2>2
  <1>3. CASE pick_event
    <2>1. i + 1 \in 1 .. Len(events) /\ events[i + 1] \in Event
      BY <1>3 DEF pick_event, no_more_events
    <2>2. events[i + 1].time \in Nat
      BY <2>1, EventTime
    <2> QED BY <1>3, <2>1, <2>2 DEF pick_event
  <1>4. CASE pick_sample
    BY <1>4 DEF pick_sample, next_sample, fire_advanced
  <1>5. CASE tick
    BY <1>5 DEF tick
  <1>6. CASE call_event
    <2>1. cur.ev \in 1 .. Len(events) /\ events[cur.ev] \in Event
      BY <1>6 DEF call_event
    <2>2. events[cur.ev].h.fire \in Nat /\ events[cur.ev].h.interval \in Nat
      BY <2>1 DEF Event
    <2>3. ran' \in Seq(Event)
      BY <1>6, <2>1 DEF call_event
    <2> QED BY <1>6, <2>2, <2>3 DEF call_event
  <1>7. CASE call_sample
    BY <1>7 DEF call_sample
  <1>8. CASE scheduler_ends
    BY <1>8 DEF scheduler_ends
  <1>9. CASE UNCHANGED vars
    BY <1>9 DEF vars
  <1> QED
    BY <1>1, <1>2, <1>3, <1>4, <1>5, <1>6, <1>7, <1>8, <1>9 DEF Next, Parse, Loop

\* The table never overflows and the loop's state is well typed.
THEOREM TypeCorrect == Spec => []TypeOK
  BY InitType, NextType, PTL DEF Spec

-----------------------------------------------------------------------------
(* The order of execution. *)

\* Events executed so far: all that were picked, but the one being waited for.
Executed == IF phase = "wait" /\ cur.ev # 0 THEN i - 1 ELSE i

\* The inductive invariant: the table is sorted once parsing is over, what ran
\* is its beginning, and what was picked is the earliest of what is left.
OrderInv ==
    /\ phase = "parse" => i = 0
    /\ phase # "parse" =>
          \A a, b \in 1 .. Len(events) : a < b => scheduler_compare_event(events[a], events[b])
    /\ phase = "done" => i = Len(events)
    /\ phase = "wait" => cur.ev \in {0, i} /\ (cur.ev # 0 => i > 0)
    /\ Len(ran) = Executed
    /\ \A a \in 1 .. Len(ran) : ran[a] = events[a]
    /\ EarliestFirst

LEMMA NextOrder == TypeOK /\ TypeOK' /\ OrderInv /\ [Next]_vars => OrderInv'
  <1> SUFFICES ASSUME TypeOK, TypeOK', OrderInv, [Next]_vars PROVE OrderInv'
    OBVIOUS
  <1> USE DEF tcp_vars
  <1>0. Len(events) \in Nat /\ Len(ran) \in Nat /\ i \in Nat
    BY DEF TypeOK
  <1>1. ASSUME NEW time \in Times, NEW h \in Handlers, scheduler_add_event(time, h)
        PROVE  OrderInv'
    <2>1. phase = "parse" /\ UNCHANGED <<phase, i, ran, cur>> /\ Len(ran) = 0
      BY <1>1 DEF scheduler_add_event, OrderInv, Executed
    <2> QED
      BY <2>1 DEF OrderInv, Executed, EarliestFirst
  <1>2. CASE scheduler_run
    <2>1. UNCHANGED <<i, ran, cur>> /\ phase = "parse" /\ phase' \in {"pick", "done"}
          /\ i = 0 /\ Len(ran) = 0
      BY <1>2 DEF scheduler_run, OrderInv, Executed
    <2>2. CASE events = <<>>
      <3>1. events' = events /\ Len(events) = 0
        BY <1>2, <2>2, EmptySeq DEF scheduler_run
      <3> QED BY <2>1, <3>1 DEF OrderInv, Executed, EarliestFirst
    <2>3. CASE events # <<>>
      <3>1. PICK p \in qsort(events) : events' = [a \in 1 .. Len(events) |-> events[p[a]]]
        BY <1>2, <2>3 DEF scheduler_run
      <3>2. events' \in Seq(Event) /\ Len(events') = Len(events)
        BY <3>1, QsortType DEF TypeOK
      <3>3. \A a, b \in 1 .. Len(events) : a < b => scheduler_compare_event(events'[a], events'[b])
        BY <3>1 DEF qsort
      <3>4. phase' = "pick"
        BY <1>2, <2>3 DEF scheduler_run
      <3>5. OrderInv!2'
        BY <3>2, <3>3 DEF scheduler_compare_event
      <3> QED
        BY <2>1, <3>4, <3>5 DEF OrderInv, Executed, EarliestFirst
    <2> QED BY <2>2, <2>3
  <1>3. CASE pick_event
    <2>1. /\ i + 1 \in 1 .. Len(events) /\ i' = i + 1 /\ phase' = "wait" /\ phase = "pick"
          /\ cur'.due = events[i + 1].time /\ cur'.ev = i + 1
          /\ UNCHANGED <<events, ran, fire, sample_interval>>
          /\ events[i + 1].time < next_sample
      BY <1>0, <1>3 DEF pick_event, no_more_events, event_first
    <2>2. /\ \A a, b \in 1 .. Len(events) : a < b => scheduler_compare_event(events[a], events[b])
          /\ Len(ran) = i /\ \A a \in 1 .. Len(ran) : ran[a] = events[a]
      BY <2>1 DEF OrderInv, Executed
    <2>3. \A k \in 1 .. Len(events) : events[k] \in Event /\ events[k].time \in Nat
      <3>1. events \in Seq(Event)
        BY DEF TypeOK
      <3>2. \A k \in 1 .. Len(events) : events[k] \in Event
        BY <3>1, ElementOfSeq
      <3> QED BY <3>2, EventTime
    <2>4. \A k \in i + 2 .. Len(events) : events[i + 1].time <= events[k].time
      <3> SUFFICES ASSUME NEW k \in i + 2 .. Len(events)
                   PROVE  events[i + 1].time <= events[k].time
        OBVIOUS
      <3>1. k \in 1 .. Len(events) /\ i + 1 < k
        BY <1>0
      <3>2. scheduler_compare_event(events[i + 1], events[k])
        BY <2>1, <2>2, <3>1
      <3> QED BY <2>1, <2>3, <3>1, <3>2 DEF scheduler_compare_event
    <2>5. EarliestFirst'
      <3>1. next_sample' = next_sample /\ next_sample \in Nat /\ events[i + 1].time \in Nat
        BY <2>1, <2>3 DEF next_sample, TypeOK
      <3>2. cur'.due <= next_sample'
        BY <2>1, <3>1
      <3>3. \A k \in i' + 1 .. Len(events') : cur'.due <= events'[k].time
        BY <1>0, <2>1, <2>4
      <3> QED BY <3>2, <3>3 DEF EarliestFirst
    <2>6. Executed' = i
      BY <1>0, <2>1 DEF Executed
    <2> QED
      BY <1>0, <2>1, <2>2, <2>5, <2>6 DEF OrderInv
  <1>4. CASE pick_sample
    <2>1. /\ i + 1 \in 1 .. Len(events) /\ phase' = "wait" /\ phase = "pick"
          /\ cur'.due = next_sample /\ cur'.ev = 0 /\ fire' = next_sample
          /\ UNCHANGED <<events, ran, i, sample_interval>>
          /\ ~(events[i + 1].time < next_sample)
      BY <1>0, <1>4 DEF pick_sample, no_more_events, event_first, fire_advanced
    <2>2. /\ \A a, b \in 1 .. Len(events) : a < b => scheduler_compare_event(events[a], events[b])
          /\ Len(ran) = i /\ \A a \in 1 .. Len(ran) : ran[a] = events[a]
      BY <2>1 DEF OrderInv, Executed
    <2>3. \A k \in 1 .. Len(events) : events[k] \in Event /\ events[k].time \in Nat
      <3>1. events \in Seq(Event)
        BY DEF TypeOK
      <3>2. \A k \in 1 .. Len(events) : events[k] \in Event
        BY <3>1, ElementOfSeq
      <3> QED BY <3>2, EventTime
    <2>4. next_sample \in Nat /\ next_sample' = next_sample + sample_interval
          /\ sample_interval \in Nat
      BY <2>1 DEF next_sample, TypeOK
    <2>5. \A k \in i + 1 .. Len(events) : next_sample <= events[k].time
      <3> SUFFICES ASSUME NEW k \in i + 1 .. Len(events)
                   PROVE  next_sample <= events[k].time
        OBVIOUS
      <3>1. k \in 1 .. Len(events) /\ (k = i + 1 \/ i + 1 < k)
        BY <1>0
      <3>2. next_sample <= events[i + 1].time
        BY <2>1, <2>3, <2>4
      <3>3. CASE i + 1 < k
        <4>1. scheduler_compare_event(events[i + 1], events[k])
          BY <2>1, <2>2, <3>1, <3>3
        <4> QED BY <2>1, <2>3, <2>4, <3>1, <3>2, <4>1 DEF scheduler_compare_event
      <3> QED BY <3>1, <3>2, <3>3
    <2>6. EarliestFirst'
      BY <2>1, <2>4, <2>5 DEF EarliestFirst
    <2>7. Executed' = i
      BY <2>1 DEF Executed
    <2> QED
      BY <2>1, <2>2, <2>6, <2>7 DEF OrderInv
  <1>5. CASE tick
    BY <1>5 DEF tick, OrderInv, Executed, EarliestFirst, next_sample
  <1>6. CASE call_event
    <2>1. /\ phase = "wait" /\ phase' = "pick" /\ cur.ev = i /\ i > 0
          /\ ran' = Append(ran, events[i]) /\ UNCHANGED <<events, i>>
      BY <1>6 DEF call_event, OrderInv
    <2>2. Len(ran) = i - 1 /\ events[i] \in Event
      BY <1>0, <2>1 DEF OrderInv, Executed, TypeOK
    <2>3. /\ Len(ran') = Len(ran) + 1
          /\ \A a \in 1 .. Len(ran) : ran'[a] = ran[a]
          /\ ran'[Len(ran) + 1] = events[i]
      <3>1. ran \in Seq(Event)
        BY DEF TypeOK
      <3> QED BY <2>1, <2>2, <3>1, AppendProperties
    <2>4. \A a \in 1 .. Len(ran') : ran'[a] = events[a]
      <3>1. \A a \in 1 .. Len(ran') : a \in 1 .. Len(ran) \/ a = Len(ran) + 1
        BY <1>0, <2>3
      <3> QED BY <1>0, <2>2, <2>3, <3>1 DEF OrderInv
    <2> QED
      BY <1>0, <2>1, <2>2, <2>3, <2>4 DEF OrderInv, Executed, EarliestFirst
  <1>7. CASE call_sample
    BY <1>7 DEF call_sample, OrderInv, Executed, EarliestFirst
  <1>8. CASE scheduler_ends
    BY <1>0, <1>8 DEF scheduler_ends, no_more_events, OrderInv, Executed, EarliestFirst, TypeOK
  <1>9. CASE UNCHANGED vars
    BY <1>9 DEF vars, OrderInv, Executed, EarliestFirst, next_sample
  <1> QED
    BY <1>1, <1>2, <1>3, <1>4, <1>5, <1>6, <1>7, <1>8, <1>9 DEF Next, Parse, Loop

LEMMA Ordered == Spec => [](TypeOK /\ OrderInv)
  <1>1. Init => OrderInv
    <2> SUFFICES ASSUME Init PROVE OrderInv
      OBVIOUS
    <2>1. Len(events) = 0 /\ Len(ran) = 0
      BY EmptySeq DEF Init
    <2> QED BY <2>1 DEF Init, OrderInv, Executed, EarliestFirst
  <1> QED
    BY <1>1, NextOrder, TypeCorrect, PTL DEF Spec

\* Events run by time and, within a millisecond, in the order of the trace.
THEOREM RunsInTraceOrder == Spec => []StableOrder
  <1>1. TypeOK /\ OrderInv => StableOrder
    <2> SUFFICES ASSUME TypeOK, OrderInv,
                        NEW a \in 1 .. Len(ran), NEW b \in 1 .. Len(ran), a < b
                 PROVE  \/ ran[a].time < ran[b].time
                        \/ ran[a].time = ran[b].time /\ ran[a].idx < ran[b].idx
      BY DEF StableOrder
    <2>1. Len(ran) <= Len(events) /\ ran[a] = events[a] /\ ran[b] = events[b]
      BY DEF OrderInv, Executed, TypeOK
    <2>2. a \in 1 .. Len(events) /\ b \in 1 .. Len(events)
      BY <2>1 DEF TypeOK
    <2>3. phase # "parse"
      BY DEF OrderInv, Executed, TypeOK
    <2>4. scheduler_compare_event(events[a], events[b])
      BY <2>2, <2>3 DEF OrderInv
    <2> QED BY <2>1, <2>4 DEF scheduler_compare_event
  <1> QED
    BY <1>1, Ordered, PTL

\* When the loop ends, no event of the table has been left out.
THEOREM RunsEverything == Spec => []NoEventLeftOut
  <1>1. TypeOK /\ OrderInv => NoEventLeftOut
    BY DEF OrderInv, Executed, NoEventLeftOut, TypeOK
  <1> QED
    BY <1>1, Ordered, PTL

\* The merge with the sampler never runs anything before what is due earlier.
THEOREM RunsEarliestFirst == Spec => []EarliestFirst
  <1>1. OrderInv => EarliestFirst
    BY DEF OrderInv
  <1> QED
    BY <1>1, Ordered, PTL

=============================================================================
