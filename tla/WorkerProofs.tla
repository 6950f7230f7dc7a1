---------------------------- MODULE WorkerProofs ----------------------------
(* Proofs of the worker's safety properties, for every value of the constants. *)
EXTENDS Worker, SequenceTheorems, TLAPS

-----------------------------------------------------------------------------
(* Sequences. *)

\* The release order lists the held ids, newest first.
LEMMA ReleaseOrder ==
    ASSUME NEW S, NEW s \in Seq(S)
    PROVE  /\ release_order(s) \in Seq(S)
           /\ Len(release_order(s)) = Len(s)
           /\ \A i \in 1 .. Len(s) : release_order(s)[i] = s[Len(s) - i + 1]
  BY DEF release_order, Reverse

\* The empty sequence is the one of length 0.
LEMMA EmptyLen ==
    ASSUME NEW S, NEW s \in Seq(S)
    PROVE  (s = <<>>) <=> (Len(s) = 0)
  BY EmptySeq

\* One more arrived packet: the ids known so far are still ids.
LEMMA ArrivalWidens ==
    ASSUME NEW h \in Headers, hdr \in Seq(Headers),
           NEW s \in Seq(1 .. Len(hdr))
    PROVE  s \in Seq(1 .. Len(Append(hdr, h)))
  <1>1. Len(hdr) \in Nat /\ Len(Append(hdr, h)) = Len(hdr) + 1
    OBVIOUS
  <1>2. 1 .. Len(hdr) \subseteq 1 .. Len(Append(hdr, h))
    BY <1>1
  <1> QED
    BY <1>2, SeqMonotonic

-----------------------------------------------------------------------------
(* Types. *)

LEMMA CappedCountType ==
    ASSUME NEW c \in Counts
    PROVE  capped_count(c) \in 0 .. WORKER_MAX_REORDER_COUNT
  BY ParametersAssumption DEF capped_count

LEMMA InitType == Init => TypeOK
  <1> SUFFICES ASSUME Init PROVE TypeOK
    OBVIOUS
  <1>1. reorder_ids \in Seq(Ids) /\ todo \in Seq(Ids) /\ hdr \in Seq(Headers) /\ out \in Seq(Verdicts)
    BY EmptySeq DEF Init, worker_init_ctx
  <1>2. /\ (todo # <<>>) <=> (pc \in {"load", "send"})
        /\ pc \in {"drop", "reorder", "dedup", "rwnd"} => hdr # <<>>
        /\ lock # "none" => pc \in {"load", "send"}
        /\ lock = "rwnd" => Len(todo) = 1
    BY DEF Init
  <1>3. /\ mark \in Nat /\ m \in Nat /\ tune_rwnd \in Nat
        /\ drop_count \in Int /\ reorder_count \in Int /\ reorder_offset \in Int
        /\ last_ack \in AckValues /\ ack0 \in AckValues /\ calls \in Nat /\ stale \in Nat
    BY ParametersAssumption DEF Init, worker_init_ctx
  <1> QED
    BY <1>1, <1>2, <1>3 DEF Init, worker_init_ctx, TypeOK

\* What a step of the thread leaves alone beyond the packet it works on.
LEMMA NextType == TypeOK /\ [Next]_vars => TypeOK'
  <1> SUFFICES ASSUME TypeOK, [Next]_vars PROVE TypeOK'
    OBVIOUS
  <1> USE ParametersAssumption, HeadersAssumption
  <1>1. CASE worker_callback
    <2>1. PICK h \in Headers : hdr' = Append(hdr, h)
      BY <1>1 DEF worker_callback
    <2>2. hdr' \in Seq(Headers) /\ hdr' # <<>>
      <3>1. hdr' \in Seq(Headers) /\ Len(hdr') = Len(hdr) + 1 /\ Len(hdr) \in Nat
        BY <2>1 DEF TypeOK
      <3> QED BY <3>1, EmptyLen
    <2>3. reorder_ids' \in Seq(Ids') /\ todo' \in Seq(Ids')
      BY <1>1, <2>1, ArrivalWidens DEF worker_callback, TypeOK, Ids, reorder_vars
    <2> QED
      BY <1>1, <2>2, <2>3 DEF worker_callback, TypeOK, drop_vars, reorder_vars, rwnd_vars
  <1>2. CASE worker_handle_drop
    <2>1. Drop(Current, "loss") \in Verdicts
      BY DEF TypeOK, Drop, Verdicts, Current
    <2>2. out' \in Seq(Verdicts)
      BY <1>2, <2>1 DEF worker_handle_drop, TypeOK
    <2> QED
      BY <1>2, <2>2 DEF worker_handle_drop, handled_then, TypeOK, Ids, reorder_vars, rwnd_vars
  <1>3. CASE worker_handle_reorder
    <2> DEFINE hold == reorder_count > 0
               ids  == IF hold THEN Append(reorder_ids, Current) ELSE reorder_ids
               pass == IF ~hold /\ reorder_offset > 0 THEN <<Current>> ELSE <<>>
               rel  == IF reorder_offset' <= 0 THEN release_order(ids) ELSE <<>>
    <2>1. Current \in Ids /\ hdr' = hdr
      BY <1>3 DEF worker_handle_reorder, TypeOK, Current, Ids, kernel_vars
    <2>2. ids \in Seq(Ids) /\ pass \in Seq(Ids)
      BY <2>1 DEF TypeOK
    <2>3. rel \in Seq(Ids)
      <3>1. release_order(ids) \in Seq(Ids)
        BY <2>2, ReleaseOrder
      <3> QED BY <3>1, EmptySeq
    <2>4. todo' = pass \o rel
      BY <1>3 DEF worker_handle_reorder
    <2>5. todo' \in Seq(Ids')
      <3> HIDE DEF pass, rel
      <3> QED BY <2>1, <2>2, <2>3, <2>4 DEF Ids
    <2>6. reorder_ids' \in Seq(Ids')
      <3>1. reorder_ids' \in {<<>>, ids}
        BY <1>3 DEF worker_handle_reorder
      <3> HIDE DEF ids
      <3> QED BY <2>1, <2>2, <3>1, EmptySeq DEF Ids
    <2>7. lock = "none"
      BY <1>3 DEF worker_handle_reorder, TypeOK
    <2>8. /\ (todo' # <<>>) <=> (pc' \in {"load", "send"})
          /\ pc' \in {"recv", "load"}
          /\ lock' \in {"none", "reorder"}
          /\ lock' # "none" => pc' = "load"
      BY <1>3, <2>7 DEF worker_handle_reorder
    <2>9. do_reorder' \in BOOLEAN /\ reorder_count' \in Int /\ reorder_offset' \in Int
      BY <1>3 DEF worker_handle_reorder, TypeOK
    <2>10. UNCHANGED <<mark, m, do_drop, drop_count, do_dedup, do_rwnd, tune_rwnd, last_ack,
                       hdr, out, calls, stale, ack0>>
      BY <1>3 DEF worker_handle_reorder, drop_vars, rwnd_vars, kernel_vars
    <2> QED
      BY <2>5, <2>6, <2>8, <2>9, <2>10 DEF TypeOK
  <1>4. CASE worker_skip_reorder
    BY <1>4 DEF worker_skip_reorder, TypeOK, Ids, drop_vars, reorder_vars, rwnd_vars, kernel_vars
  <1>5. CASE worker_handle_dedup
    <2>1. Drop(Current, "dup") \in Verdicts
      BY DEF TypeOK, Drop, Verdicts, Current
    <2>2. out' \in Seq(Verdicts)
      BY <1>5, <2>1 DEF worker_handle_dedup, TypeOK
    <2> QED
      BY <1>5, <2>2 DEF worker_handle_dedup, handled_then, TypeOK, Ids, drop_vars,
                        reorder_vars, rwnd_vars
  <1>6. CASE worker_handle_rwnd
    <2>1. Current \in Ids /\ Header \in Headers /\ hdr' = hdr
      BY <1>6 DEF worker_handle_rwnd, TypeOK, Current, Ids, Header, kernel_vars
    <2>2. Header.ack \in AckValues
      BY <2>1
    <2>3. todo' \in Seq(Ids') /\ todo' # <<>> /\ Len(todo') = 1
      BY <1>6, <2>1 DEF worker_handle_rwnd, Ids
    <2> QED
      BY <1>6, <2>1, <2>2, <2>3
         DEF worker_handle_rwnd, TypeOK, Ids, drop_vars, reorder_vars, kernel_vars
  <1>7. CASE load_mark
    BY <1>7 DEF load_mark, TypeOK, Ids, drop_vars, reorder_vars, rwnd_vars, kernel_vars
  <1>8. CASE nfq_set_verdict2
    <2>1. todo # <<>> /\ hdr' = hdr
      BY <1>8 DEF nfq_set_verdict2, TypeOK
    <2>2. Head(todo) \in Ids
      BY <2>1 DEF TypeOK
    <2>3. hdr[Head(todo)] \in Headers
      BY <2>2 DEF TypeOK, Ids
    <2>4. (IF lock = "rwnd" THEN tune_rwnd ELSE hdr[Head(todo)].win) \in Nat
      BY <2>3 DEF TypeOK
    <2>5. out' \in Seq(Verdicts)
      BY <1>8, <2>2, <2>4 DEF nfq_set_verdict2, Accept, Verdicts, TypeOK, Ids
    <2>6. todo' \in Seq(Ids') /\ Len(todo') = Len(todo) - 1
      BY <1>8, <2>1 DEF nfq_set_verdict2, TypeOK, Ids
    <2>7. (todo' = <<>>) <=> (Len(todo) = 1)
      <3>1. Len(todo) \in Nat \ {0}
        BY <2>1, EmptySeq DEF TypeOK
      <3>2. (todo' = <<>>) <=> (Len(todo') = 0)
        BY <2>6, EmptyLen
      <3> QED BY <2>6, <3>1, <3>2
    <2>8. /\ (todo' # <<>>) <=> (pc' \in {"load", "send"})
          /\ pc' \in {"recv", "load"}
          /\ lock' \in {"none", "reorder", "rwnd"}
          /\ lock' # "none" => pc' = "load"
          /\ lock' # "rwnd"
      BY <1>8, <2>7 DEF nfq_set_verdict2, mark_reloaded, TypeOK
    <2>9. stale' \in Nat
      BY <1>8 DEF nfq_set_verdict2, TypeOK
    <2>10. Ids' = Ids /\ UNCHANGED <<mark, m, do_drop, drop_count, do_reorder, reorder_count,
             reorder_offset, reorder_ids, do_dedup, do_rwnd, tune_rwnd, last_ack, hdr, calls, ack0>>
      BY <1>8 DEF nfq_set_verdict2, Ids, drop_vars, reorder_vars, rwnd_vars
    <2> QED
      BY <2>5, <2>6, <2>8, <2>9, <2>10 DEF TypeOK
  <1>9. CASE SchedulerThread
    <2> USE DEF TypeOK, Ids, Call, drop_vars, reorder_vars, rwnd_vars, thread_vars, kernel_vars
    <2>1. ASSUME NEW new \in Marks, worker_set_mark(new) PROVE TypeOK'
      BY <2>1 DEF worker_set_mark
    <2>2. ASSUME NEW n \in Drops, worker_set_drop(n) PROVE TypeOK'
      BY <2>2 DEF worker_set_drop
    <2>3. ASSUME NEW c \in Counts, NEW o \in Offsets, worker_set_reorder(c, o) PROVE TypeOK'
      <3>1. capped_count(c) \in Int /\ o % U16 \in Int
        BY CappedCountType
      <3> QED
        BY <2>3, <3>1 DEF worker_set_reorder
    <2>4. ASSUME NEW b \in BOOLEAN, worker_set_dedup(b) PROVE TypeOK'
      BY <2>4 DEF worker_set_dedup
    <2>5. ASSUME NEW b \in BOOLEAN, worker_init_tcp_sched(b) PROVE TypeOK'
      BY <2>5 DEF worker_init_tcp_sched
    <2>6. ASSUME NEW w \in Windows, worker_set_rwnd(w) PROVE TypeOK'
      BY <2>6 DEF worker_set_rwnd
    <2> QED
      BY <1>9, <2>1, <2>2, <2>3, <2>4, <2>5, <2>6 DEF SchedulerThread
  <1>10. CASE UNCHANGED vars
    BY <1>10 DEF vars, TypeOK, Ids, drop_vars, reorder_vars, rwnd_vars, thread_vars, kernel_vars
  <1> QED
    BY <1>1, <1>2, <1>3, <1>4, <1>5, <1>6, <1>7, <1>8, <1>9, <1>10 DEF Next, NfqThread

\* Every reachable state of worker_ctx and of the callback is well typed.
THEOREM TypeCorrect == Spec => []TypeOK
  BY InitType, NextType, PTL DEF Spec

-----------------------------------------------------------------------------
(* The reorder buffer. *)

LEMMA NextBuffer == TypeOK /\ ReorderWithinBuffer /\ [Next]_vars => ReorderWithinBuffer'
  <1> SUFFICES ASSUME TypeOK, ReorderWithinBuffer, [Next]_vars PROVE ReorderWithinBuffer'
    OBVIOUS
  <1>1. CASE worker_handle_reorder
    <2>1. CASE reorder_offset' <= 0
      <3>1. Len(reorder_ids') = 0 /\ ~do_reorder'
        BY <1>1, <2>1, EmptySeq DEF worker_handle_reorder
      <3> QED
        BY <3>1, ParametersAssumption DEF ReorderWithinBuffer
    <2>2. CASE ~(reorder_offset' <= 0) /\ reorder_count > 0
      <3>1. reorder_ids' = Append(reorder_ids, Current)
        BY <1>1, <2>2 DEF worker_handle_reorder
      <3>2. Len(reorder_ids') = Len(reorder_ids) + 1 /\ Len(reorder_ids) \in Nat
        BY <3>1 DEF TypeOK
      <3> QED
        BY <1>1, <2>2, <3>2, ParametersAssumption
           DEF worker_handle_reorder, ReorderWithinBuffer, TypeOK
    <2>3. CASE ~(reorder_offset' <= 0) /\ ~(reorder_count > 0)
      BY <1>1, <2>3 DEF worker_handle_reorder, ReorderWithinBuffer, TypeOK
    <2> QED
      BY <2>1, <2>2, <2>3
  <1>2. ASSUME NEW c \in Counts, NEW o \in Offsets, worker_set_reorder(c, o)
        PROVE  ReorderWithinBuffer'
    <2>1. Len(reorder_ids') = 0 /\ reorder_count' = capped_count(c)
      BY <1>2, EmptySeq DEF worker_set_reorder
    <2> QED
      BY <2>1, CappedCountType, ParametersAssumption DEF ReorderWithinBuffer
  <1>3. CASE UNCHANGED reorder_vars
    BY <1>3 DEF reorder_vars, ReorderWithinBuffer
  <1> QED
    BY <1>1, <1>2, <1>3
       DEF Next, NfqThread, SchedulerThread, vars, worker_callback, worker_handle_drop,
           worker_skip_reorder, worker_handle_dedup, worker_handle_rwnd, load_mark,
           nfq_set_verdict2, worker_set_mark, worker_set_drop, worker_set_dedup,
           worker_init_tcp_sched, worker_set_rwnd

\* worker_handle_reorder never writes outside reorder_ids, whatever counts
\* the trace asks for and however often reordering is armed again.
THEOREM BufferSafe == Spec => []ReorderWithinBuffer
  <1>1. Init => ReorderWithinBuffer
    BY EmptySeq, ParametersAssumption DEF Init, worker_init_ctx, ReorderWithinBuffer
  <1> QED
    BY <1>1, NextBuffer, TypeCorrect, PTL DEF Spec

-----------------------------------------------------------------------------
(* Marks. *)

\* The strengthening: a verdict about to be sent with an old mark is the
\* first one since worker_set_mark.
StaleInv == stale <= 1 /\ (pc = "send" /\ m # mark => stale = 0)

LEMMA NextStale == TypeOK /\ StaleInv /\ [Next]_vars => StaleInv'
  <1> SUFFICES ASSUME TypeOK, StaleInv, [Next]_vars PROVE StaleInv'
    OBVIOUS
  <1>1. CASE load_mark
    BY <1>1 DEF load_mark, StaleInv
  <1>2. CASE nfq_set_verdict2
    BY <1>2 DEF nfq_set_verdict2, mark_reloaded, StaleInv, TypeOK
  <1>3. ASSUME NEW new \in Marks, worker_set_mark(new) PROVE StaleInv'
    BY <1>3 DEF worker_set_mark, StaleInv
  <1>4. CASE pc' \in {"recv", "drop", "reorder", "dedup", "rwnd", "load"} /\ UNCHANGED stale
    BY <1>4 DEF StaleInv
  <1>5. CASE UNCHANGED <<pc, m, mark, stale>>
    BY <1>5 DEF StaleInv
  <1> QED
    BY <1>1, <1>2, <1>3, <1>4, <1>5
       DEF Next, NfqThread, SchedulerThread, vars, thread_vars, handled_then, worker_callback,
           worker_handle_drop, worker_handle_reorder, worker_skip_reorder, worker_handle_dedup,
           worker_handle_rwnd, worker_set_drop, worker_set_reorder, worker_set_dedup,
           worker_init_tcp_sched, worker_set_rwnd

\* A change of the mark takes effect with at most one packet of delay, also
\* in the middle of a release of held packets.
THEOREM MarkTakesEffect == Spec => []AtMostOneStaleMark
  <1>1. Init => StaleInv
    BY DEF Init, StaleInv
  <1>2. StaleInv => AtMostOneStaleMark
    BY DEF StaleInv, AtMostOneStaleMark
  <1> QED
    BY <1>1, <1>2, NextStale, TypeCorrect, PTL DEF Spec

-----------------------------------------------------------------------------
(* Verdicts. *)

Fresh(id)    == \A i \in 1 .. Len(out) : out[i].id # id
Distinct(s)  == \A i, j \in 1 .. Len(s) : s[i] = s[j] => i = j
InHandler    == pc \in {"drop", "reorder", "dedup", "rwnd"}

\* The strengthening of OneVerdict: the packets that may still be accepted
\* (the current one, the listed ones, the held ones) have no verdict and are
\* all different.
VerdictInv ==
    /\ \A i, j \in 1 .. Len(out) : out[i].id = out[j].id => i = j
    /\ \A i \in 1 .. Len(out) : out[i].id \in Ids
    /\ Distinct(reorder_ids)
    /\ Distinct(todo)
    /\ \A i \in 1 .. Len(reorder_ids) : Fresh(reorder_ids[i])
    /\ \A i \in 1 .. Len(todo) : Fresh(todo[i])
    /\ \A i \in 1 .. Len(reorder_ids), j \in 1 .. Len(todo) : reorder_ids[i] # todo[j]
    /\ InHandler => /\ Fresh(Current)
                    /\ \A i \in 1 .. Len(reorder_ids) : reorder_ids[i] # Current

\* A verdict for a fresh packet keeps all verdicts different.
LEMMA AppendVerdict ==
    ASSUME TypeOK, VerdictInv, NEW v \in Verdicts, v.id \in Ids, Fresh(v.id),
           out' = Append(out, v), Ids' = Ids
    PROVE  /\ \A i, j \in 1 .. Len(out') : out'[i].id = out'[j].id => i = j
           /\ \A i \in 1 .. Len(out') : out'[i].id \in Ids'
           /\ \A id : Fresh(id) /\ id # v.id => Fresh(id)'
  <1>1. /\ Len(out) \in Nat /\ Len(out') = Len(out) + 1
        /\ \A i \in 1 .. Len(out) : out'[i] = out[i]
        /\ out'[Len(out) + 1] = v
    BY AppendProperties DEF TypeOK
  <1>2. \A i \in 1 .. Len(out') : i \in 1 .. Len(out) \/ i = Len(out) + 1
    BY <1>1
  <1> QED
    BY <1>1, <1>2 DEF VerdictInv, Fresh

\* A handler that drops the current packet.
LEMMA DropCurrent ==
    ASSUME TypeOK, VerdictInv, InHandler, NEW why \in {"loss", "dup"},
           out' = Append(out, Drop(Current, why)),
           pc' = "recv", UNCHANGED <<reorder_ids, todo, hdr>>
    PROVE  VerdictInv'
  <1>1. Current \in Ids /\ Ids' = Ids /\ todo = <<>>
    BY EmptySeq DEF TypeOK, Current, Ids, InHandler
  <1>2. Drop(Current, why) \in Verdicts /\ Drop(Current, why).id = Current
    BY <1>1 DEF Drop, Verdicts, Ids
  <1>3. Fresh(Current) /\ \A i \in 1 .. Len(reorder_ids) : reorder_ids[i] # Current
    BY DEF VerdictInv
  <1>4. /\ \A i, j \in 1 .. Len(out') : out'[i].id = out'[j].id => i = j
        /\ \A i \in 1 .. Len(out') : out'[i].id \in Ids'
        /\ \A id : Fresh(id) /\ id # Current => Fresh(id)'
    BY <1>1, <1>2, <1>3, AppendVerdict
  <1>5. (\A i \in 1 .. Len(reorder_ids) : Fresh(reorder_ids[i]))'
    BY <1>3, <1>4 DEF VerdictInv, Fresh
  <1>6. Len(todo') = 0
    BY <1>1, EmptySeq
  <1> QED
    BY <1>4, <1>5, <1>6 DEF VerdictInv, Distinct, InHandler

LEMMA NextVerdict == TypeOK /\ TypeOK' /\ VerdictInv /\ [Next]_vars => VerdictInv'
  <1> SUFFICES ASSUME TypeOK, TypeOK', VerdictInv, [Next]_vars PROVE VerdictInv'
    OBVIOUS
  <1>1. CASE worker_callback
    <2>1. /\ Len(hdr) \in Nat /\ Len(hdr') = Len(hdr) + 1
          /\ UNCHANGED <<out, reorder_ids, todo>>
          /\ todo = <<>>
      BY <1>1 DEF worker_callback, TypeOK, reorder_vars
    <2>2. /\ Ids \subseteq Ids' /\ Current' \notin Ids
      BY <2>1 DEF Ids, Current
    <2>3. \A i \in 1 .. Len(reorder_ids) : reorder_ids[i] \in Ids
      <3>1. reorder_ids \in Seq(Ids)
        BY DEF TypeOK
      <3> QED BY <3>1, ElementOfSeq
    <2> QED
      BY <2>1, <2>2, <2>3 DEF VerdictInv, Fresh, Distinct
  <1>2. CASE worker_handle_drop
    <2>1. CASE do_drop /\ drop_count > 0
      BY <1>2, <2>1, DropCurrent DEF worker_handle_drop, handled_then, InHandler, reorder_vars
    <2>2. CASE ~(do_drop /\ drop_count > 0)
      BY <1>2, <2>2 DEF worker_handle_drop, handled_then, InHandler, reorder_vars, VerdictInv,
                        Fresh, Distinct, Ids, Current
    <2> QED BY <2>1, <2>2
  <1>3. CASE worker_handle_reorder
    <2> DEFINE hold == reorder_count > 0
               ids  == IF hold THEN Append(reorder_ids, Current) ELSE reorder_ids
               pass == IF ~hold /\ reorder_offset > 0 THEN <<Current>> ELSE <<>>
               rel  == IF reorder_offset' <= 0 THEN release_order(ids) ELSE <<>>
    <2>1. /\ Current \in Ids /\ UNCHANGED <<hdr, out>> /\ Ids' = Ids
          /\ Fresh(Current) /\ (\A i \in 1 .. Len(reorder_ids) : reorder_ids[i] # Current)
      BY <1>3 DEF worker_handle_reorder, TypeOK, VerdictInv, InHandler, Current, Ids, kernel_vars
    <2>2. /\ ids \in Seq(Ids) /\ Distinct(ids)
          /\ \A i \in 1 .. Len(ids) : Fresh(ids[i])
          /\ ~hold => \A i \in 1 .. Len(ids) : ids[i] # Current
      <3>1. CASE hold
        <4>1. /\ Append(reorder_ids, Current) \in Seq(Ids)
              /\ Len(reorder_ids) \in Nat
              /\ Len(Append(reorder_ids, Current)) = Len(reorder_ids) + 1
              /\ \A i \in 1 .. Len(reorder_ids) : Append(reorder_ids, Current)[i] = reorder_ids[i]
              /\ Append(reorder_ids, Current)[Len(reorder_ids) + 1] = Current
          BY <2>1, AppendProperties DEF TypeOK
        <4>2. \A i \in 1 .. Len(reorder_ids) + 1 :
                 i \in 1 .. Len(reorder_ids) \/ i = Len(reorder_ids) + 1
          BY <4>1
        <4> QED
          BY <2>1, <3>1, <4>1, <4>2 DEF VerdictInv, Distinct
      <3>2. CASE ~hold
        BY <2>1, <3>2 DEF VerdictInv, TypeOK
      <3> QED BY <3>1, <3>2
    <2>3. /\ rel \in Seq(Ids) /\ Distinct(rel)
          /\ \A i \in 1 .. Len(rel) : Fresh(rel[i])
          /\ ~hold => \A i \in 1 .. Len(rel) : rel[i] # Current
      <3>1. CASE reorder_offset' <= 0
        <4> HIDE DEF ids
        <4>1. /\ rel \in Seq(Ids) /\ Len(rel) = Len(ids) /\ Len(ids) \in Nat
              /\ \A i \in 1 .. Len(ids) : rel[i] = ids[Len(ids) - i + 1]
          BY <2>2, <3>1, ReleaseOrder
        <4>2. \A i \in 1 .. Len(ids) : Len(ids) - i + 1 \in 1 .. Len(ids)
          BY <4>1
        <4> HIDE DEF rel
        <4>3. Distinct(rel)
          <5> SUFFICES ASSUME NEW i \in 1 .. Len(ids), NEW j \in 1 .. Len(ids), rel[i] = rel[j]
                       PROVE  i = j
            BY <4>1 DEF Distinct
          <5>1. ids[Len(ids) - i + 1] = ids[Len(ids) - j + 1]
            BY <4>1
          <5>2. Len(ids) - i + 1 = Len(ids) - j + 1
            BY <2>2, <4>2, <5>1 DEF Distinct
          <5> QED BY <4>1, <5>2
        <4> QED
          BY <2>2, <4>1, <4>2, <4>3
      <3>2. CASE ~(reorder_offset' <= 0)
        <4>1. rel = <<>> /\ rel \in Seq(Ids) /\ Len(rel) = 0
          BY <3>2, EmptySeq
        <4> HIDE DEF rel
        <4> QED BY <4>1 DEF Distinct
      <3> QED BY <3>1, <3>2
    <2>4. pass \in Seq(Ids) /\ Len(pass) \in {0, 1}
          /\ \A i \in 1 .. Len(pass) : pass[i] = Current /\ ~hold
      BY <2>1
    <2>5. todo' = pass \o rel /\ reorder_ids' = IF reorder_offset' <= 0 THEN <<>> ELSE ids
      BY <1>3 DEF worker_handle_reorder
    <2> HIDE DEF pass, rel, ids
    <2>6. /\ Len(todo') = Len(pass) + Len(rel) /\ Len(rel) \in Nat
          /\ \A i \in 1 .. Len(todo') : \/ i \in 1 .. Len(pass) /\ todo'[i] = pass[i]
                                        \/ /\ i - Len(pass) \in 1 .. Len(rel)
                                           /\ todo'[i] = rel[i - Len(pass)]
      BY <2>3, <2>4, <2>5, ConcatProperties
    <2>7. Distinct(todo')
      <3> SUFFICES ASSUME NEW i \in 1 .. Len(todo'), NEW j \in 1 .. Len(todo'), todo'[i] = todo'[j]
                   PROVE  i = j
        BY DEF Distinct
      <3>1. CASE i \in 1 .. Len(pass) /\ j \in 1 .. Len(pass)
        BY <2>4, <3>1
      <3>2. CASE /\ i - Len(pass) \in 1 .. Len(rel) /\ todo'[i] = rel[i - Len(pass)]
                 /\ j - Len(pass) \in 1 .. Len(rel) /\ todo'[j] = rel[j - Len(pass)]
        <4>1. i - Len(pass) = j - Len(pass)
          BY <2>3, <3>2 DEF Distinct
        <4> QED BY <2>4, <2>6, <4>1
      <3>3. CASE i \in 1 .. Len(pass) /\ j - Len(pass) \in 1 .. Len(rel)
        BY <2>3, <2>4, <2>6, <3>3
      <3>4. CASE j \in 1 .. Len(pass) /\ i - Len(pass) \in 1 .. Len(rel)
        BY <2>3, <2>4, <2>6, <3>4
      <3> QED BY <2>6, <3>1, <3>2, <3>3, <3>4
    <2>8. \A i \in 1 .. Len(todo') : Fresh(todo'[i])
      BY <2>1, <2>3, <2>4, <2>6
    <2>9. /\ Distinct(reorder_ids')
          /\ \A i \in 1 .. Len(reorder_ids') : Fresh(reorder_ids'[i])
          /\ \A i \in 1 .. Len(reorder_ids'), j \in 1 .. Len(todo') : reorder_ids'[i] # todo'[j]
      <3>1. CASE reorder_offset' <= 0
        <4>1. Len(reorder_ids') = 0
          BY <2>5, <3>1, EmptySeq
        <4> QED BY <4>1 DEF Distinct
      <3>2. CASE ~(reorder_offset' <= 0)
        <4>1. reorder_ids' = ids /\ Len(rel) = 0
          BY <2>5, <3>2, EmptySeq DEF rel
        <4>2. \A j \in 1 .. Len(todo') : ~hold /\ todo'[j] = Current
          BY <2>4, <2>6, <4>1
        <4> QED BY <2>2, <4>1, <4>2
      <3> QED BY <3>1, <3>2
    <2>10. ~InHandler'
      BY <1>3 DEF worker_handle_reorder, InHandler
    <2> QED
      BY <2>1, <2>7, <2>8, <2>9, <2>10 DEF VerdictInv, Fresh, Distinct
  <1>4. CASE worker_skip_reorder
    BY <1>4 DEF worker_skip_reorder, VerdictInv, Fresh, Distinct, InHandler, Ids, Current,
                reorder_vars, kernel_vars
  <1>5. CASE worker_handle_dedup
    <2>1. CASE do_dedup /\ is_dup_ack(Header)
      BY <1>5, <2>1, DropCurrent DEF worker_handle_dedup, handled_then, InHandler, reorder_vars
    <2>2. CASE ~(do_dedup /\ is_dup_ack(Header))
      BY <1>5, <2>2 DEF worker_handle_dedup, handled_then, InHandler, reorder_vars, VerdictInv,
                        Fresh, Distinct, Ids, Current
    <2> QED BY <2>1, <2>2
  <1>6. CASE worker_handle_rwnd
    <2>1. UNCHANGED <<reorder_ids, hdr, out>> /\ todo' = <<Current>> /\ pc' = "load"
          /\ InHandler
      BY <1>6 DEF worker_handle_rwnd, reorder_vars, kernel_vars, InHandler
    <2>2. Len(todo') = 1 /\ todo'[1] = Current
      BY <2>1
    <2> QED
      BY <2>1, <2>2 DEF VerdictInv, Fresh, Distinct, InHandler, Ids, Current
  <1>7. CASE load_mark
    BY <1>7 DEF load_mark, VerdictInv, Fresh, Distinct, InHandler, Ids, Current,
                reorder_vars, kernel_vars
  <1>8. CASE nfq_set_verdict2
    <2> DEFINE v == Accept(Head(todo), IF lock = "rwnd" THEN tune_rwnd ELSE hdr[Head(todo)].win)
    <2>1. /\ out' = Append(out, v) /\ todo' = Tail(todo) /\ Ids' = Ids
          /\ UNCHANGED <<reorder_ids, hdr>> /\ todo # <<>> /\ ~InHandler'
      BY <1>8 DEF nfq_set_verdict2, mark_reloaded, reorder_vars, TypeOK, InHandler, Ids
    <2>2. /\ Len(todo) \in Nat \ {0} /\ Head(todo) = todo[1] /\ Head(todo) \in Ids
          /\ Len(todo') = Len(todo) - 1
          /\ \A i \in 1 .. Len(todo') : todo'[i] = todo[i + 1]
      BY <2>1, EmptySeq, HeadTailProperties DEF TypeOK
    <2>3. v.id = Head(todo) /\ Fresh(v.id) /\ v.id \in Ids
      BY <2>2 DEF Accept, VerdictInv
    <2>4. v \in Verdicts
      <3> DEFINE first == Head(todo)
      <3>1. first \in 1 .. Len(hdr) /\ first \in Nat
        BY <2>2 DEF Ids
      <3> HIDE DEF first
      <3>2. hdr[first] \in Headers
        BY <3>1, ElementOfSeq DEF TypeOK
      <3>3. (IF lock = "rwnd" THEN tune_rwnd ELSE hdr[first].win) \in Nat
        BY <3>2, HeadersAssumption DEF TypeOK
      <3>4. m \in Nat
        BY DEF TypeOK
      <3> QED BY <3>1, <3>3, <3>4 DEF Accept, Verdicts, first
    <2> HIDE DEF v
    <2>5. /\ \A i, j \in 1 .. Len(out') : out'[i].id = out'[j].id => i = j
          /\ \A i \in 1 .. Len(out') : out'[i].id \in Ids'
          /\ \A id : Fresh(id) /\ id # v.id => Fresh(id)'
      BY <2>1, <2>3, <2>4, AppendVerdict
    <2>6. Distinct(todo') /\ \A i \in 1 .. Len(todo') : todo'[i] # v.id /\ Fresh(todo'[i])
      BY <2>2, <2>3 DEF VerdictInv, Distinct
    <2>7. /\ \A i \in 1 .. Len(reorder_ids') : reorder_ids'[i] # v.id /\ Fresh(reorder_ids'[i])
          /\ \A i \in 1 .. Len(reorder_ids'), j \in 1 .. Len(todo') : reorder_ids'[i] # todo'[j]
          /\ Distinct(reorder_ids')
      BY <2>1, <2>2, <2>3 DEF VerdictInv, Distinct
    <2> QED
      BY <2>1, <2>5, <2>6, <2>7 DEF VerdictInv, Fresh, Distinct
  <1>9. CASE SchedulerThread
    <2>1. UNCHANGED <<out, hdr, todo, pc>> /\ reorder_ids' \in {reorder_ids, <<>>}
      BY <1>9 DEF SchedulerThread, worker_set_mark, worker_set_drop, worker_set_reorder,
                  worker_set_dedup, worker_init_tcp_sched, worker_set_rwnd, thread_vars,
                  reorder_vars, kernel_vars
    <2>2. CASE reorder_ids' = reorder_ids
      BY <2>1, <2>2 DEF VerdictInv, Fresh, Distinct, InHandler, Ids, Current
    <2>3. CASE Len(reorder_ids') = 0
      BY <2>1, <2>3 DEF VerdictInv, Fresh, Distinct, InHandler, Ids, Current
    <2> QED BY <2>1, <2>2, <2>3, EmptySeq
  <1>10. CASE UNCHANGED vars
    BY <1>10 DEF vars, VerdictInv, Fresh, Distinct, InHandler, Ids, Current, reorder_vars,
                 thread_vars, kernel_vars
  <1> QED
    BY <1>1, <1>2, <1>3, <1>4, <1>5, <1>6, <1>7, <1>8, <1>9, <1>10 DEF Next, NfqThread

\* The strengthened invariant holds throughout.
LEMMA VerdictsInvariant == Spec => []VerdictInv
  <1>1. Init => VerdictInv
    <2> SUFFICES ASSUME Init PROVE VerdictInv
      OBVIOUS
    <2>1. Len(out) = 0 /\ Len(todo) = 0 /\ Len(reorder_ids) = 0 /\ ~InHandler
      BY EmptySeq DEF Init, worker_init_ctx, InHandler
    <2> QED BY <2>1 DEF VerdictInv, Distinct
  <1> QED
    BY <1>1, NextVerdict, TypeCorrect, PTL DEF Spec

\* No packet is ever given two verdicts, for any number of packets, any
\* handover parameters and any timing of the setters, overlaps included.
THEOREM NoDoubleVerdict == Spec => []OneVerdict
  <1>1. TypeOK /\ VerdictInv => OneVerdict
    <2> SUFFICES ASSUME TypeOK, VerdictInv PROVE OneVerdict
      OBVIOUS
    <2>1. DOMAIN out = 1 .. Len(out)
      BY LenProperties DEF TypeOK
    <2> QED BY <2>1 DEF VerdictInv, OneVerdict
  <1> QED
    BY <1>1, VerdictsInvariant, TypeCorrect, PTL

-----------------------------------------------------------------------------
(* Packets and their headers. *)

\* An arriving packet leaves the headers of the earlier ones alone.
LEMMA HeadersKept ==
    ASSUME TypeOK, worker_callback
    PROVE  \A id \in Ids : id \in Ids' /\ hdr'[id] = hdr[id]
  <1>1. PICK h \in Headers : hdr' = Append(hdr, h)
    BY DEF worker_callback
  <1>2. /\ Len(hdr) \in Nat /\ Len(hdr') = Len(hdr) + 1
        /\ \A i \in 1 .. Len(hdr) : hdr'[i] = hdr[i]
    BY <1>1, AppendProperties DEF TypeOK
  <1> QED
    BY <1>2 DEF Ids

\* The callback of a handler works on the newest packet.
LEMMA CurrentHeader ==
    ASSUME TypeOK, InHandler
    PROVE  Current \in Ids /\ Header \in Headers /\ Header = hdr[Current] /\ todo = <<>>
  <1>1. hdr \in Seq(Headers) /\ hdr # <<>> /\ todo = <<>>
    BY DEF TypeOK, InHandler
  <1>2. Len(hdr) \in Nat \ {0}
    BY <1>1, EmptySeq
  <1> QED
    BY <1>1, <1>2, ElementOfSeq DEF Current, Ids, Header

\* The packet that is sent next is one that arrived.
LEMMA HeadOfTodo ==
    ASSUME TypeOK, pc \in {"load", "send"}
    PROVE  /\ Head(todo) \in Ids /\ Head(todo) = todo[1] /\ Len(todo) \in Nat \ {0}
           /\ hdr[Head(todo)] \in Headers
           /\ Len(Tail(todo)) = Len(todo) - 1
           /\ \A i \in 1 .. Len(Tail(todo)) : Tail(todo)[i] = todo[i + 1]
  <1>1. todo \in Seq(Ids) /\ todo # <<>> /\ hdr \in Seq(Headers)
    BY DEF TypeOK
  <1>2. /\ Head(todo) \in Ids /\ Head(todo) = todo[1] /\ Len(todo) \in Nat \ {0}
        /\ Len(Tail(todo)) = Len(todo) - 1
        /\ \A i \in 1 .. Len(Tail(todo)) : Tail(todo)[i] = todo[i + 1]
    BY <1>1, EmptySeq, HeadTailProperties
  <1> QED
    BY <1>1, <1>2, ElementOfSeq DEF Ids

\* One more verdict comes last and changes none of the others.
LEMMA OneMore ==
    ASSUME TypeOK, NEW v, v \in Verdicts, out' = Append(out, v)
    PROVE  /\ Len(out) \in Nat /\ Len(out') = Len(out) + 1
           /\ \A i \in 1 .. Len(out) : out'[i] = out[i]
           /\ out'[Len(out) + 1] = v
           /\ \A i \in 1 .. Len(out') : i \in 1 .. Len(out) \/ i = Len(out) + 1
  <1>1. out \in Seq(Verdicts)
    BY DEF TypeOK
  <1>2. /\ Len(out) \in Nat /\ Len(out') = Len(out) + 1
        /\ \A i \in 1 .. Len(out) : out'[i] = out[i]
        /\ out'[Len(out) + 1] = v
    BY <1>1, AppendProperties
  <1> QED BY <1>2

\* The verdict that nfq_set_verdict2 sends.
LEMMA AcceptType ==
    ASSUME TypeOK, pc = "send"
    PROVE  Accept(Head(todo), IF lock = "rwnd" THEN tune_rwnd ELSE hdr[Head(todo)].win) \in Verdicts
  <1> DEFINE first == Head(todo)
  <1>1. first \in Nat /\ hdr[first] \in Headers
    BY HeadOfTodo DEF Ids
  <1> HIDE DEF first
  <1>2. (IF lock = "rwnd" THEN tune_rwnd ELSE hdr[first].win) \in Nat /\ m \in Nat
    BY <1>1, HeadersAssumption DEF TypeOK
  <1> QED BY <1>1, <1>2 DEF Accept, Verdicts, first

LEMMA DropType ==
    ASSUME TypeOK, NEW why \in {"loss", "dup"}
    PROVE  Drop(Current, why) \in Verdicts
  BY DEF TypeOK, Drop, Verdicts, Current

\* What a step does to the packets and the verdicts: a packet arrives, or the
\* handlers drop the newest one, or a listed one is accepted, or nothing.
LEMMA FourKindsOfSteps ==
    ASSUME TypeOK, [Next]_vars
    PROVE  \/ worker_callback /\ out' = out
           \/ /\ pc = "drop" /\ do_drop /\ drop_count > 0 /\ hdr' = hdr
              /\ worker_handle_drop /\ out' = Append(out, Drop(Current, "loss"))
           \/ /\ pc = "dedup" /\ is_dup_ack(Header) /\ hdr' = hdr
              /\ worker_handle_dedup /\ out' = Append(out, Drop(Current, "dup"))
           \/ nfq_set_verdict2 /\ hdr' = hdr
           \/ out' = out /\ hdr' = hdr /\ ~nfq_set_verdict2
  <1>1. CASE worker_callback
    BY <1>1 DEF worker_callback
  <1>2. CASE worker_handle_drop
    BY <1>2 DEF worker_handle_drop, nfq_set_verdict2
  <1>3. CASE worker_handle_dedup
    BY <1>3 DEF worker_handle_dedup, nfq_set_verdict2
  <1>4. CASE nfq_set_verdict2
    BY <1>4 DEF nfq_set_verdict2
  <1>5. CASE worker_handle_reorder \/ worker_skip_reorder \/ worker_handle_rwnd \/ load_mark
             \/ SchedulerThread \/ UNCHANGED vars
    BY <1>5 DEF worker_handle_reorder, worker_skip_reorder, worker_handle_rwnd, load_mark,
                SchedulerThread, worker_set_mark, worker_set_drop, worker_set_reorder,
                worker_set_dedup, worker_init_tcp_sched, worker_set_rwnd, vars, kernel_vars
  <1> QED
    BY <1>1, <1>2, <1>3, <1>4, <1>5 DEF Next, NfqThread


-----------------------------------------------------------------------------
(* The window. *)

\* The strengthening of WindowNeverRaised: while the rewritten packet waits for
\* its verdict under rwnd_lock, the window it gets is below its own.
WindowInv ==
    /\ lock = "rwnd" => tune_rwnd < hdr[Head(todo)].win
    /\ \A i \in 1 .. Len(out) : out[i].verdict = "accept" => out[i].win <= hdr[out[i].id].win

\* The lock is taken for the current packet only, and released with its verdict.
LEMMA NextWindowLock ==
    ASSUME TypeOK, TypeOK', WindowInv, [Next]_vars, lock' = "rwnd"
    PROVE  tune_rwnd' < hdr'[Head(todo')].win
  <1>1. CASE worker_handle_rwnd
    <2>1. lock = "none"
      BY <1>1 DEF worker_handle_rwnd, TypeOK
    <2>2. tune_rwnd' < Header.win /\ todo' = <<Current>> /\ hdr' = hdr
      BY <1>1, <2>1 DEF worker_handle_rwnd, kernel_vars
    <2>3. Head(todo') = Current
      BY <2>2
    <2> QED BY <2>2, <2>3 DEF Header
  <1>2. CASE nfq_set_verdict2
    <2>1. lock = "rwnd" /\ Len(todo) # 1
      BY <1>2 DEF nfq_set_verdict2
    <2> QED BY <2>1 DEF TypeOK
  <1>3. CASE worker_callback
    BY <1>3 DEF worker_callback, TypeOK
  <1>4. CASE worker_handle_reorder
    BY <1>4 DEF worker_handle_reorder, TypeOK
  <1>5. CASE UNCHANGED <<lock, tune_rwnd, todo, hdr>>
    BY <1>5 DEF WindowInv
  <1>6. CASE \E w \in Windows : worker_set_rwnd(w)
    BY <1>6 DEF worker_set_rwnd, rwnd_lock_free, thread_vars
  <1> QED
    BY <1>1, <1>2, <1>3, <1>4, <1>5, <1>6
       DEF Next, NfqThread, SchedulerThread, vars, worker_handle_drop, worker_skip_reorder,
           worker_handle_dedup, load_mark, worker_set_mark, worker_set_drop, worker_set_reorder,
           worker_set_dedup, worker_init_tcp_sched, rwnd_vars, thread_vars, kernel_vars

LEMMA NextWindow ==
    TypeOK /\ TypeOK' /\ VerdictInv /\ WindowInv /\ [Next]_vars => WindowInv'
  <1> SUFFICES ASSUME TypeOK, TypeOK', VerdictInv, WindowInv, [Next]_vars
               PROVE  \A i \in 1 .. Len(out') :
                         out'[i].verdict = "accept" => out'[i].win <= hdr'[out'[i].id].win
    BY NextWindowLock DEF WindowInv
  <1>1. CASE worker_callback /\ out' = out
    BY <1>1, HeadersKept DEF WindowInv, VerdictInv
  <1>2. ASSUME NEW why \in {"loss", "dup"}, out' = Append(out, Drop(Current, why)), hdr' = hdr
        PROVE  \A i \in 1 .. Len(out') :
                  out'[i].verdict = "accept" => out'[i].win <= hdr'[out'[i].id].win
    <2>1. Drop(Current, why) \in Verdicts /\ Drop(Current, why).verdict = "drop"
      BY DropType DEF Drop
    <2> QED BY <1>2, <2>1, OneMore DEF WindowInv
  <1>3. CASE nfq_set_verdict2 /\ hdr' = hdr
    <2> DEFINE w == IF lock = "rwnd" THEN tune_rwnd ELSE hdr[Head(todo)].win
               v == Accept(Head(todo), w)
    <2>1. v \in Verdicts /\ out' = Append(out, v) /\ v.id = Head(todo) /\ v.win = w
      BY <1>3, AcceptType DEF nfq_set_verdict2, Accept
    <2>2. hdr[Head(todo)] \in Headers
      BY <1>3, HeadOfTodo DEF nfq_set_verdict2
    <2>3. hdr[Head(todo)].win \in Nat /\ tune_rwnd \in Nat
      BY <2>2, HeadersAssumption DEF TypeOK
    <2>4. w <= hdr[Head(todo)].win
      BY <2>3 DEF WindowInv
    <2> HIDE DEF v, w
    <2> QED BY <1>3, <2>1, <2>4, OneMore DEF WindowInv
  <1>4. CASE out' = out /\ hdr' = hdr
    BY <1>4 DEF WindowInv
  <1> QED BY <1>1, <1>2, <1>3, <1>4, FourKindsOfSteps

\* No packet leaves with a larger window than its sender advertised, whenever
\* the controller and the sampler move the window and whatever malloc left in it.
THEOREM WindowOnlyLowered == Spec => []WindowNeverRaised
  <1>1. Init => WindowInv
    BY EmptySeq DEF Init, WindowInv
  <1>2. TypeOK /\ WindowInv => WindowNeverRaised
    <2> SUFFICES ASSUME TypeOK, WindowInv PROVE WindowNeverRaised
      OBVIOUS
    <2>1. DOMAIN out = 1 .. Len(out)
      BY LenProperties DEF TypeOK
    <2> QED BY <2>1 DEF WindowInv, WindowNeverRaised
  <1> QED
    BY <1>1, <1>2, NextWindow, VerdictsInvariant, TypeCorrect, PTL DEF Spec

-----------------------------------------------------------------------------
(* Duplicate acknowledgements. *)

\* The number in last_ack has reached the sender, or reaches it with the
\* packet the callback is about to accept.
AckInv ==
    \/ last_ack = ack0
    \/ \E j \in 1 .. Len(out) : out[j].verdict = "accept" /\ hdr[out[j].id].ack = last_ack
    \/ pc \in {"load", "send"} /\ hdr[Head(todo)].ack = last_ack

\* DroppedAckWasDelivered over the positions of the verdicts.
DupInv ==
    \A i \in 1 .. Len(out) : out[i].why = "dup" =>
        \/ hdr[out[i].id].ack = ack0
        \/ \E j \in 1 .. i - 1 : /\ out[j].verdict = "accept"
                                /\ hdr[out[j].id].ack = hdr[out[i].id].ack

LEMMA NextAck ==
    TypeOK /\ TypeOK' /\ VerdictInv /\ AckInv /\ [Next]_vars => AckInv'
  <1> SUFFICES ASSUME TypeOK, TypeOK', VerdictInv, AckInv, [Next]_vars PROVE AckInv'
    OBVIOUS
  <1>1. CASE worker_callback
    <2>1. UNCHANGED <<last_ack, ack0, out>> /\ pc = "recv"
      BY <1>1 DEF worker_callback, rwnd_vars
    <2> QED BY <1>1, <2>1, HeadersKept DEF AckInv, VerdictInv
  <1>2. CASE worker_handle_rwnd
    <2>1. pc = "rwnd" /\ pc' = "load" /\ todo' = <<Current>> /\ UNCHANGED <<out, hdr, ack0>>
          /\ last_ack' \in {last_ack, hdr[Current].ack}
      BY <1>2 DEF worker_handle_rwnd, kernel_vars, Header
    <2>2. Head(todo') = Current
      BY <2>1
    <2> QED BY <2>1, <2>2 DEF AckInv
  <1>3. CASE nfq_set_verdict2
    <2> DEFINE v == Accept(Head(todo), IF lock = "rwnd" THEN tune_rwnd ELSE hdr[Head(todo)].win)
    <2>1. v \in Verdicts /\ out' = Append(out, v) /\ v.id = Head(todo) /\ v.verdict = "accept"
          /\ UNCHANGED <<last_ack, ack0, hdr>>
      BY <1>3, AcceptType DEF nfq_set_verdict2, Accept, rwnd_vars
    <2> HIDE DEF v
    <2>2. /\ Len(out) \in Nat /\ Len(out') = Len(out) + 1
          /\ \A i \in 1 .. Len(out) : out'[i] = out[i]
          /\ out'[Len(out) + 1] = v
      BY <2>1, OneMore
    <2> QED BY <2>1, <2>2 DEF AckInv
  <1>4. ASSUME NEW why \in {"loss", "dup"}, out' = Append(out, Drop(Current, why)),
               pc \in {"drop", "dedup"}, UNCHANGED <<last_ack, ack0, hdr>>
        PROVE  AckInv'
    <2>1. /\ Len(out) \in Nat /\ Len(out') = Len(out) + 1
          /\ \A i \in 1 .. Len(out) : out'[i] = out[i]
      BY <1>4, DropType, OneMore
    <2> QED BY <1>4, <2>1 DEF AckInv
  <1>5. CASE worker_handle_drop
    BY <1>4, <1>5 DEF worker_handle_drop, AckInv, rwnd_vars
  <1>6. CASE worker_handle_dedup
    BY <1>4, <1>6 DEF worker_handle_dedup, AckInv, rwnd_vars
  <1>7. CASE worker_handle_reorder \/ worker_skip_reorder
    BY <1>7 DEF worker_handle_reorder, worker_skip_reorder, AckInv, rwnd_vars, kernel_vars
  <1>8. CASE load_mark \/ SchedulerThread \/ UNCHANGED vars
    <2>1. UNCHANGED <<last_ack, ack0, hdr, out, todo>> /\ (pc' = pc \/ (pc = "load" /\ pc' = "send"))
      BY <1>8 DEF load_mark, SchedulerThread, worker_set_mark, worker_set_drop,
                  worker_set_reorder, worker_set_dedup, worker_init_tcp_sched, worker_set_rwnd,
                  vars, rwnd_vars, thread_vars, kernel_vars
    <2> QED BY <2>1 DEF AckInv
  <1> QED
    BY <1>1, <1>2, <1>3, <1>5, <1>6, <1>7, <1>8 DEF Next, NfqThread

LEMMA NextDup ==
    TypeOK /\ VerdictInv /\ AckInv /\ DupInv /\ [Next]_vars => DupInv'
  <1> SUFFICES ASSUME TypeOK, VerdictInv, AckInv, DupInv, [Next]_vars PROVE DupInv'
    OBVIOUS
  <1>0. ack0' = ack0
    BY DEF Next, NfqThread, SchedulerThread, vars, worker_callback, worker_handle_drop,
           worker_handle_reorder, worker_skip_reorder, worker_handle_dedup, worker_handle_rwnd,
           load_mark, nfq_set_verdict2, worker_set_mark, worker_set_drop, worker_set_reorder,
           worker_set_dedup, worker_init_tcp_sched, worker_set_rwnd
  <1>1. CASE worker_callback /\ out' = out
    <2>1. \A i \in 1 .. Len(out) : hdr'[out[i].id] = hdr[out[i].id]
      BY <1>1, HeadersKept DEF VerdictInv
    <2>2. out \in Seq(Verdicts) /\ Len(out) \in Nat
      BY DEF TypeOK
    <2>3. \A i \in 1 .. Len(out) : \A j \in 1 .. i - 1 : j \in 1 .. Len(out)
      BY <2>2
    <2> QED BY <1>0, <1>1, <2>1, <2>3 DEF DupInv
  <1>2. ASSUME NEW v \in Verdicts, out' = Append(out, v), hdr' = hdr,
               v.why = "dup" =>
                  \/ hdr[v.id].ack = ack0
                  \/ \E j \in 1 .. Len(out) : /\ out[j].verdict = "accept"
                                              /\ hdr[out[j].id].ack = hdr[v.id].ack
        PROVE  DupInv'
    <2>1. /\ Len(out) \in Nat /\ Len(out') = Len(out) + 1
          /\ \A i \in 1 .. Len(out) : out'[i] = out[i]
          /\ out'[Len(out) + 1] = v
          /\ \A i \in 1 .. Len(out') : i \in 1 .. Len(out) \/ i = Len(out) + 1
      BY <1>2, OneMore
    <2>2. \A i \in 1 .. Len(out) : \A j \in 1 .. i - 1 : j \in 1 .. Len(out)
      BY <2>1
    <2>3. (Len(out) + 1) - 1 = Len(out)
      BY <2>1
    <2> QED BY <1>0, <1>2, <2>1, <2>2, <2>3 DEF DupInv
  <1>3. CASE pc = "drop" /\ out' = Append(out, Drop(Current, "loss")) /\ hdr' = hdr
    <2>1. Drop(Current, "loss").why = "loss"
      BY DEF Drop
    <2> QED BY <1>2, <1>3, <2>1, DropType
  <1>4. CASE pc = "dedup" /\ is_dup_ack(Header) /\ hdr' = hdr
             /\ out' = Append(out, Drop(Current, "dup"))
    <2>1. hdr[Current].ack = last_ack /\ Drop(Current, "dup").id = Current
      BY <1>4 DEF is_dup_ack, Header, Drop
    <2>2. \/ last_ack = ack0
          \/ \E j \in 1 .. Len(out) : out[j].verdict = "accept" /\ hdr[out[j].id].ack = last_ack
      BY <1>4 DEF AckInv
    <2> QED BY <1>2, <1>4, <2>1, <2>2, DropType
  <1>5. CASE nfq_set_verdict2 /\ hdr' = hdr
    <2> DEFINE v == Accept(Head(todo), IF lock = "rwnd" THEN tune_rwnd ELSE hdr[Head(todo)].win)
    <2>1. v \in Verdicts /\ out' = Append(out, v) /\ v.why = "pass"
      BY <1>5, AcceptType DEF nfq_set_verdict2, Accept
    <2> QED BY <1>2, <1>5, <2>1
  <1>6. CASE out' = out /\ hdr' = hdr
    BY <1>0, <1>6 DEF DupInv
  <1> QED BY <1>1, <1>3, <1>4, <1>5, <1>6, FourKindsOfSteps

\* Suppression never takes the only copy of an acknowledgement: the sender had
\* the number from an accepted packet, however reordering, losses and changes of
\* the flags come between the two, or it is the garbage malloc left in last_ack.
THEOREM FirstCopyDelivered == Spec => []DroppedAckWasDelivered
  <1>1. Init => AckInv /\ DupInv
    BY EmptySeq DEF Init, AckInv, DupInv
  <1>2. TypeOK /\ DupInv => DroppedAckWasDelivered
    <2> SUFFICES ASSUME TypeOK, DupInv PROVE DroppedAckWasDelivered
      OBVIOUS
    <2>1. DOMAIN out = 1 .. Len(out)
      BY LenProperties DEF TypeOK
    <2> QED BY <2>1 DEF DupInv, DroppedAckWasDelivered
  <1> QED
    BY <1>1, <1>2, NextAck, NextDup, VerdictsInvariant, TypeCorrect, PTL DEF Spec

-----------------------------------------------------------------------------
(* Packets that wait for a verdict. *)

\* A trace arms reordering for at least one packet: the count or the offset is
\* not a multiple of 2^16, and so not 0 as the uint16_t the setter gets.
SomethingArmed == \A c \in Counts, o \in Offsets : c % U16 # 0 \/ o % U16 # 0

Known(id) ==
    \/ ~Fresh(id)
    \/ InHandler /\ id = Current
    \/ \E i \in 1 .. Len(todo) : todo[i] = id
    \/ \E i \in 1 .. Len(reorder_ids) : reorder_ids[i] = id

\* The strengthening of NoPacketForgotten: packets are held only while
\* reordering is on, and then the next packet is held or passed.
HeldInv ==
    /\ \A id \in Ids : Known(id)
    /\ do_reorder \/ Len(reorder_ids) = 0
    /\ do_reorder => reorder_count > 0 \/ reorder_offset > 0

\* Every verdict stays, and a new one is known.
LEMMA VerdictsStay ==
    ASSUME TypeOK, NEW v \in Verdicts, out' = Append(out, v)
    PROVE  \A id : ~Fresh(id) \/ id = v.id => ~Fresh(id)'
  <1>1. /\ Len(out) \in Nat /\ Len(out') = Len(out) + 1
        /\ \A i \in 1 .. Len(out) : out'[i] = out[i]
        /\ out'[Len(out) + 1] = v
    BY OneMore
  <1> QED BY <1>1 DEF Fresh

\* worker_handle_reorder holds the packet or passes it, and lists every held one
\* when it releases them.
LEMMA ReorderKnows ==
    ASSUME TypeOK, TypeOK', HeldInv, worker_handle_reorder
    PROVE  HeldInv'
  <1> DEFINE hold == reorder_count > 0
             ids  == IF hold THEN Append(reorder_ids, Current) ELSE reorder_ids
             pass == IF ~hold /\ reorder_offset > 0 THEN <<Current>> ELSE <<>>
             rel  == IF reorder_offset' <= 0 THEN release_order(ids) ELSE <<>>
  <1>1. /\ pc = "reorder" /\ do_reorder /\ UNCHANGED <<hdr, out>> /\ Ids' = Ids
        /\ reorder_count \in Int /\ reorder_offset \in Int /\ reorder_offset' \in Int
        /\ hold \/ reorder_offset > 0
    BY DEF worker_handle_reorder, kernel_vars, HeldInv, Ids, TypeOK
  <1>2. Current \in Ids /\ todo = <<>> /\ Len(todo) = 0 /\ reorder_ids \in Seq(Ids)
    BY <1>1, CurrentHeader, EmptySeq DEF InHandler, TypeOK
  <1>3. /\ ids \in Seq(Ids)
        /\ \A i \in 1 .. Len(reorder_ids) : i \in 1 .. Len(ids) /\ ids[i] = reorder_ids[i]
        /\ hold => \E i \in 1 .. Len(ids) : ids[i] = Current
    <2>1. CASE hold
      <3>1. /\ ids \in Seq(Ids) /\ Len(reorder_ids) \in Nat
            /\ Len(ids) = Len(reorder_ids) + 1
            /\ \A i \in 1 .. Len(reorder_ids) : ids[i] = reorder_ids[i]
            /\ ids[Len(reorder_ids) + 1] = Current
        BY <1>2, <2>1, AppendProperties
      <3> HIDE DEF ids
      <3> QED BY <3>1
    <2>2. CASE ~hold
      BY <1>2, <2>2
    <2> QED BY <2>1, <2>2
  <1>4. pass \in Seq(Ids) /\ (~hold => Len(pass) = 1 /\ pass[1] = Current)
    BY <1>1, <1>2
  <1>5. /\ todo' = pass \o rel
        /\ reorder_ids' = IF reorder_offset' <= 0 THEN <<>> ELSE ids
        /\ do_reorder' = ~(reorder_offset' <= 0)
    BY DEF worker_handle_reorder
  <1> HIDE DEF pass, ids
  <1>6. /\ rel \in Seq(Ids)
        /\ reorder_offset' <= 0 =>
              \A i \in 1 .. Len(ids) : \E j \in 1 .. Len(rel) : rel[j] = ids[i]
    <2>1. CASE reorder_offset' <= 0
      <3>1. /\ rel \in Seq(Ids) /\ Len(rel) = Len(ids) /\ Len(ids) \in Nat
            /\ \A i \in 1 .. Len(ids) : rel[i] = ids[Len(ids) - i + 1]
        BY <1>3, <2>1, ReleaseOrder
      <3> HIDE DEF rel
      <3>2. \A i \in 1 .. Len(ids) : /\ Len(ids) - i + 1 \in 1 .. Len(rel)
                                     /\ Len(ids) - (Len(ids) - i + 1) + 1 = i
        BY <3>1
      <3> QED BY <3>1, <3>2
    <2>2. CASE ~(reorder_offset' <= 0)
      BY <2>2, EmptySeq
    <2> QED BY <2>1, <2>2
  <1> HIDE DEF rel, hold
  <1>7. /\ \A i \in 1 .. Len(pass) : \E j \in 1 .. Len(todo') : todo'[j] = pass[i]
        /\ \A i \in 1 .. Len(rel) : \E j \in 1 .. Len(todo') : todo'[j] = rel[i]
    <2>1. /\ Len(todo') = Len(pass) + Len(rel) /\ Len(pass) \in Nat /\ Len(rel) \in Nat
          /\ \A i \in 1 .. Len(todo') : todo'[i] = IF i <= Len(pass) THEN pass[i] ELSE rel[i - Len(pass)]
      BY <1>4, <1>5, <1>6, ConcatProperties
    <2>2. \A i \in 1 .. Len(pass) : i \in 1 .. Len(todo') /\ todo'[i] = pass[i]
      BY <2>1
    <2>3. \A i \in 1 .. Len(rel) : Len(pass) + i \in 1 .. Len(todo')
                                   /\ todo'[Len(pass) + i] = rel[i]
      BY <2>1
    <2> QED BY <2>2, <2>3
  <1>8. \A id : (\E i \in 1 .. Len(ids) : ids[i] = id) => Known(id)'
    <2>1. CASE reorder_offset' <= 0
      BY <1>6, <1>7, <2>1 DEF Known
    <2>2. CASE ~(reorder_offset' <= 0)
      BY <1>5, <2>2 DEF Known
    <2> QED BY <2>1, <2>2
  <1>9. \A id : id = Current => Known(id)'
    <2>1. CASE hold
      BY <1>3, <1>8, <2>1
    <2>2. CASE ~hold
      <3>1. Len(pass) = 1 /\ pass[1] = Current
        BY <1>4, <2>2
      <3>2. \E j \in 1 .. Len(todo') : todo'[j] = Current
        BY <1>7, <3>1
      <3> QED BY <3>2 DEF Known
    <2> QED BY <2>1, <2>2
  <1>10. \A id \in Ids : Known(id)'
    <2> SUFFICES ASSUME NEW id \in Ids PROVE Known(id)'
      OBVIOUS
    <2>1. CASE ~Fresh(id)
      BY <1>1, <2>1 DEF Known, Fresh
    <2>2. CASE id = Current
      BY <1>9, <2>2
    <2>3. CASE \E i \in 1 .. Len(reorder_ids) : reorder_ids[i] = id
      BY <1>3, <1>8, <2>3
    <2> QED BY <1>2, <2>1, <2>2, <2>3 DEF HeldInv, Known
  <1>11. do_reorder' \/ Len(reorder_ids') = 0
    BY <1>5, EmptySeq
  <1>12. do_reorder' => reorder_offset' > 0
    <2>1. do_reorder' => ~(reorder_offset' <= 0)
      BY <1>5, Zenon
    <2> QED BY <1>1, <2>1
  <1> QED BY <1>1, <1>10, <1>11, <1>12 DEF HeldInv

LEMMA NextHeld ==
    ASSUME ~Overlap, SomethingArmed
    PROVE  TypeOK /\ TypeOK' /\ HeldInv /\ [Next]_vars => HeldInv'
  <1> SUFFICES ASSUME TypeOK, TypeOK', HeldInv, [Next]_vars PROVE HeldInv'
    OBVIOUS
  <1>1. CASE worker_callback
    <2>1. /\ UNCHANGED <<out, todo, do_reorder, reorder_ids, reorder_count, reorder_offset>>
          /\ InHandler' /\ ~InHandler
          /\ Len(hdr) \in Nat /\ Len(hdr') = Len(hdr) + 1
      BY <1>1 DEF worker_callback, reorder_vars, TypeOK, InHandler
    <2>2. \A id \in Ids' : id \in Ids \/ id = Current'
      BY <2>1 DEF Ids, Current
    <2> QED BY <2>1, <2>2 DEF HeldInv, Known, Fresh
  <1>2. ASSUME NEW why \in {"loss", "dup"}, out' = Append(out, Drop(Current, why)), InHandler,
               UNCHANGED <<hdr, todo, do_reorder, reorder_ids, reorder_count, reorder_offset>>
        PROVE  HeldInv'
    <2>1. Drop(Current, why) \in Verdicts /\ Drop(Current, why).id = Current
      BY DropType DEF Drop
    <2>2. \A id : ~Fresh(id) \/ id = Current => ~Fresh(id)'
      BY <1>2, <2>1, VerdictsStay
    <2> QED BY <1>2, <2>2 DEF HeldInv, Known, Ids
  <1>3. CASE worker_handle_drop
    <2>1. CASE do_drop /\ drop_count > 0
      BY <1>2, <1>3, <2>1 DEF worker_handle_drop, InHandler, reorder_vars
    <2>2. CASE ~(do_drop /\ drop_count > 0)
      BY <1>3, <2>2 DEF worker_handle_drop, handled_then, InHandler, reorder_vars, HeldInv, Known,
                        Fresh, Ids, Current
    <2> QED BY <2>1, <2>2
  <1>4. CASE worker_handle_reorder
    BY <1>4, ReorderKnows
  <1>5. CASE worker_skip_reorder
    BY <1>5 DEF worker_skip_reorder, InHandler, reorder_vars, kernel_vars, HeldInv, Known, Fresh,
                Ids, Current
  <1>6. CASE worker_handle_dedup
    <2>1. CASE do_dedup /\ is_dup_ack(Header)
      BY <1>2, <1>6, <2>1 DEF worker_handle_dedup, InHandler, reorder_vars
    <2>2. CASE ~(do_dedup /\ is_dup_ack(Header))
      BY <1>6, <2>2 DEF worker_handle_dedup, handled_then, InHandler, reorder_vars, HeldInv,
                        Known, Fresh, Ids, Current
    <2> QED BY <2>1, <2>2
  <1>7. CASE worker_handle_rwnd
    <2>1. /\ UNCHANGED <<out, hdr, do_reorder, reorder_ids, reorder_count, reorder_offset>>
          /\ todo' = <<Current>> /\ pc = "rwnd"
      BY <1>7 DEF worker_handle_rwnd, reorder_vars, kernel_vars
    <2>2. Len(todo') = 1 /\ todo'[1] = Current /\ Len(todo) = 0
      BY <2>1, CurrentHeader, EmptySeq DEF InHandler
    <2>3. \E i \in 1 .. Len(todo') : todo'[i] = Current
      BY <2>2
    <2> QED BY <2>1, <2>2, <2>3 DEF HeldInv, Known, Fresh, Ids
  <1>8. CASE load_mark
    BY <1>8 DEF load_mark, InHandler, reorder_vars, kernel_vars, HeldInv, Known, Fresh, Ids, Current
  <1>9. CASE nfq_set_verdict2
    <2> DEFINE v == Accept(Head(todo), IF lock = "rwnd" THEN tune_rwnd ELSE hdr[Head(todo)].win)
    <2>1. /\ v \in Verdicts /\ out' = Append(out, v) /\ v.id = Head(todo)
          /\ UNCHANGED <<hdr, do_reorder, reorder_ids, reorder_count, reorder_offset>>
          /\ todo' = Tail(todo) /\ ~InHandler
      BY <1>9, AcceptType DEF nfq_set_verdict2, Accept, reorder_vars, InHandler
    <2>2. \A id : ~Fresh(id) \/ id = Head(todo) => ~Fresh(id)'
      <3> HIDE DEF v
      <3> QED BY <2>1, VerdictsStay
    <2>3. /\ Head(todo) = todo[1] /\ Len(todo) \in Nat \ {0} /\ Len(todo') = Len(todo) - 1
          /\ \A i \in 1 .. Len(todo') : todo'[i] = todo[i + 1]
      BY <1>9, <2>1, HeadOfTodo DEF nfq_set_verdict2
    <2>4. \A i \in 1 .. Len(todo) : i = 1 \/ (i - 1 \in 1 .. Len(todo') /\ todo'[i - 1] = todo[i])
      BY <2>3
    <2>5. \A id : (\E i \in 1 .. Len(todo) : todo[i] = id) => Known(id)'
      BY <2>2, <2>3, <2>4 DEF Known
    <2>6. \A id \in Ids : Known(id)'
      BY <2>1, <2>2, <2>5 DEF HeldInv, Known
    <2> QED BY <2>1, <2>6 DEF HeldInv, Ids
  <1>10. CASE SchedulerThread
    <2>1. UNCHANGED <<out, hdr, todo, pc>>
      BY <1>10 DEF SchedulerThread, worker_set_mark, worker_set_drop, worker_set_reorder,
                   worker_set_dedup, worker_init_tcp_sched, worker_set_rwnd, thread_vars, kernel_vars
    <2>2. ASSUME NEW c \in Counts, NEW o \in Offsets, worker_set_reorder(c, o)
          PROVE  HeldInv'
      <3>1. Len(reorder_ids) = 0 /\ Len(reorder_ids') = 0
        BY <2>2, EmptySeq DEF worker_set_reorder, HeldInv
      <3>2. reorder_count' > 0 \/ reorder_offset' > 0
        <4>1. c % U16 \in Nat /\ o % U16 \in Nat
          BY ParametersAssumption
        <4> QED BY <2>2, <4>1, ParametersAssumption DEF worker_set_reorder, capped_count, SomethingArmed
      <3> QED BY <2>1, <3>1, <3>2 DEF HeldInv, Known, Fresh, InHandler, Ids, Current
    <2>3. CASE UNCHANGED reorder_vars
      BY <2>1, <2>3 DEF reorder_vars, HeldInv, Known, Fresh, InHandler, Ids, Current
    <2> QED BY <1>10, <2>2, <2>3 DEF SchedulerThread, worker_set_mark, worker_set_drop,
                                     worker_set_dedup, worker_init_tcp_sched, worker_set_rwnd
  <1>11. CASE UNCHANGED vars
    BY <1>11 DEF vars, HeldInv, Known, Fresh, InHandler, Ids, Current, reorder_vars, thread_vars,
                 kernel_vars
  <1> QED
    BY <1>1, <1>3, <1>4, <1>5, <1>6, <1>7, <1>8, <1>9, <1>10, <1>11 DEF Next, NfqThread

\* If the trace does not re-arm reordering while it is active, and arms it for a
\* packet at least, the worker loses track of no packet: each has its verdict or
\* is in the callback or in the reorder buffer.
THEOREM NoneForgotten ==
    ASSUME ~Overlap, SomethingArmed
    PROVE  Spec => []NoPacketForgotten
  <1>1. Init => HeldInv
    BY EmptySeq DEF Init, worker_init_ctx, HeldInv, Ids
  <1>2. TypeOK /\ HeldInv => NoPacketForgotten
    <2> SUFFICES ASSUME TypeOK, HeldInv, NEW id \in Ids
                 PROVE  id \in SentIds \cup InCallback \cup ToSet(reorder_ids)
      BY DEF NoPacketForgotten
    <2>1. /\ DOMAIN out = 1 .. Len(out) /\ DOMAIN todo = 1 .. Len(todo)
          /\ DOMAIN reorder_ids = 1 .. Len(reorder_ids)
      BY LenProperties DEF TypeOK
    <2>2. Len(todo) = 0 \/ ~InHandler
      BY CurrentHeader, EmptySeq
    <2> QED BY <2>1, <2>2 DEF HeldInv, Known, Fresh, InHandler, SentIds, InCallback, ToSet
  <1> QED
    BY <1>1, <1>2, NextHeld, TypeCorrect, PTL DEF Spec

-----------------------------------------------------------------------------
(* The contract. *)

\* The verdicts as PacketFate sees them, and the losses that are left.
Sent == [i \in 1 .. Len(out) |-> [id |-> out[i].id, why |-> out[i].why]]
Left == IF do_drop THEN drop_count ELSE 0

\* A loss that is armed has a packet left to take.
LossInv == do_drop => drop_count > 0

LEMMA NextLoss == TypeOK /\ LossInv /\ [Next]_vars => LossInv'
  <1> SUFFICES ASSUME TypeOK, LossInv, [Next]_vars PROVE LossInv'
    OBVIOUS
  <1>1. CASE worker_handle_drop
    BY <1>1 DEF worker_handle_drop, LossInv
  <1>2. ASSUME NEW n \in Drops, worker_set_drop(n) PROVE LossInv'
    BY <1>2, ParametersAssumption DEF worker_set_drop, LossInv
  <1>3. CASE UNCHANGED drop_vars
    BY <1>3 DEF drop_vars, LossInv
  <1> QED
    BY <1>1, <1>2, <1>3
       DEF Next, NfqThread, SchedulerThread, vars, worker_callback, worker_handle_reorder,
           worker_skip_reorder, worker_handle_dedup, worker_handle_rwnd, load_mark,
           nfq_set_verdict2, worker_set_mark, worker_set_reorder, worker_set_dedup,
           worker_init_tcp_sched, worker_set_rwnd

\* A verdict for a packet without one is a verdict for one that waits, and the
\* sequence PacketFate sees grows by it.
LEMMA SentGrows ==
    ASSUME TypeOK, NEW v \in Verdicts, out' = Append(out, v), v.id \in Ids, Fresh(v.id)
    PROVE  /\ Sent' = Append(Sent, [id |-> v.id, why |-> v.why])
           /\ v.id \in Fate!Waiting
  <1> DEFINE entry(u) == [id |-> u.id, why |-> u.why]
             Entries  == {entry(u) : u \in Verdicts}
  <1>1. /\ Len(out) \in Nat /\ Len(out') = Len(out) + 1
        /\ \A i \in 1 .. Len(out) : out'[i] = out[i]
        /\ out'[Len(out) + 1] = v
    BY OneMore
  <1>2. \A i \in 1 .. Len(out) : out[i] \in Verdicts
    BY ElementOfSeq DEF TypeOK
  <1>3. /\ Sent \in Seq(Entries) /\ Len(Sent) = Len(out)
        /\ \A i \in 1 .. Len(out) : Sent[i] = entry(out[i])
    BY <1>1, <1>2 DEF Sent
  <1>4. entry(v) \in Entries
    OBVIOUS
  <1>5. /\ Append(Sent, entry(v)) \in Seq(Entries) /\ Len(Append(Sent, entry(v))) = Len(out) + 1
        /\ \A i \in 1 .. Len(out) : Append(Sent, entry(v))[i] = Sent[i]
        /\ Append(Sent, entry(v))[Len(out) + 1] = entry(v)
    BY <1>3, <1>4, AppendProperties
  <1>6. Sent' = [i \in 1 .. Len(out) + 1 |-> entry(out'[i])]
    BY <1>1 DEF Sent
  <1>7. \A i \in 1 .. Len(out) + 1 : Append(Sent, entry(v))[i] = entry(out'[i])
    <2> SUFFICES ASSUME NEW i \in 1 .. Len(out) + 1
                 PROVE  Append(Sent, entry(v))[i] = entry(out'[i])
      OBVIOUS
    <2>1. CASE i \in 1 .. Len(out)
      BY <1>1, <1>3, <1>5, <2>1
    <2>2. CASE i = Len(out) + 1
      BY <1>1, <1>5, <2>2
    <2>3. i \in 1 .. Len(out) \/ i = Len(out) + 1
      BY <1>1
    <2> QED BY <2>1, <2>2, <2>3, Zenon
  <1>8. Append(Sent, entry(v)) = [i \in 1 .. Len(out) + 1 |-> Append(Sent, entry(v))[i]]
    <2> DEFINE t == Append(Sent, entry(v))
    <2>1. t \in Seq(Entries) /\ Len(t) = Len(out) + 1
      BY <1>5
    <2> HIDE DEF t
    <2>2. t = [i \in 1 .. Len(t) |-> t[i]]
      BY <2>1
    <2> QED BY <2>1, <2>2 DEF t
  <1>9. Sent' = Append(Sent, entry(v))
    <2> HIDE DEF entry, Entries
    <2> QED BY <1>6, <1>7, <1>8
  <1>10. v.id \in Fate!Waiting
    <2>1. DOMAIN Sent = 1 .. Len(out)
      BY DEF Sent
    <2>2. \A i \in DOMAIN Sent : Sent[i].id = out[i].id
      BY <2>1 DEF Sent
    <2>3. v.id \notin {Sent[i].id : i \in DOMAIN Sent}
      BY <2>1, <2>2 DEF Fresh
    <2> QED BY <2>3 DEF Fate!Waiting, Sent, Ids
  <1> QED BY <1>9, <1>10

\* Every step of the two threads is a step of the contract or none.
LEMMA FateStep ==
    TypeOK /\ VerdictInv /\ LossInv /\ [Next]_vars => [Fate!Next]_(Fate!vars)
  <1> SUFFICES ASSUME TypeOK, VerdictInv, LossInv, [Next]_vars
               PROVE  Fate!Next \/ UNCHANGED <<Len(hdr), Sent, Left>>
    BY DEF Fate!vars, Sent, Left
  <1>1. CASE worker_callback
    <2>1. Len(hdr') = Len(hdr) + 1 /\ UNCHANGED <<out, do_drop, drop_count>>
      BY <1>1 DEF worker_callback, drop_vars, TypeOK
    <2>2. Fate!Arrive
      BY <2>1 DEF Fate!Arrive
    <2> QED BY <2>2 DEF Fate!Next
  <1>2. CASE worker_handle_drop /\ do_drop
    <2>1. /\ drop_count > 0 /\ drop_count \in Int /\ pc = "drop" /\ hdr' = hdr
          /\ out' = Append(out, Drop(Current, "loss"))
          /\ drop_count' = drop_count - 1 /\ do_drop' = (drop_count' > 0)
      BY <1>2 DEF worker_handle_drop, LossInv, TypeOK
    <2>2. Left > 0 /\ Left' = Left - 1
      <3>1. (drop_count' > 0 => do_drop') /\ (~(drop_count' > 0) => ~do_drop')
        BY <2>1, Zenon
      <3>2. Left = drop_count
        BY <1>2 DEF Left
      <3>3. Left' = drop_count - 1
        BY <2>1, <3>1 DEF Left
      <3> QED BY <2>1, <3>2, <3>3
    <2>3. /\ Drop(Current, "loss") \in Verdicts /\ Drop(Current, "loss").id = Len(hdr)
          /\ Drop(Current, "loss").why = "loss"
      BY DropType DEF Drop, Current
    <2>4. Current \in Ids /\ Fresh(Current) /\ Current = Len(hdr)
      BY <2>1, CurrentHeader DEF InHandler, VerdictInv, Current
    <2>5. /\ Sent' = Append(Sent, [id |-> Len(hdr), why |-> "loss"])
          /\ Len(hdr) \in Fate!Waiting
      BY <2>1, <2>3, <2>4, SentGrows
    <2>6. Fate!Lose
      BY <2>1, <2>2, <2>5 DEF Fate!Lose, Sent, Left
    <2> QED BY <2>6 DEF Fate!Next
  <1>3. CASE worker_handle_drop /\ ~do_drop
    <2>1. UNCHANGED <<out, hdr, do_drop, drop_count>>
      BY <1>3 DEF worker_handle_drop, TypeOK
    <2> QED BY <2>1 DEF Sent, Left
  <1>4. CASE worker_handle_dedup
    <2>1. UNCHANGED <<hdr, do_drop, drop_count>> /\ pc = "dedup"
      BY <1>4 DEF worker_handle_dedup, drop_vars
    <2>2. CASE out' = out
      BY <2>1, <2>2 DEF Sent, Left
    <2>3. CASE out' = Append(out, Drop(Current, "dup"))
      <3>1. /\ Drop(Current, "dup") \in Verdicts /\ Drop(Current, "dup").id = Len(hdr)
            /\ Drop(Current, "dup").why = "dup"
        BY DropType DEF Drop, Current
      <3>2. Current \in Ids /\ Fresh(Current) /\ Current = Len(hdr)
        BY <2>1, CurrentHeader DEF InHandler, VerdictInv, Current
      <3>3. /\ Sent' = Append(Sent, [id |-> Len(hdr), why |-> "dup"])
            /\ Len(hdr) \in Fate!Waiting
        BY <2>3, <3>1, <3>2, SentGrows
      <3>4. Fate!Suppress
        BY <2>1, <3>3 DEF Fate!Suppress, Sent
      <3> QED BY <3>4 DEF Fate!Next
    <2> QED BY <1>4, <2>2, <2>3 DEF worker_handle_dedup
  <1>5. CASE nfq_set_verdict2
    <2> DEFINE v == Accept(Head(todo), IF lock = "rwnd" THEN tune_rwnd ELSE hdr[Head(todo)].win)
    <2>1. /\ v \in Verdicts /\ out' = Append(out, v) /\ v.id = Head(todo) /\ v.why = "pass"
          /\ UNCHANGED <<hdr, do_drop, drop_count>> /\ pc = "send"
      BY <1>5, AcceptType DEF nfq_set_verdict2, Accept, drop_vars
    <2>2. Head(todo) \in Ids /\ Fresh(Head(todo))
      BY <2>1, HeadOfTodo DEF VerdictInv
    <2> HIDE DEF v
    <2>3. /\ Sent' = Append(Sent, [id |-> Head(todo), why |-> "pass"])
          /\ Head(todo) \in Fate!Waiting
      BY <2>1, <2>2, SentGrows
    <2>4. Fate!Deliver
      BY <2>1, <2>3 DEF Fate!Deliver, Sent
    <2> QED BY <2>4 DEF Fate!Next
  <1>6. ASSUME NEW n \in Drops, worker_set_drop(n) PROVE Fate!Next
    <2>1. UNCHANGED <<hdr, out>> /\ Left' \in Drops
      BY <1>6 DEF worker_set_drop, kernel_vars, Left
    <2>2. Fate!ArmLoss
      BY <2>1 DEF Fate!ArmLoss, Left
    <2> QED BY <2>2 DEF Fate!Next
  <1>7. CASE UNCHANGED <<hdr, out, do_drop, drop_count>>
    BY <1>7 DEF Sent, Left
  <1> QED
    BY <1>1, <1>2, <1>3, <1>4, <1>5, <1>6, <1>7
       DEF Next, NfqThread, SchedulerThread, vars, worker_handle_reorder, worker_skip_reorder,
           worker_handle_rwnd, load_mark, worker_set_mark, worker_set_reorder, worker_set_dedup,
           worker_init_tcp_sched, worker_set_rwnd, drop_vars, kernel_vars

\* The worker keeps the contract of PacketFate: every verdict it sends is for a
\* packet that waits for one, and it loses packets only to a loss that was armed
\* and has not been used up, whatever the two threads do in between.
THEOREM KeepsContract == Spec => ImplementsPacketFate
  <1>1. Init => Fate!Init
    BY EmptySeq DEF Init, worker_init_ctx, Fate!Init
  <1>2. Init => LossInv
    BY DEF Init, worker_init_ctx, LossInv
  <1>3. Spec => []LossInv
    BY <1>2, NextLoss, TypeCorrect, PTL DEF Spec
  <1> QED
    BY <1>1, <1>3, FateStep, VerdictsInvariant, TypeCorrect, PTL DEF Spec, Fate!Spec, ImplementsPacketFate

=============================================================================
