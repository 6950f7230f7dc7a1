----------------------------- MODULE OrderProofs -----------------------------
(* The order in which the packets that wait during a gap leave the queue, for   *)
(* every row, every number of packets and every interleaving of the two threads. *)
EXTENDS GapProofs

-----------------------------------------------------------------------------
(* Which verdict comes when.  In a clean gap the i-th verdict is for packet     *)
(* Nth(i): the packets before the gap in their order, then the lost ones, then   *)
(* the kept ones, the j-th of which to leave is the Place(j)-th that arrived.    *)

Cap  == capped_count(row.cnt)
Wait == row.offset % U16

\* The row reorders: with an offset of 0 each packet is released when it is held.
Mixed == row.cnt > 0 /\ Cap > 0 /\ Wait > 0

Place(j) ==
    IF ~Mixed \/ j > Wait + Cap THEN j
    ELSE IF j <= Wait THEN Cap + j ELSE Wait + Cap + 1 - j

\* How many of the first a kept packets have left.
Placed(a) ==
    IF ~Mixed \/ a >= Cap + Wait THEN a
    ELSE IF a <= Cap THEN 0 ELSE a - Cap

\* The last packet before the gap; until the gap ends, every packet is one.
Cut  == IF Pending("start_nfqueue") THEN Len(hdr) ELSE before
Base == Cut + row.loss

IsLost(i) == Cut < i /\ i <= Base
Nth(i)    == IF i <= Base THEN i ELSE Base + Place(i - Base)
Ready(r)  == IF r <= Base THEN r ELSE Base + Placed(r - Base)

\* The packets that worker_handle_drop, and those that worker_handle_reorder, has
\* seen, and the one that is past both and not listed yet.
PastDrop == IF pc = "drop" THEN Len(hdr) - 1 ELSE Len(hdr)
Through  == IF pc \in {"drop", "reorder"} THEN Len(hdr) - 1 ELSE Len(hdr)
Coming   == IF pc \in {"dedup", "rwnd"} THEN 1 ELSE 0

\* Verdicts have been sent, and are about to be sent, for the packets that Nth
\* says; those that are lost, and no others, are dropped.
SentInv ==
    /\ Len(out) + Len(todo) + Coming = Ready(Through)
    /\ \A i \in 1 .. Len(out) :
          out[i].id = Nth(i) /\ (out[i].verdict = "accept" <=> ~IsLost(i))
    /\ \A i \in 1 .. Len(todo) : todo[i] = Nth(Len(out) + i) /\ ~IsLost(Len(out) + i)
    /\ Coming = 1 => Len(hdr) = Nth(Len(out) + 1) /\ ~IsLost(Len(out) + 1)
    /\ pc = "reorder" => ~IsLost(Len(hdr))

\* The loss that is left.
LeftInv ==
    Left = IF Pending("set_drop") THEN 0
           ELSE IF PastDrop <= Cut THEN row.loss
           ELSE IF PastDrop <= Base THEN Base - PastDrop ELSE 0

\* The kept packets that worker_handle_reorder has seen.
Kept == IF Through <= Base THEN 0 ELSE Through - Base

Armed == row.cnt > 0 /\ ~Pending("set_reorder")

\* The reorder buffer: the first Cap kept packets, until Wait more have passed.
HoldInv ==
    /\ Pending("stop_nfqueue") => ~Armed
    /\ ~Armed => ~do_reorder /\ Len(reorder_ids) = 0
    /\ Armed /\ ~Mixed =>
          /\ Len(reorder_ids) = 0
          /\ do_reorder => \/ reorder_count > 0 /\ reorder_offset = 0
                           \/ reorder_count <= 0 /\ reorder_offset > 0
    /\ Armed /\ Mixed /\ Kept < Cap + Wait =>
          /\ do_reorder
          /\ reorder_count = Cap - Kept
          /\ reorder_offset = IF Kept <= Cap THEN Wait ELSE Wait - (Kept - Cap)
          /\ Len(reorder_ids) = IF Kept <= Cap THEN Kept ELSE Cap
          /\ \A i \in 1 .. Len(reorder_ids) : reorder_ids[i] = Base + i
    /\ Armed /\ Mixed /\ Kept >= Cap + Wait => ~do_reorder /\ Len(reorder_ids) = 0

CleanInv == ~do_dedup /\ SentInv /\ LeftInv /\ HoldInv

\* The row has overtaken the last packet before the gap: it is held ...
Overtaken ==
    /\ pc \in {"recv", "drop", "reorder"}
    /\ do_reorder /\ reorder_offset > 0 /\ ~Pending("set_reorder")
    /\ Len(reorder_ids) > 0 /\ reorder_ids[1] = Cut
    /\ pc # "recv" => Len(hdr) > Cut

\* ... or another one leaves in its place, or it was lost.
Misplaced == \E i \in 1 .. Len(out) : i <= Cut /\ ~(out[i].id = i /\ out[i].verdict = "accept")

SpoiltInv ==
    /\ Cut >= 1
    /\ Pending("start_nfqueue") => ~Pending("stop_nfqueue") /\ run = "check"
    /\ \/ Misplaced
       \/ Len(out) = Cut - 1 /\ (Overtaken \/ (Len(todo) > 0 /\ todo[1] # Cut))

OrderInv == CleanInv \/ SpoiltInv

-----------------------------------------------------------------------------
(* Facts about the places. *)

LEMMA ModType ==
    ASSUME NEW a \in Nat, NEW b \in Nat \ {0}
    PROVE  a % b \in Nat
  OBVIOUS

LEMMA Numbers ==
    ASSUME GapInv
    PROVE  /\ Len(hdr) \in Nat /\ Len(out) \in Nat /\ Len(todo) \in Nat
           /\ Len(reorder_ids) \in Nat
           /\ row.loss \in Nat /\ row.cnt \in Nat /\ Cap \in Nat /\ Wait \in Nat
           /\ Cut \in Nat /\ Cut <= Len(hdr) /\ Base \in Nat /\ Base = Cut + row.loss
           /\ Pending("start_nfqueue") => Cut = Len(hdr)
           /\ drop_count \in Int /\ reorder_count \in Int /\ reorder_offset \in Int
           /\ pc \in {"drop", "reorder", "dedup", "rwnd"} => Len(hdr) > 0
           /\ pc \notin {"load", "send"} => Len(todo) = 0
  <1>1. /\ TypeOK /\ row.loss \in Nat /\ row.cnt \in Nat /\ row.offset \in Nat
        /\ before \in Nat /\ before <= Len(hdr)
    BY ParametersAssumption DEF GapInv, RowInv, LinkInv
  <1>2. /\ Len(hdr) \in Nat /\ Len(out) \in Nat /\ Len(todo) \in Nat /\ Len(reorder_ids) \in Nat
        /\ drop_count \in Int /\ reorder_count \in Int /\ reorder_offset \in Int
    BY <1>1, LenProperties DEF TypeOK
  <1>3. pc \in {"drop", "reorder", "dedup", "rwnd"} => Len(hdr) > 0
    BY <1>1, <1>2, EmptySeq DEF TypeOK
  <1>4. pc \notin {"load", "send"} => Len(todo) = 0
    BY <1>1, EmptySeq DEF TypeOK
  <1>5. Wait \in Nat /\ row.cnt % U16 \in Nat
    BY <1>1, ModType, ParametersAssumption DEF Wait
  <1>6. Cap \in Nat
    BY <1>5, ParametersAssumption DEF Cap, capped_count
  <1>7. Cut \in Nat /\ Cut <= Len(hdr) /\ (Pending("start_nfqueue") => Cut = Len(hdr))
    BY <1>1, <1>2 DEF Cut
  <1> QED BY <1>1, <1>2, <1>3, <1>4, <1>5, <1>6, <1>7 DEF Base

LEMMA SameRow ==
    ASSUME row' = row, Cut' = Cut
    PROVE  /\ Cap' = Cap /\ Wait' = Wait /\ Base' = Base /\ (Mixed' <=> Mixed)
           /\ \A i : Nth(i)' = Nth(i) /\ (IsLost(i)' <=> IsLost(i)) /\ Ready(i)' = Ready(i)
  <1>1. Cap' = Cap /\ Wait' = Wait /\ Base' = Base
    BY DEF Cap, Wait, Base
  <1>2. Mixed' <=> Mixed
    BY <1>1 DEF Mixed
  <1>3. \A j : Place(j)' = Place(j) /\ Placed(j)' = Placed(j)
    BY <1>1, <1>2 DEF Place, Placed
  <1> QED BY <1>1, <1>2, <1>3 DEF Nth, IsLost, Ready

\* The row does not move packets that arrived before the kept ones.
LEMMA EarlyPlaces ==
    ASSUME GapInv
    PROVE  /\ \A i \in Nat : i <= Base => Nth(i) = i /\ Ready(i) = i
           /\ ~Mixed => \A i \in Nat : Nth(i) = i /\ Ready(i) = i
  <1>1. Base \in Nat
    BY Numbers
  <1> QED BY <1>1 DEF Nth, Ready, Place, Placed

\* The kept packets of a row that reorders: of the first a, none has left until c
\* are held, then all but the c held ones have, and from c + w on all have.
LEMMA LatePlaces ==
    ASSUME Mixed, NEW b \in Nat, NEW c \in Nat, NEW w \in Nat, b = Base, c = Cap, w = Wait
    PROVE  /\ c > 0 /\ w > 0
           /\ \A a \in Nat : a <= c => Ready(b + a) = b
           /\ \A a \in Nat : c <= a /\ a < c + w => Ready(b + a) = b + a - c
           /\ \A a \in Nat : a >= c + w => Ready(b + a) = b + a
           /\ \A j \in Nat : 1 <= j /\ j <= w => Nth(b + j) = b + c + j
           /\ \A j \in Nat : 1 <= j /\ w < j /\ j <= w + c => Nth(b + j) = b + w + c + 1 - j
           /\ \A j \in Nat : 1 <= j /\ j > w + c => Nth(b + j) = b + j
           /\ \A j \in Nat : 1 <= j => ~IsLost(b + j)
  <1>1. c > 0 /\ w > 0
    BY DEF Mixed
  <1>2. \A a : Placed(a) = IF a >= c + w THEN a ELSE IF a <= c THEN 0 ELSE a - c
    BY DEF Placed
  <1>3. \A j : Place(j) = IF j > w + c THEN j ELSE IF j <= w THEN c + j ELSE w + c + 1 - j
    BY DEF Place
  <1>4. \A a \in Nat : Ready(b + a) = IF a = 0 THEN b ELSE b + Placed(a)
    <2> SUFFICES ASSUME NEW a \in Nat PROVE Ready(b + a) = IF a = 0 THEN b ELSE b + Placed(a)
      OBVIOUS
    <2>1. (b + a <= b <=> a = 0) /\ b + a - b = a /\ b + 0 = b
      OBVIOUS
    <2> QED BY <2>1 DEF Ready
  <1>5. \A j \in Nat : 1 <= j => Nth(b + j) = b + Place(j) /\ ~IsLost(b + j)
    <2> SUFFICES ASSUME NEW j \in Nat, 1 <= j PROVE Nth(b + j) = b + Place(j) /\ ~IsLost(b + j)
      OBVIOUS
    <2>1. ~(b + j <= b) /\ b + j - b = j
      OBVIOUS
    <2> QED BY <2>1 DEF Nth, IsLost
  <1>6. ASSUME NEW a \in Nat
        PROVE  /\ a <= c => Ready(b + a) = b
               /\ c <= a /\ a < c + w => Ready(b + a) = b + a - c
               /\ a >= c + w => Ready(b + a) = b + a
    <2>1. Placed(a) = IF a >= c + w THEN a ELSE IF a <= c THEN 0 ELSE a - c
      BY <1>2
    <2>2. Ready(b + a) = IF a = 0 THEN b ELSE b + Placed(a)
      BY <1>4
    <2> QED BY <1>1, <2>1, <2>2
  <1>7. ASSUME NEW j \in Nat, 1 <= j
        PROVE  /\ j <= w => Nth(b + j) = b + c + j
               /\ w < j /\ j <= w + c => Nth(b + j) = b + w + c + 1 - j
               /\ j > w + c => Nth(b + j) = b + j
    <2>1. Place(j) = IF j > w + c THEN j ELSE IF j <= w THEN c + j ELSE w + c + 1 - j
      BY <1>3
    <2>2. Nth(b + j) = b + Place(j)
      BY <1>5, <1>7
    <2> QED BY <1>1, <2>1, <2>2
  <1> QED BY <1>1, <1>5, <1>6, <1>7

-----------------------------------------------------------------------------
(* The handlers, one by one. *)

\* A handler sees neither the row nor the gap.
LEMMA HandlerFrame ==
    ASSUME GapInv, ArmedInv, nfq_handle_packet
    PROVE  /\ row' = row /\ hdr' = hdr /\ run' = run /\ Cut' = Cut /\ do_dedup' = do_dedup
           /\ pc # "recv" /\ run = "check"
           /\ \A f : Pending(f)' <=> Pending(f)
  <1>1. /\ NfqThread /\ pc # "recv" /\ UNCHANGED <<row, todo_events, before, run>>
        /\ \A f : Pending(f)' <=> Pending(f)
    BY DEF nfq_handle_packet, gap_vars, Pending
  <1>2. hdr' = hdr /\ do_dedup' = do_dedup
    BY <1>1 DEF NfqThread, worker_callback, worker_handle_drop, worker_handle_reorder,
                worker_skip_reorder, worker_handle_dedup, worker_handle_rwnd, load_mark,
                nfq_set_verdict2, kernel_vars
  <1>3. Cut' = Cut
    BY <1>1, <1>2 DEF Cut
  <1>4. run = "check"
    BY <1>1 DEF ArmedInv
  <1> QED BY <1>1, <1>2, <1>3, <1>4

\* What left in a wrong place stays there.
LEMMA MisplacedStays ==
    ASSUME TypeOK, Misplaced, Cut' = Cut,
           out' = out \/ \E v \in Verdicts : out' = Append(out, v)
    PROVE  Misplaced'
  <1>1. PICK i \in 1 .. Len(out) : i <= Cut /\ ~(out[i].id = i /\ out[i].verdict = "accept")
    BY DEF Misplaced
  <1>2. i \in 1 .. Len(out') /\ out'[i] = out[i]
    <2>1. CASE out' = out
      BY <2>1
    <2>2. ASSUME NEW v \in Verdicts, out' = Append(out, v)
          PROVE  i \in 1 .. Len(out') /\ out'[i] = out[i]
      <3>1. /\ Len(out) \in Nat /\ Len(out') = Len(out) + 1
            /\ \A k \in 1 .. Len(out) : out'[k] = out[k]
        BY <2>2, OneMore
      <3> QED BY <3>1
    <2> QED BY <2>1, <2>2
  <1> QED BY <1>1, <1>2 DEF Misplaced

\* worker_handle_drop, in a clean gap.
LEMMA CleanDrop ==
    ASSUME GapInv, ArmedInv, CleanInv, nfq_handle_packet, worker_handle_drop
    PROVE  OrderInv'
  <1>0. /\ row' = row /\ hdr' = hdr /\ run' = "check" /\ Cut' = Cut /\ do_dedup' = do_dedup
        /\ \A f : Pending(f)' <=> Pending(f)
    BY HandlerFrame
  <1>1. /\ Cap' = Cap /\ Wait' = Wait /\ Base' = Base /\ (Mixed' <=> Mixed)
        /\ \A i : Nth(i)' = Nth(i) /\ (IsLost(i)' <=> IsLost(i)) /\ Ready(i)' = Ready(i)
    BY <1>0, SameRow
  <1>2. /\ Len(hdr) \in Nat /\ Len(out) \in Nat /\ Len(todo) = 0
        /\ row.loss \in Nat /\ Cap \in Nat /\ Wait \in Nat
        /\ Cut \in Nat /\ Cut <= Len(hdr) /\ Base \in Nat /\ Base = Cut + row.loss
        /\ Pending("start_nfqueue") => Cut = Len(hdr)
        /\ Len(hdr) > 0
        /\ pc = "drop"
    BY Numbers DEF worker_handle_drop
  <1>3. /\ Left \in Nat
        /\ \/ /\ Left > 0 /\ Left' = Left - 1 /\ pc' = "recv"
              /\ out' = Append(out, Drop(Current, "loss"))
           \/ Left = 0 /\ Left' = 0 /\ pc' = "reorder" /\ out' = out
    <2>1. TypeOK /\ (do_drop => drop_count > 0)
      BY DEF ArmedInv, GapInv
    <2> QED BY <2>1, DropHandler
  <1>4. UNCHANGED <<todo, do_reorder, reorder_count, reorder_offset, reorder_ids>>
    BY DEF worker_handle_drop, reorder_vars
  <1>5. PastDrop = Len(hdr) - 1 /\ PastDrop' = Len(hdr) /\ Through = Len(hdr) - 1
        /\ Coming = 0 /\ Coming' = 0
    BY <1>0, <1>2, <1>3 DEF PastDrop, Through, Coming
  <1>6. /\ Len(out) = Ready(Len(hdr) - 1)
        /\ \A i \in 1 .. Len(out) :
              out[i].id = Nth(i) /\ (out[i].verdict = "accept" <=> ~IsLost(i))
        /\ ~do_dedup /\ HoldInv
    BY <1>2, <1>5 DEF CleanInv, SentInv
  <1>7. Left = IF Pending("set_drop") THEN 0
               ELSE IF Len(hdr) - 1 <= Cut THEN row.loss
               ELSE IF Len(hdr) - 1 <= Base THEN Base - (Len(hdr) - 1) ELSE 0
    BY <1>5 DEF CleanInv, LeftInv
  <1>8. Pending("set_drop") => Cut = Len(hdr)
    BY <1>2, StartLast DEF GapInv
  <1>9. \A i \in Nat : i <= Base => Nth(i) = i /\ Ready(i) = i
    BY EarlyPlaces
  <1>10. CASE Left = 0
    <2>1. Left' = 0 /\ pc' = "reorder" /\ out' = out
      BY <1>3, <1>10
    <2>2. Through' = Through
      BY <1>0, <1>5, <2>1 DEF Through
    <2>3. ~IsLost(Len(hdr))
      BY <1>2, <1>7, <1>8, <1>10 DEF IsLost
    <2>4. SentInv'
      BY <1>0, <1>1, <1>2, <1>4, <1>5, <1>6, <2>1, <2>2, <2>3 DEF SentInv
    <2>5. LeftInv'
      BY <1>0, <1>1, <1>2, <1>5, <1>7, <1>8, <1>10, <2>1 DEF LeftInv
    <2>6. HoldInv'
      BY <1>0, <1>1, <1>4, <1>6, <2>2 DEF HoldInv, Kept, Armed
    <2> QED BY <1>0, <1>6, <2>4, <2>5, <2>6 DEF CleanInv, OrderInv
  <1>11. CASE Left > 0
    <2> DEFINE v == Drop(Current, "loss")
    <2>1. Left' = Left - 1 /\ pc' = "recv" /\ out' = Append(out, v)
      BY <1>3, <1>11
    <2>2. v \in Verdicts /\ v.id = Len(hdr) /\ v.verdict # "accept"
      <3>1. v \in Verdicts
        BY DropType DEF GapInv
      <3> QED BY <3>1 DEF Drop, Current
    <2> HIDE DEF v
    <2>3. /\ Len(out') = Len(out) + 1
          /\ \A i \in 1 .. Len(out) : out'[i] = out[i]
          /\ out'[Len(out) + 1] = v
          /\ \A i \in 1 .. Len(out') : i \in 1 .. Len(out) \/ i = Len(out) + 1
      BY <2>1, <2>2, OneMore DEF GapInv
    <2>4. /\ ~Pending("set_drop") /\ row.loss > 0 /\ Len(hdr) <= Base /\ ~Pending("stop_nfqueue")
      <3>1. ~Pending("set_drop") /\ row.loss > 0 /\ Len(hdr) <= Base
        BY <1>2, <1>7, <1>11
      <3> QED BY <3>1 DEF ArmedInv
    <2>5. Len(out) = Len(hdr) - 1
      BY <1>2, <1>6, <1>9, <2>4
    <2>6. CASE Len(hdr) <= Cut
      <3>1. Len(hdr) = Cut /\ Len(out') = Cut /\ Cut \in 1 .. Len(out')
        BY <1>2, <2>3, <2>5, <2>6
      <3>2. out'[Cut].verdict # "accept"
        BY <2>2, <2>3, <2>5, <3>1
      <3>3. Misplaced'
        BY <1>0, <3>1, <3>2 DEF Misplaced
      <3> QED BY <1>0, <1>2, <2>4, <3>1, <3>3 DEF SpoiltInv, OrderInv
    <2>7. CASE Len(hdr) > Cut
      <3>1. Through' = Len(hdr)
        BY <1>0, <2>1 DEF Through
      <3>2. IsLost(Len(hdr)) /\ Nth(Len(hdr)) = Len(hdr) /\ Ready(Len(hdr)) = Len(hdr)
        BY <1>2, <1>9, <2>4, <2>7 DEF IsLost
      <3>3. \A i \in 1 .. Len(out') :
               out'[i].id = Nth(i) /\ (out'[i].verdict = "accept" <=> ~IsLost(i))
        BY <1>6, <2>2, <2>3, <2>5, <3>2
      <3>4. SentInv'
        BY <1>0, <1>1, <1>2, <1>4, <1>5, <2>1, <2>3, <2>5, <3>1, <3>2, <3>3 DEF SentInv
      <3>5. LeftInv'
        <4>0. Left = Base - (Len(hdr) - 1)
          <5>1. CASE Len(hdr) - 1 <= Cut
            <6>1. Len(hdr) - 1 = Cut /\ Left = row.loss
              BY <1>2, <1>7, <2>4, <2>7, <5>1
            <6> QED BY <1>2, <6>1
          <5>2. CASE ~(Len(hdr) - 1 <= Cut)
            BY <1>2, <1>7, <2>4, <5>2
          <5> QED BY <5>1, <5>2
        <4>1. Left' = Base - Len(hdr)
          BY <1>2, <2>1, <4>0
        <4>2. ~Pending("set_drop")' /\ ~(PastDrop' <= Cut') /\ PastDrop' <= Base' /\ PastDrop' = Len(hdr)
          BY <1>0, <1>1, <1>2, <1>5, <2>4, <2>7
        <4> QED BY <1>1, <4>1, <4>2 DEF LeftInv
      <3>6. Kept' = 0 /\ Kept = 0
        BY <1>0, <1>1, <1>2, <1>5, <2>4, <3>1 DEF Kept
      <3>7. HoldInv'
        BY <1>0, <1>1, <1>4, <1>6, <3>6 DEF HoldInv, Armed
      <3> QED BY <1>0, <1>6, <3>4, <3>5, <3>7 DEF CleanInv, OrderInv
    <2> QED BY <1>2, <2>6, <2>7
  <1> QED BY <1>3, <1>10, <1>11

\* What worker_handle_reorder does to the buffer and to the list of packets to
\* accept: it holds the packet, or passes it, and with it releases the held ones
\* when the offset is used up.
LEMMA ReorderHandler ==
    ASSUME TypeOK, worker_handle_reorder
    PROVE  /\ pc = "reorder" /\ do_reorder
           /\ UNCHANGED <<out, do_drop, drop_count>>
           /\ reorder_count' = reorder_count - 1
           /\ reorder_count > 0 => reorder_offset' = reorder_offset
           /\ reorder_count <= 0 => reorder_offset' = reorder_offset - 1
           /\ do_reorder' <=> ~(reorder_offset' <= 0)
           /\ reorder_count > 0 /\ reorder_offset > 0 =>
                 /\ Len(reorder_ids') = Len(reorder_ids) + 1
                 /\ \A i \in 1 .. Len(reorder_ids) : reorder_ids'[i] = reorder_ids[i]
                 /\ reorder_ids'[Len(reorder_ids) + 1] = Len(hdr)
                 /\ Len(todo') = 0 /\ pc' = "recv"
           /\ reorder_count > 0 /\ reorder_offset <= 0 =>
                 /\ Len(reorder_ids') = 0 /\ pc' = "load"
                 /\ Len(reorder_ids) = 0 => Len(todo') = 1 /\ todo'[1] = Len(hdr)
           /\ reorder_count <= 0 /\ reorder_offset > 1 =>
                 /\ reorder_ids' = reorder_ids /\ pc' = "load"
                 /\ Len(todo') = 1 /\ todo'[1] = Len(hdr)
           /\ reorder_count <= 0 /\ reorder_offset = 1 =>
                 /\ Len(reorder_ids') = 0 /\ pc' = "load"
                 /\ Len(todo') = Len(reorder_ids) + 1 /\ todo'[1] = Len(hdr)
                 /\ \A i \in 1 .. Len(reorder_ids) :
                       todo'[i + 1] = reorder_ids[Len(reorder_ids) - i + 1]
  <1> DEFINE hold == reorder_count > 0
             ids  == IF hold THEN Append(reorder_ids, Current) ELSE reorder_ids
             pass == IF ~hold /\ reorder_offset > 0 THEN <<Current>> ELSE <<>>
             rel  == IF reorder_offset' <= 0 THEN release_order(ids) ELSE <<>>
  <1>1. /\ pc = "reorder" /\ do_reorder /\ UNCHANGED <<out, do_drop, drop_count>>
        /\ reorder_count' = reorder_count - 1
        /\ reorder_count \in Int /\ reorder_offset \in Int
    BY DEF worker_handle_reorder, kernel_vars, drop_vars, TypeOK
  <1>2. reorder_offset' = IF hold THEN reorder_offset ELSE reorder_offset - 1
    BY DEF worker_handle_reorder
  <1>3. do_reorder' <=> ~(reorder_offset' <= 0)
    BY Zenon DEF worker_handle_reorder
  <1>4. reorder_ids' = IF reorder_offset' <= 0 THEN <<>> ELSE ids
    BY DEF worker_handle_reorder
  <1>5. todo' = pass \o rel
    BY DEF worker_handle_reorder
  <1>6. pc' = IF todo' = <<>> THEN "recv" ELSE "load"
    BY DEF worker_handle_reorder
  <1>7. Current \in Ids /\ Current = Len(hdr) /\ reorder_ids \in Seq(Ids) /\ Len(reorder_ids) \in Nat
    BY <1>1, CurrentHeader DEF InHandler, TypeOK, Current
  <1>8. /\ ids \in Seq(Ids)
        /\ hold => /\ Len(ids) = Len(reorder_ids) + 1
                   /\ \A i \in 1 .. Len(reorder_ids) : ids[i] = reorder_ids[i]
                   /\ ids[Len(reorder_ids) + 1] = Current
        /\ ~hold => ids = reorder_ids
    <2>1. CASE hold
      BY <1>7, <2>1, AppendProperties
    <2>2. CASE ~hold
      BY <1>7, <2>2
    <2> QED BY <2>1, <2>2
  <1> HIDE DEF ids
  <1>9. /\ pass \in Seq(Ids)
        /\ ~hold /\ reorder_offset > 0 => Len(pass) = 1 /\ pass[1] = Current
        /\ hold => pass = <<>>
    BY <1>7, EmptySeq
  <1>10. /\ rel \in Seq(Ids)
         /\ reorder_offset' <= 0 => /\ Len(rel) = Len(ids)
                                    /\ \A i \in 1 .. Len(ids) : rel[i] = ids[Len(ids) - i + 1]
         /\ ~(reorder_offset' <= 0) => rel = <<>>
    <2>1. /\ release_order(ids) \in Seq(Ids) /\ Len(release_order(ids)) = Len(ids)
          /\ \A i \in 1 .. Len(ids) : release_order(ids)[i] = ids[Len(ids) - i + 1]
      BY <1>8, ReleaseOrder
    <2> QED BY <2>1, EmptySeq
  <1> HIDE DEF pass, rel
  <1>11. /\ todo' \in Seq(Ids) /\ Len(pass) \in Nat /\ Len(rel) \in Nat
         /\ Len(todo') = Len(pass) + Len(rel)
         /\ \A i \in 1 .. Len(pass) + Len(rel) :
               todo'[i] = IF i <= Len(pass) THEN pass[i] ELSE rel[i - Len(pass)]
    <2>1. Len(pass) \in Nat /\ Len(rel) \in Nat
      BY <1>9, <1>10, LenProperties
    <2> QED BY <1>5, <1>9, <1>10, <2>1, ConcatProperties
  <1>12. (todo' = <<>>) <=> (Len(todo') = 0)
    BY <1>11, EmptySeq
  <1>13. ASSUME hold, reorder_offset > 0
         PROVE  /\ Len(reorder_ids') = Len(reorder_ids) + 1
                /\ \A i \in 1 .. Len(reorder_ids) : reorder_ids'[i] = reorder_ids[i]
                /\ reorder_ids'[Len(reorder_ids) + 1] = Len(hdr)
                /\ Len(todo') = 0 /\ pc' = "recv"
    <2>1. ~(reorder_offset' <= 0) /\ reorder_ids' = ids /\ pass = <<>> /\ rel = <<>>
      BY <1>1, <1>2, <1>4, <1>9, <1>10, <1>13
    <2>2. Len(todo') = 0
      BY <1>11, <2>1, EmptySeq
    <2> QED BY <1>6, <1>7, <1>8, <1>12, <1>13, <2>1, <2>2
  <1>14. ASSUME hold, reorder_offset <= 0
         PROVE  /\ Len(reorder_ids') = 0 /\ pc' = "load"
                /\ Len(reorder_ids) = 0 => Len(todo') = 1 /\ todo'[1] = Len(hdr)
    <2>1. reorder_offset' <= 0 /\ reorder_ids' = <<>> /\ pass = <<>> /\ Len(pass) = 0
      BY <1>1, <1>2, <1>4, <1>9, <1>14, EmptySeq
    <2>2. /\ Len(todo') = Len(ids) /\ Len(ids) = Len(reorder_ids) + 1
          /\ \A i \in 1 .. Len(ids) : todo'[i] = ids[Len(ids) - i + 1]
      BY <1>7, <1>8, <1>10, <1>11, <1>14, <2>1
    <2>3. Len(reorder_ids') = 0
      BY <2>1, EmptySeq
    <2>4. Len(todo') # 0
      BY <1>7, <2>2
    <2>5. ASSUME Len(reorder_ids) = 0 PROVE Len(todo') = 1 /\ todo'[1] = Len(hdr)
      <3>1. Len(ids) = 1 /\ 1 \in 1 .. Len(ids) /\ Len(ids) - 1 + 1 = 1 /\ ids[1] = Current
        BY <1>7, <1>8, <1>14, <2>2, <2>5
      <3> QED BY <1>7, <2>2, <3>1
    <2> QED BY <1>6, <1>12, <2>3, <2>4, <2>5
  <1>15. ASSUME ~hold, reorder_offset > 1
         PROVE  /\ reorder_ids' = reorder_ids /\ pc' = "load"
                /\ Len(todo') = 1 /\ todo'[1] = Len(hdr)
    <2>1. ~(reorder_offset' <= 0) /\ reorder_ids' = reorder_ids /\ rel = <<>> /\ Len(rel) = 0
      BY <1>1, <1>2, <1>4, <1>8, <1>10, <1>15, EmptySeq
    <2>2. Len(pass) = 1 /\ pass[1] = Current
      BY <1>1, <1>9, <1>15
    <2>3. Len(todo') = 1 /\ todo'[1] = Current
      BY <1>11, <2>1, <2>2
    <2> QED BY <1>6, <1>7, <1>12, <2>1, <2>3
  <1>16. ASSUME ~hold, reorder_offset = 1
         PROVE  /\ Len(reorder_ids') = 0 /\ pc' = "load"
                /\ Len(todo') = Len(reorder_ids) + 1 /\ todo'[1] = Len(hdr)
                /\ \A i \in 1 .. Len(reorder_ids) :
                      todo'[i + 1] = reorder_ids[Len(reorder_ids) - i + 1]
    <2>1. reorder_offset' <= 0 /\ reorder_ids' = <<>> /\ ids = reorder_ids
      BY <1>1, <1>2, <1>4, <1>8, <1>16
    <2>2. Len(pass) = 1 /\ pass[1] = Current
      BY <1>1, <1>9, <1>16
    <2>3. /\ Len(rel) = Len(reorder_ids)
          /\ \A i \in 1 .. Len(reorder_ids) : rel[i] = reorder_ids[Len(reorder_ids) - i + 1]
      BY <1>10, <2>1
    <2>4. Len(todo') = Len(reorder_ids) + 1 /\ todo'[1] = Current
      BY <1>7, <1>11, <2>2, <2>3
    <2>5. \A i \in 1 .. Len(reorder_ids) : todo'[i + 1] = rel[i]
      BY <1>7, <1>11, <2>2, <2>3
    <2>6. Len(reorder_ids') = 0 /\ Len(todo') # 0
      BY <1>7, <2>1, <2>4, EmptySeq
    <2> QED BY <1>6, <1>7, <1>12, <2>3, <2>4, <2>5, <2>6
  <1>17. /\ reorder_count > 0 => reorder_offset' = reorder_offset
         /\ reorder_count <= 0 => reorder_offset' = reorder_offset - 1
    BY <1>1, <1>2
  <1> QED BY <1>1, <1>3, <1>13, <1>14, <1>15, <1>16, <1>17

\* worker_handle_reorder, in a clean gap.
LEMMA CleanReorder ==
    ASSUME GapInv, ArmedInv, CleanInv, nfq_handle_packet, worker_handle_reorder
    PROVE  OrderInv'
  <1>0. /\ row' = row /\ hdr' = hdr /\ run' = "check" /\ Cut' = Cut /\ do_dedup' = do_dedup
        /\ \A f : Pending(f)' <=> Pending(f)
    BY HandlerFrame
  <1>1. /\ Cap' = Cap /\ Wait' = Wait /\ Base' = Base /\ (Mixed' <=> Mixed)
        /\ \A i : Nth(i)' = Nth(i) /\ (IsLost(i)' <=> IsLost(i)) /\ Ready(i)' = Ready(i)
    BY <1>0, SameRow
  <1>2. /\ Len(hdr) \in Nat /\ Len(out) \in Nat /\ Len(todo) = 0 /\ Len(reorder_ids) \in Nat
        /\ row.loss \in Nat /\ Cap \in Nat /\ Wait \in Nat
        /\ Cut \in Nat /\ Cut <= Len(hdr) /\ Base \in Nat /\ Base = Cut + row.loss
        /\ reorder_count \in Int /\ reorder_offset \in Int
        /\ Len(hdr) > 0
        /\ pc = "reorder"
    BY Numbers DEF worker_handle_reorder
  <1>3. /\ do_reorder /\ UNCHANGED <<out, do_drop, drop_count>>
        /\ reorder_count' = reorder_count - 1
        /\ reorder_count > 0 => reorder_offset' = reorder_offset
        /\ reorder_count <= 0 => reorder_offset' = reorder_offset - 1
        /\ do_reorder' <=> ~(reorder_offset' <= 0)
    BY ReorderHandler DEF GapInv
  <1>4. reorder_count > 0 /\ reorder_offset > 0 =>
           /\ Len(reorder_ids') = Len(reorder_ids) + 1
           /\ \A i \in 1 .. Len(reorder_ids) : reorder_ids'[i] = reorder_ids[i]
           /\ reorder_ids'[Len(reorder_ids) + 1] = Len(hdr)
           /\ Len(todo') = 0 /\ pc' = "recv"
    BY ReorderHandler DEF GapInv
  <1>5. /\ reorder_count > 0 /\ reorder_offset <= 0 =>
              /\ Len(reorder_ids') = 0 /\ pc' = "load"
              /\ Len(reorder_ids) = 0 => Len(todo') = 1 /\ todo'[1] = Len(hdr)
        /\ reorder_count <= 0 /\ reorder_offset > 1 =>
              /\ reorder_ids' = reorder_ids /\ pc' = "load"
              /\ Len(todo') = 1 /\ todo'[1] = Len(hdr)
        /\ reorder_count <= 0 /\ reorder_offset = 1 =>
              /\ Len(reorder_ids') = 0 /\ pc' = "load"
              /\ Len(todo') = Len(reorder_ids) + 1 /\ todo'[1] = Len(hdr)
              /\ \A i \in 1 .. Len(reorder_ids) :
                    todo'[i + 1] = reorder_ids[Len(reorder_ids) - i + 1]
    BY ReorderHandler DEF GapInv
  <1>6. /\ pc' \in {"recv", "load"} /\ PastDrop = Len(hdr) /\ PastDrop' = Len(hdr)
        /\ Through = Len(hdr) - 1 /\ Through' = Len(hdr) /\ Coming = 0 /\ Coming' = 0
        /\ Left' = Left
    <2>1. pc' \in {"recv", "load"}
      BY <1>2, <1>4, <1>5, <1>3, Numbers DEF worker_handle_reorder
    <2>2. Left' = Left
      BY <1>3 DEF Left
    <2> QED BY <1>0, <1>2, <2>1, <2>2 DEF PastDrop, Through, Coming
  <1>7. /\ Len(out) = Ready(Len(hdr) - 1)
        /\ \A i \in 1 .. Len(out) :
              out[i].id = Nth(i) /\ (out[i].verdict = "accept" <=> ~IsLost(i))
        /\ ~IsLost(Len(hdr)) /\ ~do_dedup /\ HoldInv
    BY <1>2, <1>6 DEF CleanInv, SentInv
  <1>8. LeftInv'
    <2>1. LeftInv
      BY DEF CleanInv
    <2> QED BY <1>0, <1>1, <1>6, <2>1 DEF LeftInv
  <1>9. Armed /\ Armed' /\ ~Pending("stop_nfqueue") /\ ~Pending("set_reorder")
    BY <1>0, <1>3, <1>7 DEF HoldInv, Armed
  <1>10. /\ \A i \in Nat : i <= Base => Nth(i) = i /\ Ready(i) = i
         /\ ~Mixed => \A i \in Nat : Nth(i) = i /\ Ready(i) = i
    BY EarlyPlaces
  <1>11. ASSUME Len(out) + Len(todo') = Ready(Len(hdr)),
                \A i \in 1 .. Len(todo') : todo'[i] = Nth(Len(out) + i) /\ ~IsLost(Len(out) + i),
                HoldInv'
         PROVE  OrderInv'
    <2>1. SentInv'
      <3>1. Len(out') + Len(todo') + Coming' = Ready(Through)'
        BY <1>0, <1>1, <1>2, <1>3, <1>6, <1>11
      <3>2. \A i \in 1 .. Len(out') :
               out'[i].id = Nth(i)' /\ (out'[i].verdict = "accept" <=> ~IsLost(i)')
        BY <1>0, <1>1, <1>3, <1>7
      <3>3. \A i \in 1 .. Len(todo') :
               todo'[i] = Nth(Len(out) + i)' /\ ~IsLost(Len(out) + i)'
        <4> SUFFICES ASSUME NEW i \in 1 .. Len(todo')
                     PROVE  todo'[i] = Nth(Len(out) + i)' /\ ~IsLost(Len(out) + i)'
          OBVIOUS
        <4>1. PICK n : n = Len(out) + i
          OBVIOUS
        <4>2. n = Len(out') + i
          BY <1>3, <4>1
        <4>3. todo'[i] = Nth(n) /\ ~IsLost(n)
          BY <1>11, <4>1
        <4>4. Nth(n)' = Nth(n) /\ (IsLost(n)' <=> IsLost(n))
          BY <1>1
        <4> QED BY <4>2, <4>3, <4>4
      <3>4. Coming' # 1 /\ pc' # "reorder"
        BY <1>6
      <3> QED BY <3>1, <3>2, <3>3, <3>4 DEF SentInv
    <2> QED BY <1>0, <1>7, <1>8, <1>11, <2>1 DEF CleanInv, OrderInv
  <1>12. CASE ~Mixed
    <2>1. /\ Len(reorder_ids) = 0
          /\ \/ reorder_count > 0 /\ reorder_offset = 0
             \/ reorder_count <= 0 /\ reorder_offset > 0
      BY <1>3, <1>7, <1>9, <1>12 DEF HoldInv
    <2>2. Len(todo') = 1 /\ todo'[1] = Len(hdr) /\ Len(reorder_ids') = 0
      BY <1>2, <1>5, <2>1
    <2>3. Len(out) = Len(hdr) - 1 /\ Ready(Len(hdr)) = Len(hdr) /\ Nth(Len(hdr)) = Len(hdr)
      BY <1>2, <1>7, <1>10, <1>12
    <2>4. do_reorder' => reorder_count' <= 0 /\ reorder_offset' > 0
      BY <1>2, <1>3, <2>1
    <2>5. HoldInv'
      BY <1>0, <1>1, <1>9, <1>12, <2>2, <2>4 DEF HoldInv
    <2>6. \A i \in 1 .. Len(todo') : todo'[i] = Nth(Len(out) + i) /\ ~IsLost(Len(out) + i)
      <3>1. Len(out) + 1 = Len(hdr) /\ \A i \in 1 .. Len(todo') : i = 1
        BY <1>2, <2>2, <2>3
      <3> QED BY <1>7, <2>2, <2>3, <3>1
    <2> QED BY <1>2, <1>11, <2>2, <2>3, <2>5, <2>6
  <1>13. CASE Mixed /\ Len(hdr) <= Base
    <2>1. Len(hdr) = Cut
      BY <1>2, <1>7, <1>13 DEF IsLost
    <2>2. Kept = 0 /\ Cap > 0 /\ Wait > 0
      BY <1>2, <1>6, <1>13 DEF Kept, Mixed
    <2>3. reorder_count > 0 /\ reorder_offset = Wait /\ Len(reorder_ids) = 0
      BY <1>2, <1>7, <1>9, <1>13, <2>2 DEF HoldInv
    <2>4. /\ do_reorder' /\ reorder_offset' > 0 /\ pc' = "recv"
          /\ Len(reorder_ids') = 1 /\ reorder_ids'[1] = Cut
      BY <1>2, <1>3, <1>4, <2>1, <2>2, <2>3
    <2>5. Overtaken'
      BY <1>0, <1>9, <2>4 DEF Overtaken
    <2>6. Len(out') = Cut' - 1
      BY <1>0, <1>2, <1>3, <1>7, <1>10, <2>1
    <2> QED BY <1>0, <1>2, <1>9, <2>1, <2>5, <2>6 DEF SpoiltInv, OrderInv
  <1>14. CASE Mixed /\ Len(hdr) > Base
    <2>1. PICK b \in Nat, c \in Nat, w \in Nat, h \in Nat, o \in Nat, n \in Nat :
             /\ b = Base /\ c = Cap /\ w = Wait /\ h = Len(hdr) /\ o = Len(out)
             /\ n = Len(reorder_ids) /\ h > b
      BY <1>2, <1>14
    <2>2. PICK a \in Nat : h = b + (a + 1) /\ h - 1 = b + a
      <3>1. h - b - 1 \in Nat /\ h = b + ((h - b - 1) + 1) /\ h - 1 = b + (h - b - 1)
        BY <2>1
      <3> QED BY <3>1
    <2>3. Kept = a /\ Kept' = a + 1
      <3>1. ~(b + (a + 1) <= b) /\ b + (a + 1) - b = a + 1 /\ b + a - b = a /\ (b + a <= b <=> a = 0)
        OBVIOUS
      <3>2. Through = b + a /\ Through' = b + (a + 1) /\ Base' = b
        BY <1>1, <1>6, <2>1, <2>2
      <3> QED BY <2>1, <3>1, <3>2 DEF Kept
    <2>4. /\ c > 0 /\ w > 0
          /\ \A i \in Nat : i <= c => Ready(b + i) = b
          /\ \A i \in Nat : c <= i /\ i < c + w => Ready(b + i) = b + i - c
          /\ \A i \in Nat : i >= c + w => Ready(b + i) = b + i
          /\ \A j \in Nat : 1 <= j /\ j <= w => Nth(b + j) = b + c + j
          /\ \A j \in Nat : 1 <= j /\ w < j /\ j <= w + c => Nth(b + j) = b + w + c + 1 - j
          /\ \A j \in Nat : 1 <= j => ~IsLost(b + j)
      <3>1. Mixed /\ b = Base /\ c = Cap /\ w = Wait
        BY <1>14, <2>1
      <3> QED BY <3>1, LatePlaces
    <2>5. a < c + w
      <3>1. Kept >= Cap + Wait => ~do_reorder
        BY <1>7, <1>9, <1>14 DEF HoldInv
      <3> QED BY <1>3, <2>1, <2>3, <3>1
    <2>6. /\ reorder_count = c - a
          /\ reorder_offset = IF a <= c THEN w ELSE w - (a - c)
          /\ n = IF a <= c THEN a ELSE c
          /\ \A i \in 1 .. n : reorder_ids[i] = b + i
      BY <1>7, <1>9, <1>14, <2>1, <2>3, <2>5 DEF HoldInv
    <2>7. o = Ready(b + a)
      BY <1>7, <2>1, <2>2
    <2>8. ASSUME NEW d \in Nat, d = Len(todo'), o + d = Ready(b + (a + 1)),
                 \A i \in 1 .. d : todo'[i] = Nth(o + i) /\ ~IsLost(o + i),
                 HoldInv'
          PROVE  OrderInv'
      BY <1>11, <2>1, <2>2, <2>8
    <2>9. CASE a < c
      <3>0. a <= c /\ a + 1 <= c /\ a + 1 \in Nat
        BY <2>9
      <3>a. Ready(b + a) = b /\ Ready(b + (a + 1)) = b
        BY <2>4, <3>0
      <3>1. reorder_count > 0 /\ reorder_offset = w /\ n = a /\ o = b /\ Ready(b + (a + 1)) = b
        BY <2>6, <2>7, <2>9, <3>0, <3>a
      <3>2. /\ do_reorder' /\ reorder_count' = c - a - 1 /\ reorder_offset' = w
            /\ Len(reorder_ids') = a + 1 /\ Len(todo') = 0
            /\ \A i \in 1 .. a : reorder_ids'[i] = reorder_ids[i]
            /\ reorder_ids'[a + 1] = h
        BY <1>3, <1>4, <2>1, <2>4, <2>6, <3>1
      <3>3. \A i \in 1 .. a + 1 : reorder_ids'[i] = b + i
        <4> SUFFICES ASSUME NEW i \in 1 .. a + 1 PROVE reorder_ids'[i] = b + i
          OBVIOUS
        <4>1. CASE i = a + 1
          BY <2>2, <3>2, <4>1
        <4>2. CASE i # a + 1
          <5>1. i \in 1 .. a
            BY <4>2
          <5> QED BY <2>6, <3>1, <3>2, <5>1
        <4> QED BY <4>1, <4>2
      <3>4. a + 1 < c + w /\ a + 1 <= c /\ c - a - 1 = c - (a + 1)
        BY <2>4, <2>9
      <3>5. HoldInv'
        BY <1>0, <1>1, <1>9, <1>14, <2>1, <2>3, <3>2, <3>3, <3>4 DEF HoldInv
      <3>6. o + 0 = Ready(b + (a + 1))
        BY <3>1
      <3> QED BY <2>8, <3>2, <3>5, <3>6
    <2>10. ASSUME ~(a < c)
           PROVE  /\ reorder_count <= 0 /\ reorder_offset = c + w - a /\ n = c
                  /\ o + 1 = b + (a - c + 1) /\ reorder_count' = c - (a + 1)
                  /\ reorder_offset' = c + w - (a + 1)
                  /\ Nth(o + 1) = h /\ ~IsLost(o + 1)
      <3>1. reorder_count <= 0 /\ reorder_offset = c + w - a /\ n = c
        BY <2>5, <2>6, <2>10
      <3>2. o = b + a - c
        <4>1. c <= a
          BY <2>10
        <4>2. Ready(b + a) = b + a - c
          BY <2>4, <2>5, <4>1
        <4> QED BY <2>7, <4>2
      <3>3. reorder_count' = c - (a + 1) /\ reorder_offset' = c + w - (a + 1)
        BY <1>3, <2>6, <3>1
      <3>4. PICK j \in Nat : j = a - c + 1 /\ 1 <= j /\ j <= w /\ o + 1 = b + j /\ b + c + j = h
        BY <2>2, <2>5, <2>10, <3>2
      <3>5. Nth(b + j) = b + c + j /\ ~IsLost(b + j)
        BY <2>4, <3>4
      <3> QED BY <3>1, <3>3, <3>4, <3>5
    <2>11. CASE ~(a < c) /\ a + 1 < c + w
      <3>1. reorder_count <= 0 /\ reorder_offset > 1 /\ n = c
        BY <2>10, <2>11
      <3>2. /\ reorder_ids' = reorder_ids /\ Len(todo') = 1 /\ todo'[1] = h
        BY <1>5, <2>1, <3>1
      <3>3. /\ do_reorder' /\ reorder_count' = c - (a + 1) /\ reorder_offset' = w - ((a + 1) - c)
            /\ ~(a + 1 <= c)
        BY <1>3, <2>10, <2>11
      <3>4. HoldInv'
        <4>1. Len(reorder_ids') = c /\ \A i \in 1 .. Len(reorder_ids') : reorder_ids'[i] = b + i
          BY <2>1, <2>6, <3>1, <3>2
        <4>2. Base' = b /\ Cap' = c /\ Wait' = w /\ Mixed'
          BY <1>1, <1>14, <2>1
        <4> QED BY <1>0, <1>9, <2>3, <2>11, <3>3, <4>1, <4>2 DEF HoldInv
      <3>5. Ready(b + (a + 1)) = b + (a + 1) - c
        BY <2>4, <2>11
      <3>6. o + 1 = Ready(b + (a + 1))
        BY <2>10, <2>11, <3>5
      <3>7. \A i \in 1 .. 1 : todo'[i] = Nth(o + i) /\ ~IsLost(o + i)
        <4>1. \A i \in 1 .. 1 : i = 1
          OBVIOUS
        <4> QED BY <2>10, <2>11, <3>2, <4>1
      <3> QED BY <2>8, <3>2, <3>4, <3>6, <3>7
    <2>12. CASE ~(a < c) /\ a + 1 = c + w
      <3>1. reorder_count <= 0 /\ reorder_offset = 1 /\ n = c /\ o + 1 = b + w /\ ~do_reorder'
        BY <1>3, <2>10, <2>12
      <3>2. /\ Len(reorder_ids') = 0 /\ Len(todo') = c + 1 /\ todo'[1] = h
            /\ \A i \in 1 .. c : todo'[i + 1] = reorder_ids[c - i + 1]
        BY <1>5, <2>1, <3>1
      <3>3. a + 1 >= c + w /\ ~(a + 1 < c + w)
        BY <2>12
      <3>4. HoldInv'
        BY <1>0, <1>1, <1>9, <1>14, <2>1, <2>3, <3>1, <3>2, <3>3 DEF HoldInv
      <3>5. Ready(b + (a + 1)) = b + (a + 1)
        BY <2>4, <3>3
      <3>6. o + (c + 1) = Ready(b + (a + 1))
        BY <2>12, <3>1, <3>5
      <3>7. ASSUME NEW i \in 1 .. c + 1
            PROVE  todo'[i] = Nth(o + i) /\ ~IsLost(o + i)
        <4>1. CASE i = 1
          BY <2>10, <2>12, <3>2, <4>1
        <4>2. CASE i # 1
          <5>1. PICK k \in 1 .. c : i = k + 1
            <6>1. i - 1 \in 1 .. c /\ i = (i - 1) + 1
              BY <4>2
            <6> QED BY <6>1
          <5>2. c - k + 1 \in 1 .. n /\ todo'[i] = reorder_ids[c - k + 1]
            BY <3>1, <3>2, <5>1
          <5>3. todo'[i] = b + (c - k + 1)
            BY <2>6, <5>2
          <5>4. PICK j \in Nat : j = w + k /\ w < j /\ j <= w + c /\ 1 <= j /\ o + i = b + j
                                 /\ b + w + c + 1 - j = b + (c - k + 1)
            <6>1. /\ w + k \in Nat /\ w < w + k /\ w + k <= w + c /\ 1 <= w + k
                  /\ o + (k + 1) = b + (w + k) /\ b + w + c + 1 - (w + k) = b + (c - k + 1)
              BY <3>1
            <6> QED BY <5>1, <6>1
          <5>5. Nth(b + j) = b + w + c + 1 - j /\ ~IsLost(b + j)
            BY <2>4, <5>4
          <5> QED BY <5>3, <5>4, <5>5
        <4> QED BY <4>1, <4>2
      <3>8. c + 1 \in Nat
        OBVIOUS
      <3> QED BY <2>8, <3>2, <3>4, <3>6, <3>7, <3>8
    <2> QED BY <2>5, <2>9, <2>11, <2>12
  <1> QED BY <1>2, <1>12, <1>13, <1>14

\* The steps of the callback that send nothing and hold nothing, in a clean gap:
\* a packet that is not held is past the reordering, or there is none to come.
LEMMA CleanPass ==
    ASSUME GapInv, ArmedInv, CleanInv, nfq_handle_packet,
           worker_skip_reorder \/ worker_handle_dedup \/ worker_handle_rwnd \/ load_mark
    PROVE  CleanInv'
  <1>0. /\ row' = row /\ hdr' = hdr /\ run' = "check" /\ Cut' = Cut /\ do_dedup' = do_dedup
        /\ \A f : Pending(f)' <=> Pending(f)
    BY HandlerFrame
  <1>1. /\ Cap' = Cap /\ Wait' = Wait /\ Base' = Base /\ (Mixed' <=> Mixed)
        /\ \A i : Nth(i)' = Nth(i) /\ (IsLost(i)' <=> IsLost(i)) /\ Ready(i)' = Ready(i)
    BY <1>0, SameRow
  <1>2. /\ Len(hdr) \in Nat /\ Len(out) \in Nat /\ Len(todo) \in Nat
        /\ Base \in Nat /\ Base = Cut + row.loss /\ row.loss \in Nat /\ Cut \in Nat
        /\ Cap \in Nat /\ Wait \in Nat
        /\ Pending("start_nfqueue") => Cut = Len(hdr)
        /\ pc \in {"drop", "reorder", "dedup", "rwnd"} => Len(hdr) > 0
        /\ pc \notin {"load", "send"} => Len(todo) = 0
    BY Numbers
  <1>3. /\ UNCHANGED <<do_reorder, reorder_count, reorder_offset, reorder_ids, do_drop, drop_count>>
    BY DEF worker_skip_reorder, worker_handle_dedup, worker_handle_rwnd, load_mark, reorder_vars,
           drop_vars
  <1>4. ~do_dedup /\ SentInv /\ LeftInv /\ HoldInv
    BY DEF CleanInv
  <1>5. Left' = Left
    BY <1>3 DEF Left
  <1>6. CASE worker_skip_reorder
    <2>1. pc = "reorder" /\ pc' = "dedup" /\ ~do_reorder /\ UNCHANGED <<out, todo>> /\ Len(todo) = 0
      BY <1>2, <1>6 DEF worker_skip_reorder, kernel_vars
    <2>2. /\ Through = Len(hdr) - 1 /\ Through' = Len(hdr) /\ Coming = 0 /\ Coming' = 1
          /\ PastDrop' = PastDrop
      BY <1>0, <2>1 DEF Through, Coming, PastDrop
    <2>3. LeftInv'
      BY <1>0, <1>1, <1>4, <1>5, <2>2 DEF LeftInv
    <2>4. Len(out) = Ready(Len(hdr) - 1) /\ ~IsLost(Len(hdr))
      BY <1>2, <1>4, <2>1, <2>2 DEF SentInv
    <2>5. /\ \A i \in Nat : i <= Base => Nth(i) = i /\ Ready(i) = i
          /\ ~Mixed => \A i \in Nat : Nth(i) = i /\ Ready(i) = i
      BY EarlyPlaces
    <2>6. PICK h \in Nat, b \in Nat, c \in Nat, w \in Nat :
             h = Len(hdr) /\ b = Base /\ c = Cap /\ w = Wait /\ h > 0
      BY <1>2, <2>1
    <2>7. h - 1 \in Nat
      BY <2>6
    <2>8. /\ Ready(h - 1) = h - 1 /\ Ready(h) = h /\ Nth(h) = h
          /\ HoldInv'
      <3>1. CASE ~Mixed
        <4>1. HoldInv'
          BY <1>0, <1>1, <1>3, <1>4, <3>1 DEF HoldInv, Armed
        <4> QED BY <2>5, <2>7, <3>1, <4>1
      <3>2. CASE Mixed /\ ~Armed
        <4>1. Pending("start_nfqueue")
          BY <3>2, StartLast DEF Mixed, Armed, GapInv
        <4>2. h = Cut /\ h <= b /\ h - 1 <= b
          BY <1>2, <2>6, <4>1
        <4>3. ~Armed'
          BY <1>0, <3>2 DEF Armed
        <4>4. HoldInv'
          BY <1>0, <1>3, <1>4, <3>2, <4>3 DEF HoldInv
        <4> QED BY <2>5, <2>6, <2>7, <4>2, <4>4
      <3>3. CASE Mixed /\ Armed
        <4>1. Kept >= Cap + Wait
          <5>1. Kept \in Nat
            BY <1>2, <2>2 DEF Kept
          <5>2. Kept < Cap + Wait => do_reorder
            BY <1>4, <3>3 DEF HoldInv
          <5> QED BY <1>2, <2>1, <5>1, <5>2
        <4>2. c > 0 /\ w > 0
          BY <2>6, <3>3 DEF Mixed
        <4>3. Kept = IF h - 1 <= b THEN 0 ELSE h - 1 - b
          BY <2>2, <2>6 DEF Kept
        <4>4. h - 1 - b \in Nat /\ h - 1 - b >= c + w
          BY <2>6, <4>1, <4>2, <4>3
        <4>5. PICK a \in Nat : h - 1 = b + a /\ h = b + (a + 1) /\ a >= c + w
          <5>1. h - 1 = b + (h - 1 - b) /\ h = b + ((h - 1 - b) + 1)
            OBVIOUS
          <5> QED BY <4>4, <5>1
        <4>6. Ready(b + a) = b + a /\ Ready(b + (a + 1)) = b + (a + 1) /\ Nth(b + (a + 1)) = b + (a + 1)
          <5>1. Mixed /\ b = Base /\ c = Cap /\ w = Wait
            BY <2>6, <3>3
          <5>2. /\ \A i \in Nat : i >= c + w => Ready(b + i) = b + i
                /\ \A j \in Nat : 1 <= j /\ j > w + c => Nth(b + j) = b + j
            BY <5>1, LatePlaces
          <5>3. a + 1 \in Nat /\ a + 1 >= c + w /\ 1 <= a + 1 /\ a + 1 > w + c
            BY <4>5
          <5> QED BY <4>5, <5>2, <5>3
        <4>7. ~(h <= b) /\ h - b >= c + w
          BY <4>5
        <4>8. Kept' >= Cap' + Wait' /\ ~(Kept' < Cap' + Wait')
          <5>1. Through' = h /\ Base' = b /\ Cap' = c /\ Wait' = w
            BY <1>1, <2>2, <2>6
          <5>2. Kept' = h - b
            BY <4>7, <5>1 DEF Kept
          <5> QED BY <4>7, <5>1, <5>2
        <4>9. Len(reorder_ids) = 0 /\ Mixed' /\ Armed' /\ ~Pending("stop_nfqueue")'
          BY <1>0, <1>1, <1>4, <3>3, <4>1 DEF HoldInv, Armed
        <4>10. HoldInv'
          BY <1>3, <2>1, <4>8, <4>9 DEF HoldInv
        <4> QED BY <4>5, <4>6, <4>10
      <3> QED BY <3>1, <3>2, <3>3
    <2>9. Len(out) = h - 1 /\ Len(out) + 1 = h
      BY <2>4, <2>6, <2>8
    <2>10. SentInv'
      <3>1. Len(out') + Len(todo') + Coming' = Ready(Through)'
        BY <1>0, <1>1, <1>2, <2>1, <2>2, <2>6, <2>8, <2>9
      <3>2. Len(hdr') = Nth(Len(out') + 1) /\ ~IsLost(Len(out') + 1)
        BY <1>0, <2>1, <2>4, <2>6, <2>8, <2>9
      <3>3. Len(todo') = 0
        BY <2>1
      <3> QED BY <1>1, <1>4, <2>1, <2>2, <3>1, <3>2, <3>3 DEF SentInv
    <2> QED BY <1>0, <1>4, <2>3, <2>8, <2>10 DEF CleanInv
  <1>7. ASSUME Through' = Through, PastDrop' = PastDrop
        PROVE  LeftInv' /\ HoldInv'
    <2>1. LeftInv'
      BY <1>0, <1>1, <1>4, <1>5, <1>7 DEF LeftInv
    <2>2. Kept' = Kept /\ (Armed' <=> Armed)
      BY <1>0, <1>1, <1>7 DEF Kept, Armed
    <2>3. HoldInv'
      BY <1>0, <1>1, <1>3, <1>4, <2>2 DEF HoldInv
    <2> QED BY <2>1, <2>3
  <1>8. CASE worker_handle_dedup \/ load_mark
    <2>1. /\ UNCHANGED <<out, todo>>
          /\ (pc = "dedup" /\ pc' = "rwnd") \/ (pc = "load" /\ pc' = "send")
      BY <1>4, <1>8 DEF worker_handle_dedup, load_mark, handled_then, kernel_vars
    <2>2. Through' = Through /\ PastDrop' = PastDrop /\ Coming' = Coming /\ pc' # "reorder"
      BY <1>0, <2>1 DEF Through, PastDrop, Coming
    <2>3. SentInv'
      BY <1>0, <1>1, <1>4, <2>1, <2>2 DEF SentInv
    <2> QED BY <1>0, <1>4, <1>7, <2>2, <2>3 DEF CleanInv
  <1>9. CASE worker_handle_rwnd
    <2>1. out' = out /\ todo' = <<Len(hdr)>> /\ pc = "rwnd" /\ pc' = "load" /\ Len(todo) = 0
      BY <1>2, <1>9 DEF worker_handle_rwnd, Current, kernel_vars
    <2>2. /\ Through' = Through /\ PastDrop' = PastDrop /\ Coming = 1 /\ Coming' = 0
          /\ pc' # "reorder" /\ Len(todo') = 1 /\ todo'[1] = Len(hdr)
      BY <1>0, <2>1 DEF Through, PastDrop, Coming
    <2>3. /\ Len(hdr) = Nth(Len(out) + 1) /\ ~IsLost(Len(out) + 1)
          /\ Len(out) + 0 + 1 = Ready(Through)
      BY <1>4, <2>1, <2>2 DEF SentInv
    <2>4. Len(out') + Len(todo') + Coming' = Ready(Through)'
      BY <1>1, <1>2, <2>1, <2>2, <2>3
    <2>5. \A i \in 1 .. Len(todo') : i = 1
      BY <2>2
    <2>6. SentInv'
      BY <1>1, <1>4, <2>1, <2>2, <2>3, <2>4, <2>5 DEF SentInv
    <2> QED BY <1>0, <1>4, <1>7, <2>2, <2>6 DEF CleanInv
  <1> QED BY <1>6, <1>8, <1>9

\* A verdict is sent, in a clean gap.
LEMMA CleanVerdict ==
    ASSUME GapInv, ArmedInv, CleanInv, nfq_handle_packet, nfq_set_verdict2
    PROVE  CleanInv'
  <1>0. /\ row' = row /\ hdr' = hdr /\ run' = "check" /\ Cut' = Cut /\ do_dedup' = do_dedup
        /\ \A f : Pending(f)' <=> Pending(f)
    BY HandlerFrame
  <1>1. /\ Cap' = Cap /\ Wait' = Wait /\ Base' = Base /\ (Mixed' <=> Mixed)
        /\ \A i : Nth(i)' = Nth(i) /\ (IsLost(i)' <=> IsLost(i)) /\ Ready(i)' = Ready(i)
    BY <1>0, SameRow
  <1> DEFINE v == Accept(Head(todo), IF lock = "rwnd" THEN tune_rwnd ELSE hdr[Head(todo)].win)
  <1>2. /\ pc = "send" /\ pc' \in {"recv", "load"} /\ out' = Append(out, v) /\ todo' = Tail(todo)
        /\ UNCHANGED <<do_reorder, reorder_count, reorder_offset, reorder_ids, do_drop, drop_count>>
    BY DEF nfq_set_verdict2, mark_reloaded, reorder_vars, drop_vars
  <1>3. v \in Verdicts
    BY <1>2, AcceptType DEF GapInv
  <1>4. v.id = Head(todo) /\ v.verdict = "accept"
    BY DEF Accept
  <1> HIDE DEF v
  <1>5. /\ Len(out) \in Nat /\ Len(out') = Len(out) + 1
        /\ \A i \in 1 .. Len(out) : out'[i] = out[i]
        /\ out'[Len(out) + 1] = v
        /\ \A i \in 1 .. Len(out') : i \in 1 .. Len(out) \/ i = Len(out) + 1
    BY <1>2, <1>3, OneMore DEF GapInv
  <1>6. /\ Head(todo) = todo[1] /\ Len(todo) \in Nat \ {0} /\ Len(todo') = Len(todo) - 1
        /\ \A i \in 1 .. Len(todo') : todo'[i] = todo[i + 1]
    BY <1>2, HeadOfTodo DEF GapInv
  <1>7. ~do_dedup /\ SentInv /\ LeftInv /\ HoldInv
    BY DEF CleanInv
  <1>8. Through' = Through /\ PastDrop' = PastDrop /\ Coming = 0 /\ Coming' = 0 /\ pc' # "reorder"
    BY <1>0, <1>2 DEF Through, PastDrop, Coming
  <1>9. LeftInv'
    <2>1. Left' = Left
      BY <1>2 DEF Left
    <2> QED BY <1>0, <1>1, <1>7, <1>8, <2>1 DEF LeftInv
  <1>10. HoldInv'
    <2>1. Kept' = Kept /\ (Armed' <=> Armed)
      BY <1>0, <1>1, <1>8 DEF Kept, Armed
    <2> QED BY <1>0, <1>1, <1>2, <1>7, <2>1 DEF HoldInv
  <1>11. PICK o \in Nat, d \in Nat : o = Len(out) /\ d + 1 = Len(todo) /\ d = Len(todo')
    <2>1. Len(todo) - 1 \in Nat /\ (Len(todo) - 1) + 1 = Len(todo)
      BY <1>6
    <2> QED BY <1>5, <1>6, <2>1
  <1>12. /\ o + (d + 1) + 0 = Ready(Through)
         /\ \A i \in 1 .. o : out[i].id = Nth(i) /\ (out[i].verdict = "accept" <=> ~IsLost(i))
         /\ \A i \in 1 .. d + 1 : todo[i] = Nth(o + i) /\ ~IsLost(o + i)
    BY <1>7, <1>8, <1>11 DEF SentInv
  <1>13. \A i \in 1 .. o + 1 : out'[i].id = Nth(i) /\ (out'[i].verdict = "accept" <=> ~IsLost(i))
    <2>1. 1 \in 1 .. d + 1
      OBVIOUS
    <2>2. out'[o + 1].id = Nth(o + 1) /\ out'[o + 1].verdict = "accept" /\ ~IsLost(o + 1)
      BY <1>4, <1>5, <1>6, <1>11, <1>12, <2>1
    <2>3. \A i \in 1 .. o : out'[i] = out[i]
      BY <1>5, <1>11
    <2>4. \A i \in 1 .. o + 1 : i \in 1 .. o \/ i = o + 1
      OBVIOUS
    <2> QED BY <1>12, <2>2, <2>3, <2>4
  <1>14. \A i \in 1 .. d : todo'[i] = Nth((o + 1) + i) /\ ~IsLost((o + 1) + i)
    <2> SUFFICES ASSUME NEW i \in 1 .. d
                 PROVE  todo'[i] = Nth((o + 1) + i) /\ ~IsLost((o + 1) + i)
      OBVIOUS
    <2>1. i + 1 \in 1 .. d + 1 /\ o + (i + 1) = (o + 1) + i
      OBVIOUS
    <2>2. todo'[i] = todo[i + 1]
      BY <1>6, <1>11
    <2>3. todo[i + 1] = Nth(o + (i + 1)) /\ ~IsLost(o + (i + 1))
      BY <1>12, <2>1
    <2> QED BY <2>1, <2>2, <2>3
  <1>15. SentInv'
    <2>1. Len(out') = o + 1 /\ Len(todo') = d /\ (o + 1) + d + 0 = Ready(Through)'
      BY <1>1, <1>5, <1>8, <1>11, <1>12
    <2>2. \A i \in 1 .. Len(todo') : todo'[i] = Nth(Len(out') + i) /\ ~IsLost(Len(out') + i)
      BY <1>14, <2>1
    <2>3. \A i \in 1 .. Len(out') :
             out'[i].id = Nth(i) /\ (out'[i].verdict = "accept" <=> ~IsLost(i))
      BY <1>13, <2>1
    <2>4. Len(out') + Len(todo') + Coming' = Ready(Through)'
      BY <1>8, <2>1
    <2> QED BY <1>1, <1>8, <2>2, <2>3, <2>4 DEF SentInv
  <1> QED BY <1>0, <1>7, <1>9, <1>10, <1>15 DEF CleanInv

\* Once the row has overtaken the last packet before the gap, the handlers do not
\* put it back in its place.
LEMMA SpoiltHandler ==
    ASSUME GapInv, ArmedInv, SpoiltInv, nfq_handle_packet
    PROVE  SpoiltInv'
  <1>0. /\ row' = row /\ hdr' = hdr /\ run' = "check" /\ Cut' = Cut
        /\ NfqThread /\ pc # "recv"
        /\ \A f : Pending(f)' <=> Pending(f)
    BY HandlerFrame DEF nfq_handle_packet
  <1>1. Cut \in Nat /\ Cut >= 1 /\ Len(out) \in Nat /\ Len(hdr) \in Nat
        /\ (pc \notin {"load", "send"} => Len(todo) = 0)
        /\ reorder_count \in Int /\ reorder_offset \in Int /\ Len(reorder_ids) \in Nat
    BY Numbers DEF SpoiltInv
  <1>2. Pending("start_nfqueue")' => ~Pending("stop_nfqueue")' /\ run' = "check"
    BY <1>0 DEF SpoiltInv
  <1>3. SUFFICES \/ Misplaced'
                 \/ /\ Len(out') = Cut - 1
                    /\ Overtaken' \/ (Len(todo') > 0 /\ todo'[1] # Cut)
    BY <1>0, <1>1, <1>2 DEF SpoiltInv
  <1>4. CASE Misplaced
    <2>1. out' = out \/ \E v \in Verdicts : out' = Append(out, v)
      <3>1. CASE worker_handle_drop
        <4>1. out' = out \/ out' = Append(out, Drop(Current, "loss"))
          BY <3>1 DEF worker_handle_drop
        <4>2. Drop(Current, "loss") \in Verdicts
          BY DropType DEF GapInv
        <4> QED BY <4>1, <4>2
      <3>2. CASE pc # "drop"
        BY <1>0, <3>2, OtherHandler DEF GapInv
      <3> QED BY <1>0, <3>1, <3>2
              DEF NfqThread, worker_callback, worker_handle_reorder, worker_skip_reorder,
                  worker_handle_dedup, worker_handle_rwnd, load_mark, nfq_set_verdict2
    <2> QED BY <1>0, <1>4, <2>1, MisplacedStays DEF GapInv
  <1>5. CASE Len(out) = Cut - 1 /\ Overtaken
    <2>1. /\ pc \in {"drop", "reorder"} /\ Len(hdr) > Cut /\ do_reorder /\ reorder_offset > 0
          /\ ~Pending("set_reorder")' /\ Len(reorder_ids) > 0 /\ reorder_ids[1] = Cut
      BY <1>0, <1>5 DEF Overtaken
    <2>2. CASE worker_handle_drop
      <3>1. \/ pc' = "recv" /\ out' = Append(out, Drop(Current, "loss"))
            \/ pc' = "reorder" /\ out' = out
        <4>1. TypeOK /\ (do_drop => drop_count > 0)
          BY DEF ArmedInv, GapInv
        <4> QED BY <2>2, <4>1, DropHandler
      <3>2. UNCHANGED <<do_reorder, reorder_offset, reorder_ids>>
        BY <2>2 DEF worker_handle_drop, reorder_vars
      <3>3. CASE out' = out /\ pc' = "reorder"
        BY <1>0, <1>5, <2>1, <3>2, <3>3 DEF Overtaken
      <3>4. CASE out' = Append(out, Drop(Current, "loss"))
        <4> DEFINE v == Drop(Current, "loss")
        <4>1. v \in Verdicts
          BY DropType DEF GapInv
        <4>2. v.verdict # "accept" /\ out' = Append(out, v)
          BY <3>4 DEF Drop
        <4> HIDE DEF v
        <4>3. Len(out') = Len(out) + 1 /\ out'[Len(out) + 1] = v
          BY <4>1, <4>2, OneMore DEF GapInv
        <4>4. Len(out) + 1 = Cut /\ Cut \in 1 .. Len(out')
          BY <1>1, <1>5, <4>3
        <4> QED BY <1>0, <1>1, <4>2, <4>3, <4>4 DEF Misplaced
      <3> QED BY <3>1, <3>3, <3>4
    <2>3. CASE worker_handle_reorder
      <3>1. /\ out' = out /\ (do_reorder' <=> ~(reorder_offset' <= 0))
            /\ reorder_count > 0 => reorder_offset' = reorder_offset
        BY <2>3, ReorderHandler DEF GapInv
      <3>2. CASE reorder_count > 0
        <4>1. /\ Len(reorder_ids') = Len(reorder_ids) + 1 /\ pc' = "recv"
              /\ \A i \in 1 .. Len(reorder_ids) : reorder_ids'[i] = reorder_ids[i]
          BY <2>1, <2>3, <3>2, ReorderHandler DEF GapInv
        <4>2. reorder_ids'[1] = Cut /\ Len(reorder_ids') > 0
          BY <1>1, <2>1, <4>1
        <4>3. do_reorder' /\ reorder_offset' > 0
          BY <1>1, <2>1, <3>1, <3>2
        <4> QED BY <1>0, <1>5, <2>1, <3>1, <4>1, <4>2, <4>3 DEF Overtaken
      <3>3. CASE ~(reorder_count > 0)
        <4>1. reorder_count <= 0 /\ (reorder_offset > 1 \/ reorder_offset = 1)
          BY <1>1, <2>1, <3>3
        <4>2. todo'[1] = Len(hdr) /\ (Len(todo') = 1 \/ Len(todo') = Len(reorder_ids) + 1)
          BY <2>3, <4>1, ReorderHandler DEF GapInv
        <4> QED BY <1>1, <1>5, <2>1, <3>1, <4>2
      <3> QED BY <3>2, <3>3
    <2> QED BY <1>0, <2>1, <2>2, <2>3
            DEF NfqThread, worker_callback, worker_skip_reorder,
                worker_handle_dedup, worker_handle_rwnd, load_mark, nfq_set_verdict2
  <1>6. CASE Len(out) = Cut - 1 /\ Len(todo) > 0 /\ todo[1] # Cut
    <2>1. pc \in {"load", "send"}
      BY <1>1, <1>6
    <2>2. CASE load_mark
      <3>1. UNCHANGED <<todo, out>>
        BY <2>2 DEF load_mark, kernel_vars
      <3> QED BY <1>6, <3>1
    <2>3. CASE nfq_set_verdict2
      <3> DEFINE v == Accept(Head(todo), IF lock = "rwnd" THEN tune_rwnd ELSE hdr[Head(todo)].win)
      <3>1. pc = "send" /\ out' = Append(out, v)
        BY <2>3 DEF nfq_set_verdict2
      <3>2. v \in Verdicts
        BY <3>1, AcceptType DEF GapInv
      <3>3. v.id = todo[1]
        BY <3>1, HeadOfTodo DEF Accept, GapInv
      <3> HIDE DEF v
      <3>4. Len(out') = Len(out) + 1 /\ out'[Len(out) + 1] = v
        BY <3>1, <3>2, OneMore DEF GapInv
      <3>5. Len(out) + 1 = Cut /\ Cut \in 1 .. Len(out') /\ Cut <= Cut
        BY <1>1, <1>6, <3>4
      <3> QED BY <1>0, <1>6, <3>3, <3>4, <3>5 DEF Misplaced
    <2> QED BY <1>0, <2>1, <2>2, <2>3
            DEF NfqThread, worker_callback, worker_handle_drop, worker_handle_reorder,
                worker_skip_reorder, worker_handle_dedup, worker_handle_rwnd
  <1> QED BY <1>4, <1>5, <1>6 DEF SpoiltInv

-----------------------------------------------------------------------------
(* The loop of the thread, and the events of the row. *)

\* A packet is received, before the gap or after it.
LEMMA OrderRecv ==
    ASSUME GapInv, ArmedInv, OrderInv, nfq_run_recv
    PROVE  OrderInv'
  <1>0. /\ pc = "recv" /\ pc' = "drop" /\ run = "recv"
        /\ UNCHANGED <<out, todo, do_drop, drop_count, do_reorder, reorder_count, reorder_offset,
                       reorder_ids, do_dedup, row, todo_events, before>>
    BY DEF nfq_run_recv, worker_callback, drop_vars, reorder_vars
  <1>1. \A f : Pending(f)' <=> Pending(f)
    BY <1>0 DEF Pending
  <1>2. /\ Len(hdr) \in Nat /\ Len(out) \in Nat /\ Len(todo) = 0
        /\ row.loss \in Nat /\ Cut \in Nat /\ Cut <= Len(hdr) /\ Base \in Nat
        /\ Base = Cut + row.loss /\ (Pending("start_nfqueue") => Cut = Len(hdr))
    BY <1>0, Numbers
  <1>3. Len(hdr') = Len(hdr) + 1
    <2>1. PICK h \in Headers : hdr' = Append(hdr, h)
      BY DEF nfq_run_recv, worker_callback
    <2> QED BY <2>1, AppendProperties DEF TypeOK, GapInv
  <1>4. /\ PastDrop = Len(hdr) /\ PastDrop' = Len(hdr) /\ Through = Len(hdr) /\ Through' = Len(hdr)
        /\ Coming = 0 /\ Coming' = 0 /\ Left' = Left
    BY <1>0, <1>2, <1>3 DEF PastDrop, Through, Coming, Left
  <1>5. CASE ~Pending("start_nfqueue")
    <2>1. Cut' = Cut
      BY <1>0, <1>1, <1>5 DEF Cut
    <2>2. /\ Cap' = Cap /\ Wait' = Wait /\ Base' = Base /\ (Mixed' <=> Mixed)
          /\ \A i : Nth(i)' = Nth(i) /\ (IsLost(i)' <=> IsLost(i)) /\ Ready(i)' = Ready(i)
      BY <1>0, <2>1, SameRow
    <2>3. CASE CleanInv
      <3>1. SentInv'
        BY <1>0, <1>2, <1>4, <2>2, <2>3 DEF SentInv, CleanInv
      <3>2. LeftInv'
        BY <1>0, <1>1, <1>4, <2>1, <2>2, <2>3 DEF LeftInv, CleanInv
      <3>3. Kept' = Kept /\ (Armed' <=> Armed)
        BY <1>0, <1>1, <1>4, <2>2 DEF Kept, Armed
      <3>4. HoldInv'
        BY <1>0, <1>1, <2>2, <2>3, <3>3 DEF HoldInv, CleanInv
      <3> QED BY <1>0, <2>3, <3>1, <3>2, <3>4 DEF CleanInv, OrderInv
    <2>4. CASE SpoiltInv
      <3>1. Misplaced => Misplaced'
        BY <1>0, <2>1 DEF Misplaced
      <3>2. Len(hdr') > Cut
        BY <1>2, <1>3
      <3>3. Overtaken => Overtaken'
        BY <1>0, <1>1, <2>1, <3>2 DEF Overtaken
      <3>4. SpoiltInv'
        BY <1>0, <1>1, <1>2, <1>5, <2>1, <2>4, <3>1, <3>3 DEF SpoiltInv
      <3> QED BY <3>4 DEF OrderInv
    <2> QED BY <2>3, <2>4 DEF OrderInv
  <1>6. CASE Pending("start_nfqueue")
    <2>1. CleanInv
      BY <1>0, <1>6 DEF OrderInv, SpoiltInv
    <2>2. PICK h \in Nat, l \in Nat, b \in Nat : h = Len(hdr) /\ l = row.loss /\ b = h + l /\ b = Base
      BY <1>2, <1>6
    <2>3. Cut = h /\ Cut' = h + 1 /\ Base' = b + 1
      <3>1. Cut = h /\ Cut' = h + 1
        BY <1>1, <1>2, <1>3, <1>6, <2>2 DEF Cut
      <3> QED BY <1>0, <2>2, <3>1 DEF Base
    <2>4. Cap' = Cap /\ Wait' = Wait /\ (Mixed' <=> Mixed)
      BY <1>0 DEF Cap, Wait, Mixed
    <2>5. /\ \A i \in 1 .. h : Nth(i) = i /\ Nth(i)' = i /\ ~IsLost(i) /\ ~IsLost(i)'
          /\ Ready(h) = h /\ Ready(h)' = h
      <3>1. \A i \in 1 .. h : i <= b /\ i <= b + 1 /\ ~(h < i) /\ ~(h + 1 < i)
        BY <2>2
      <3>2. h <= b /\ h <= b + 1
        BY <2>2
      <3> QED BY <2>2, <2>3, <3>1, <3>2 DEF Nth, IsLost, Ready
    <2>6. Len(out) = h
      BY <1>2, <1>4, <2>1, <2>2, <2>5 DEF CleanInv, SentInv
    <2>7. SentInv'
      <3>1. Ready(Through)' = h
        BY <1>4, <2>2, <2>5
      <3>2. \A i \in 1 .. Len(out') :
               out'[i].id = Nth(i)' /\ (out'[i].verdict = "accept" <=> ~IsLost(i)')
        BY <1>0, <2>1, <2>5, <2>6 DEF CleanInv, SentInv
      <3>3. Len(out') + Len(todo') + Coming' = Ready(Through)'
        BY <1>0, <1>2, <1>4, <2>2, <2>6, <3>1
      <3>4. \A i \in 1 .. Len(todo') : FALSE
        BY <1>0, <1>2
      <3> QED BY <1>0, <1>4, <3>2, <3>3, <3>4 DEF SentInv
    <2>8. LeftInv'
      <3>1. h <= h + 1
        OBVIOUS
      <3>2. Left = IF Pending("set_drop") THEN 0 ELSE row.loss
        <4>1. PastDrop <= Cut
          BY <1>4, <2>2, <2>3
        <4> QED BY <2>1, <4>1 DEF CleanInv, LeftInv
      <3>3. PastDrop' <= Cut'
        BY <1>4, <2>2, <2>3, <3>1
      <3> QED BY <1>0, <1>1, <1>4, <3>2, <3>3 DEF LeftInv
    <2>9. HoldInv'
      <3>1. Kept = 0 /\ Kept' = 0 /\ (Armed' <=> Armed)
        <4>1. h <= b /\ h <= b + 1
          BY <2>2
        <4> QED BY <1>0, <1>1, <1>4, <2>2, <2>3, <4>1 DEF Kept, Armed
      <3>2. 0 <= Cap
        BY Numbers
      <3>3. Armed /\ Mixed /\ 0 < Cap + Wait => Len(reorder_ids) = 0
        BY <2>1, <3>1, <3>2 DEF CleanInv, HoldInv
      <3>4. Armed /\ Mixed => 0 < Cap + Wait
        BY Numbers DEF Mixed
      <3>5. Armed' /\ Mixed' => \A i \in 1 .. Len(reorder_ids') : FALSE
        BY <1>0, <2>4, <3>1, <3>3, <3>4
      <3> QED BY <1>0, <1>1, <2>1, <2>4, <3>1, <3>5 DEF HoldInv, CleanInv
    <2> QED BY <1>0, <2>1, <2>7, <2>8, <2>9 DEF CleanInv, OrderInv
  <1> QED BY <1>5, <1>6

\* An event of the row finds the gap not over, and every packet before its end.
LEMMA EventFrame ==
    ASSUME GapInv, NEW e \in EventNames, Event(e), UNCHANGED <<hdr, out, todo, pc, do_dedup>>,
           before' = IF e = "start_nfqueue" THEN Len(hdr) ELSE before
    PROVE  /\ row' = row /\ run' = run /\ Cut' = Cut
           /\ Pending("start_nfqueue") /\ Pending(e)
           /\ \A f : Pending(f)' <=> Pending(f) /\ f # e
           /\ e # "stop_nfqueue" => ~Pending("stop_nfqueue")
           /\ e = "start_nfqueue" => \A f : ~Pending(f)'
           /\ Kept = 0 /\ Kept' = 0 /\ PastDrop <= Cut /\ PastDrop' = PastDrop
           /\ SentInv => SentInv'
           /\ Misplaced => Misplaced'
  <1>1. /\ row' = row /\ run' = run /\ Pending(e)
        /\ \A f : Pending(f)' <=> Pending(f) /\ f # e
        /\ e # "stop_nfqueue" => ~Pending("stop_nfqueue")
        /\ e = "start_nfqueue" => \A f : ~Pending(f)'
    BY EventStep DEF GapInv
  <1>2. Pending("start_nfqueue")
    BY <1>1, StartLast DEF GapInv
  <1>3. /\ Cut = Len(hdr) /\ Len(hdr) \in Nat /\ Base \in Nat /\ Base = Cut + row.loss
        /\ row.loss \in Nat
    BY <1>2, Numbers
  <1>4. Cut' = Cut
    <2>1. CASE e = "start_nfqueue"
      BY <1>1, <1>3, <2>1 DEF Cut
    <2>2. CASE e # "start_nfqueue"
      BY <1>1, <1>2, <1>3, <2>2 DEF Cut
    <2> QED BY <2>1, <2>2
  <1>5. /\ Base' = Base
        /\ \A i : Nth(i)' = Nth(i) /\ (IsLost(i)' <=> IsLost(i)) /\ Ready(i)' = Ready(i)
    BY <1>1, <1>4, SameRow
  <1>6. Through' = Through /\ PastDrop' = PastDrop /\ Coming' = Coming
    BY DEF Through, PastDrop, Coming
  <1>7. PastDrop <= Cut /\ Through <= Base
    BY <1>3 DEF PastDrop, Through
  <1>8. Kept = 0 /\ Kept' = 0
    BY <1>5, <1>6, <1>7 DEF Kept
  <1>9. SentInv => SentInv'
    BY <1>5, <1>6 DEF SentInv
  <1>10. Misplaced => Misplaced'
    BY <1>4 DEF Misplaced
  <1> QED BY <1>1, <1>2, <1>4, <1>6, <1>7, <1>8, <1>9, <1>10

\* stop_nfqueue, set_mark and start_nfqueue touch neither the loss nor the buffer.
LEMMA OrderEvent ==
    ASSUME GapInv, ArmedInv, OrderInv,
           action_stop_nfqueue \/ action_set_mark \/ action_start_nfqueue
    PROVE  OrderInv'
  <1>1. PICK e \in EventNames \ {"set_drop", "set_reorder"} :
           Event(e) /\ before' = IF e = "start_nfqueue" THEN Len(hdr) ELSE before
    BY DEF action_stop_nfqueue, action_set_mark, action_start_nfqueue, EventNames
  <1>2. UNCHANGED <<hdr, out, todo, pc, do_dedup, do_drop, drop_count,
                    do_reorder, reorder_count, reorder_offset, reorder_ids>>
    BY DEF action_stop_nfqueue, action_set_mark, action_start_nfqueue, worker_set_mark, vars,
           drop_vars, reorder_vars, thread_vars, kernel_vars
  <1>3. e \in EventNames
    OBVIOUS
  <1>4. /\ row' = row /\ run' = run /\ Cut' = Cut /\ Pending("start_nfqueue") /\ Pending(e)
        /\ \A f : Pending(f)' <=> Pending(f) /\ f # e
        /\ e # "stop_nfqueue" => ~Pending("stop_nfqueue")
        /\ Kept = 0 /\ Kept' = 0 /\ PastDrop <= Cut /\ PastDrop' = PastDrop
        /\ SentInv => SentInv'
        /\ Misplaced => Misplaced'
    BY <1>1, <1>2, <1>3, EventFrame
  <1>5. Cap' = Cap /\ Wait' = Wait /\ Base' = Base /\ (Mixed' <=> Mixed)
    BY <1>4, SameRow
  <1>6. CASE CleanInv
    <2>1. (Pending("set_drop")' <=> Pending("set_drop")) /\ (Armed' <=> Armed)
          /\ (Pending("stop_nfqueue")' => Pending("stop_nfqueue"))
      BY <1>1, <1>4 DEF Armed
    <2>2. Left' = Left
      BY <1>2 DEF Left
    <2>3. LeftInv'
      BY <1>4, <1>5, <1>6, <2>1, <2>2 DEF LeftInv, CleanInv
    <2>4. HoldInv'
      BY <1>2, <1>4, <1>5, <1>6, <2>1 DEF HoldInv, CleanInv
    <2> QED BY <1>2, <1>4, <1>6, <2>3, <2>4 DEF CleanInv, OrderInv
  <1>7. CASE SpoiltInv
    <2>1. Overtaken => Overtaken'
      BY <1>2, <1>4 DEF Overtaken
    <2>2. SpoiltInv'
      BY <1>2, <1>4, <1>7, <2>1 DEF SpoiltInv
    <2> QED BY <2>2 DEF OrderInv
  <1> QED BY <1>6, <1>7 DEF OrderInv

\* The loss is armed.
LEMMA OrderSetDrop ==
    ASSUME GapInv, ArmedInv, OrderInv, action_set_drop
    PROVE  OrderInv'
  <1>1. Event("set_drop") /\ before' = before /\ "set_drop" \in EventNames
    BY DEF action_set_drop, EventNames
  <1>2. /\ UNCHANGED <<hdr, out, todo, pc, do_dedup, do_reorder, reorder_count, reorder_offset,
                       reorder_ids>>
        /\ do_drop' = TRUE /\ drop_count' = row.loss
    BY DEF action_set_drop, worker_set_drop, reorder_vars, thread_vars, kernel_vars
  <1>3. before' = IF "set_drop" = "start_nfqueue" THEN Len(hdr) ELSE before
    BY <1>1
  <1>4. /\ row' = row /\ run' = run /\ Cut' = Cut
        /\ Pending("start_nfqueue") /\ Pending("set_drop")
        /\ \A f : Pending(f)' <=> Pending(f) /\ f # "set_drop"
        /\ ~Pending("stop_nfqueue")
        /\ Kept = 0 /\ Kept' = 0 /\ PastDrop <= Cut /\ PastDrop' = PastDrop
        /\ SentInv => SentInv'
        /\ Misplaced => Misplaced'
    BY <1>1, <1>2, <1>3, EventFrame
  <1>5. Cap' = Cap /\ Wait' = Wait /\ Base' = Base /\ (Mixed' <=> Mixed)
    BY <1>4, SameRow
  <1>6. CASE CleanInv
    <2>1. Left' = row.loss
      BY <1>2 DEF Left
    <2>2. LeftInv'
      BY <1>4, <1>5, <2>1 DEF LeftInv
    <2>3. Armed' <=> Armed
      BY <1>4 DEF Armed
    <2>4. HoldInv'
      BY <1>2, <1>4, <1>5, <1>6, <2>3 DEF HoldInv, CleanInv
    <2> QED BY <1>2, <1>4, <1>6, <2>2, <2>4 DEF CleanInv, OrderInv
  <1>7. CASE SpoiltInv
    <2>1. Overtaken => Overtaken'
      BY <1>2, <1>4 DEF Overtaken
    <2>2. SpoiltInv'
      BY <1>2, <1>4, <1>7, <2>1 DEF SpoiltInv
    <2> QED BY <2>2 DEF OrderInv
  <1> QED BY <1>6, <1>7 DEF OrderInv

\* The buffer is armed, for at least one packet.
LEMMA OrderSetReorder ==
    ASSUME SomethingArmed, GapInv, ArmedInv, OrderInv, action_set_reorder
    PROVE  OrderInv'
  <1>1. Event("set_reorder") /\ before' = before /\ "set_reorder" \in EventNames
    BY DEF action_set_reorder, EventNames
  <1>2. /\ UNCHANGED <<hdr, out, todo, pc, do_dedup, do_drop, drop_count>>
        /\ do_reorder' = TRUE /\ reorder_count' = Cap /\ reorder_offset' = Wait
        /\ reorder_ids' = <<>>
    BY DEF action_set_reorder, worker_set_reorder, drop_vars, thread_vars, kernel_vars, Cap, Wait
  <1>3. before' = IF "set_reorder" = "start_nfqueue" THEN Len(hdr) ELSE before
    BY <1>1
  <1>4. /\ row' = row /\ run' = run /\ Cut' = Cut
        /\ Pending("start_nfqueue") /\ Pending("set_reorder")
        /\ \A f : Pending(f)' <=> Pending(f) /\ f # "set_reorder"
        /\ ~Pending("stop_nfqueue")
        /\ Kept = 0 /\ Kept' = 0 /\ PastDrop <= Cut /\ PastDrop' = PastDrop
        /\ SentInv => SentInv'
        /\ Misplaced => Misplaced'
    BY <1>1, <1>2, <1>3, EventFrame
  <1>5. Cap' = Cap /\ Wait' = Wait /\ Base' = Base /\ (Mixed' <=> Mixed)
    BY <1>4, SameRow
  <1>6. /\ row.cnt \in Counts /\ row.cnt > 0 /\ row.offset \in Offsets
        /\ Cap \in Nat /\ Wait \in Nat
    BY <1>4, Numbers DEF GapInv, RowInv
  <1>7. Cap > 0 \/ Wait > 0
    <2>1. row.cnt % U16 # 0 \/ row.offset % U16 # 0
      BY <1>6 DEF SomethingArmed
    <2>2. CASE row.offset % U16 # 0
      BY <1>6, <2>2 DEF Wait
    <2>3. CASE row.cnt % U16 # 0
      <3>1. row.cnt % U16 \in Nat
        BY <1>6, ModType, ParametersAssumption
      <3> QED BY <2>3, <3>1, ParametersAssumption DEF Cap, capped_count
    <2> QED BY <2>1, <2>2, <2>3
  <1>8. CASE CleanInv
    <2>1. Left' = Left /\ (Pending("set_drop")' <=> Pending("set_drop"))
      BY <1>2, <1>4 DEF Left
    <2>2. LeftInv'
      BY <1>4, <1>5, <1>8, <2>1 DEF LeftInv, CleanInv
    <2>3. Armed' /\ Len(reorder_ids') = 0 /\ ~Pending("stop_nfqueue")' /\ do_reorder'
      BY <1>2, <1>4, <1>6, EmptySeq DEF Armed
    <2>4. HoldInv'
      <3>1. CASE ~Mixed
        <4>1. ~Mixed' /\ (Cap = 0 \/ Wait = 0)
          BY <1>5, <1>6, <3>1 DEF Mixed
        <4>2. \/ reorder_count' > 0 /\ reorder_offset' = 0
              \/ reorder_count' <= 0 /\ reorder_offset' > 0
          BY <1>2, <1>6, <1>7, <4>1
        <4> QED BY <2>3, <4>1, <4>2 DEF HoldInv
      <3>2. CASE Mixed
        <4>1. 0 < Cap + Wait /\ 0 <= Cap /\ ~(0 >= Cap + Wait) /\ Cap - 0 = Cap
          BY <1>6, <3>2 DEF Mixed
        <4>2. \A i \in 1 .. Len(reorder_ids') : FALSE
          BY <2>3
        <4> QED BY <1>2, <1>4, <1>5, <2>3, <3>2, <4>1, <4>2 DEF HoldInv
      <3> QED BY <3>1, <3>2
    <2> QED BY <1>2, <1>4, <1>8, <2>2, <2>4 DEF CleanInv, OrderInv
  <1>9. CASE SpoiltInv
    <2>1. ~Overtaken
      BY <1>4 DEF Overtaken
    <2>2. SpoiltInv'
      BY <1>2, <1>4, <1>9, <2>1 DEF SpoiltInv
    <2> QED BY <2>2 DEF OrderInv
  <1> QED BY <1>8, <1>9 DEF OrderInv

\* The thread looks at the status, or nothing happens.
LEMMA OrderCheck ==
    ASSUME GapInv, ArmedInv, OrderInv, nfq_run_check \/ UNCHANGED <<vars, gap_vars>>
    PROVE  OrderInv'
  <1>1. UNCHANGED <<pc, hdr, out, todo, do_dedup, do_drop, drop_count, do_reorder, reorder_count,
                    reorder_offset, reorder_ids, row, todo_events, before>>
    BY DEF nfq_run_check, vars, drop_vars, reorder_vars, thread_vars, kernel_vars, gap_vars
  <1>2. /\ \A f : Pending(f)' <=> Pending(f)
        /\ Cut' = Cut
    BY <1>1 DEF Pending, Cut
  <1>3. /\ Cap' = Cap /\ Wait' = Wait /\ Base' = Base /\ (Mixed' <=> Mixed)
        /\ \A i : Nth(i)' = Nth(i) /\ (IsLost(i)' <=> IsLost(i)) /\ Ready(i)' = Ready(i)
    BY <1>1, <1>2, SameRow
  <1>4. Through' = Through /\ PastDrop' = PastDrop /\ Coming' = Coming /\ Left' = Left
    BY <1>1 DEF Through, PastDrop, Coming, Left
  <1>5. CASE CleanInv
    <2>1. SentInv'
      BY <1>1, <1>3, <1>4, <1>5 DEF SentInv, CleanInv
    <2>2. LeftInv'
      BY <1>1, <1>2, <1>3, <1>4, <1>5 DEF LeftInv, CleanInv
    <2>3. Kept' = Kept /\ (Armed' <=> Armed)
      BY <1>1, <1>2, <1>3, <1>4 DEF Kept, Armed
    <2>4. HoldInv'
      BY <1>1, <1>2, <1>3, <1>5, <2>3 DEF HoldInv, CleanInv
    <2> QED BY <1>1, <1>5, <2>1, <2>2, <2>4 DEF CleanInv, OrderInv
  <1>6. CASE SpoiltInv
    <2>1. Pending("start_nfqueue") => run' = run
      BY <1>6 DEF SpoiltInv, ArmedInv, nfq_run_check, status_lets_pass, gap_vars
    <2>2. (Misplaced => Misplaced') /\ (Overtaken => Overtaken')
      BY <1>1, <1>2 DEF Misplaced, Overtaken
    <2>3. SpoiltInv'
      BY <1>1, <1>2, <1>6, <2>1, <2>2 DEF SpoiltInv
    <2> QED BY <2>3 DEF OrderInv
  <1> QED BY <1>5, <1>6 DEF OrderInv

LEMMA NextOrder ==
    ASSUME SomethingArmed
    PROVE  GapInv /\ ArmedInv /\ OrderInv /\ [GapNext]_<<vars, gap_vars>> => OrderInv'
  <1> SUFFICES ASSUME GapInv, ArmedInv, OrderInv, [GapNext]_<<vars, gap_vars>>
               PROVE  OrderInv'
    OBVIOUS
  <1>1. CASE nfq_handle_packet
    <2>1. CASE SpoiltInv
      BY <1>1, <2>1, SpoiltHandler DEF OrderInv
    <2>2. CASE CleanInv
      <3>1. CASE worker_handle_drop
        BY <1>1, <2>2, <3>1, CleanDrop
      <3>2. CASE worker_handle_reorder
        BY <1>1, <2>2, <3>2, CleanReorder
      <3>3. CASE worker_skip_reorder \/ worker_handle_dedup \/ worker_handle_rwnd \/ load_mark
        BY <1>1, <2>2, <3>3, CleanPass DEF OrderInv
      <3>4. CASE nfq_set_verdict2
        BY <1>1, <2>2, <3>4, CleanVerdict DEF OrderInv
      <3> QED BY <1>1, <3>1, <3>2, <3>3, <3>4 DEF nfq_handle_packet, NfqThread, worker_callback
    <2> QED BY <2>1, <2>2 DEF OrderInv
  <1>2. CASE nfq_run_recv
    BY <1>2, OrderRecv
  <1>3. CASE nfq_run_check \/ UNCHANGED <<vars, gap_vars>>
    BY <1>3, OrderCheck
  <1>4. CASE action_stop_nfqueue \/ action_set_mark \/ action_start_nfqueue
    BY <1>4, OrderEvent
  <1>5. CASE action_set_drop
    BY <1>5, OrderSetDrop
  <1>6. CASE action_set_reorder
    BY <1>6, OrderSetReorder
  <1> QED BY <1>1, <1>2, <1>3, <1>4, <1>5, <1>6 DEF GapNext

-----------------------------------------------------------------------------
(* The documented order. *)

\* The first k packets after packet b when fewer than c + w of them are through:
\* the first c are missing.
LEMMA ShortRun ==
    ASSUME NEW b \in Nat, NEW k \in Nat, NEW c \in Nat, NEW w \in Nat,
           NEW s \in Seq(Nat), Len(s) = k, \A i \in 1 .. k : s[i] = b + i,
           k < c + w, NEW e, e = SubSeq(s, c + 1, k)
    PROVE  /\ Len(e) = IF k <= c THEN 0 ELSE k - c
           /\ \A i \in 1 .. Len(e) : e[i] = b + c + i
  <1>0. \A i \in 1 .. k : s[i] \in Nat
    OBVIOUS
  <1>1. \A i \in c + 1 .. k : s[i] \in Nat
    <2>1. \A i \in c + 1 .. k : i \in 1 .. k
      OBVIOUS
    <2> QED BY <1>0, <2>1
  <1>2. c + 1 \in Int /\ k \in Int
    OBVIOUS
  <1>3. /\ e \in Seq(Nat)
        /\ Len(e) = IF c + 1 <= k THEN k - (c + 1) + 1 ELSE 0
        /\ \A i \in 1 .. k - (c + 1) + 1 : e[i] = s[(c + 1) + i - 1]
    BY <1>1, <1>2, SubSeqProperties
  <1>4. Len(e) = IF k <= c THEN 0 ELSE k - c
    BY <1>3
  <1>5. ASSUME NEW i \in 1 .. Len(e) PROVE e[i] = b + c + i
    <2>1. i \in 1 .. k - (c + 1) + 1 /\ (c + 1) + i - 1 \in 1 .. k /\ (c + 1) + i - 1 = c + i
      BY <1>4
    <2>2. e[i] = s[c + i] /\ c + i \in 1 .. k
      BY <1>3, <2>1
    <2> QED BY <2>2
  <1> QED BY <1>4, <1>5

\* The length and the elements of a concatenation.
LEMMA Joined ==
    ASSUME NEW S, NEW p \in Seq(S), NEW q \in Seq(S), NEW r, r = p \o q,
           NEW x \in Nat, NEW y \in Nat, x = Len(p), y = Len(q)
    PROVE  /\ r \in Seq(S) /\ Len(r) = x + y
           /\ \A i \in 1 .. x + y : r[i] = IF i <= x THEN p[i] ELSE q[i - x]
  BY ConcatProperties

\* A run of numbers put after two others.
LEMMA ThreeRuns ==
    ASSUME NEW b \in Nat, NEW k \in Nat, NEW c \in Nat, NEW w \in Nat, k >= c + w,
           NEW t, \A i \in 1 .. w + c : t[i] = IF i <= w THEN b + c + i ELSE b + w + c + 1 - i,
           NEW s, \A i \in 1 .. k - (c + w) : s[i] = b + (c + w) + i,
           NEW e, NEW x \in Nat, NEW y \in Nat, x = w + c, y = k - (c + w), Len(e) = x + y,
           \A i \in 1 .. x + y : e[i] = IF i <= x THEN t[i] ELSE s[i - x]
    PROVE  /\ Len(e) = k
           /\ \A i \in 1 .. k : e[i] = IF i <= w THEN b + c + i
                                       ELSE IF i <= w + c THEN b + w + c + 1 - i
                                       ELSE b + i
  <1>1. x + y = k
    OBVIOUS
  <1>2. ASSUME NEW i \in 1 .. k
        PROVE  e[i] = IF i <= w THEN b + c + i ELSE IF i <= w + c THEN b + w + c + 1 - i ELSE b + i
    <2>0. e[i] = IF i <= x THEN t[i] ELSE s[i - x]
      BY <1>1
    <2>1. CASE i <= x
      <3>1. i \in 1 .. w + c
        BY <2>1
      <3>2. t[i] = IF i <= w THEN b + c + i ELSE b + w + c + 1 - i
        BY <3>1
      <3>3. i <= w => i <= w + c
        OBVIOUS
      <3> QED BY <2>0, <2>1, <3>2, <3>3
    <2>2. CASE ~(i <= x)
      <3>1. i - x \in 1 .. k - (c + w) /\ b + (c + w) + (i - x) = b + i
        BY <2>2
      <3>2. s[i - x] = b + i
        BY <3>1
      <3>3. ~(i <= w) /\ ~(i <= w + c)
        BY <2>2
      <3> QED BY <2>0, <2>2, <3>2, <3>3
    <2> QED BY <2>1, <2>2
  <1> QED BY <1>1, <1>2

\* The first k numbers after b; the sequence of them in which the first c come after
\* the next w, in reverse order; and what its elements are.
IsRun(s, b, k) == s \in Seq(Nat) /\ Len(s) = k /\ \A i \in 1 .. k : s[i] = b + i

IsTurned(e, s, c, w, k) ==
    e = SubSeq(s, c + 1, c + w) \o Reverse(SubSeq(s, 1, c)) \o SubSeq(s, c + w + 1, k)

HasTurned(e, b, c, w, k) ==
    /\ Len(e) = k
    /\ \A i \in 1 .. k : e[i] = IF i <= w THEN b + c + i
                                ELSE IF i <= w + c THEN b + w + c + 1 - i
                                ELSE b + i

\* When c + w of them are through, the first c come after the next w, in reverse
\* order, and the others follow.
LEMMA LongRun ==
    ASSUME NEW b \in Nat, NEW k \in Nat, NEW c \in Nat, NEW w \in Nat, c > 0, w > 0,
           k >= c + w, NEW s, IsRun(s, b, k), NEW e, IsTurned(e, s, c, w, k)
    PROVE  HasTurned(e, b, c, w, k)
  <1>s. s \in Seq(Nat) /\ Len(s) = k /\ \A i \in 1 .. k : s[i] = b + i
    BY DEF IsRun
  <1>0. \A i \in 1 .. k : s[i] \in Nat
    BY <1>s
  <1> DEFINE s1 == SubSeq(s, c + 1, c + w)
             s0 == SubSeq(s, 1, c)
             s2 == Reverse(s0)
             s3 == SubSeq(s, c + w + 1, k)
  <1>1. s1 \in Seq(Nat) /\ Len(s1) = w /\ \A i \in 1 .. w : s1[i] = b + c + i
    <2>1. \A i \in c + 1 .. c + w : i \in 1 .. k /\ s[i] \in Nat
      <3>1. \A i \in c + 1 .. c + w : i \in 1 .. k
        OBVIOUS
      <3> QED BY <1>0, <3>1
    <2>2. c + 1 \in Int /\ c + w \in Int /\ c + 1 <= c + w /\ (c + w) - (c + 1) + 1 = w
      OBVIOUS
    <2>3. /\ s1 \in Seq(Nat)
          /\ Len(s1) = IF c + 1 <= c + w THEN (c + w) - (c + 1) + 1 ELSE 0
          /\ \A i \in 1 .. (c + w) - (c + 1) + 1 : s1[i] = s[(c + 1) + i - 1]
      BY <2>1, <2>2, <1>s, SubSeqProperties
    <2> HIDE DEF s1
    <2>4. ASSUME NEW i \in 1 .. w PROVE s1[i] = b + c + i
      <3>1. (c + 1) + i - 1 = c + i /\ c + i \in 1 .. k
        OBVIOUS
      <3>2. s1[i] = s[c + i]
        BY <2>2, <2>3, <3>1
      <3> QED BY <1>s, <3>1, <3>2
    <2> QED BY <2>2, <2>3, <2>4
  <1>2. s0 \in Seq(Nat) /\ Len(s0) = c /\ \A i \in 1 .. c : s0[i] = b + i
    <2>1. \A i \in 1 .. c : i \in 1 .. k /\ s[i] \in Nat
      <3>1. \A i \in 1 .. c : i \in 1 .. k
        OBVIOUS
      <3> QED BY <1>0, <3>1
    <2>2. 1 \in Int /\ c \in Int /\ 1 <= c /\ c - 1 + 1 = c
      OBVIOUS
    <2>3. /\ s0 \in Seq(Nat)
          /\ Len(s0) = IF 1 <= c THEN c - 1 + 1 ELSE 0
          /\ \A i \in 1 .. c - 1 + 1 : s0[i] = s[1 + i - 1]
      BY <2>1, <2>2, <1>s, SubSeqProperties
    <2> HIDE DEF s0
    <2>4. \A i \in 1 .. c : 1 + i - 1 = i
      OBVIOUS
    <2> QED BY <1>s, <2>1, <2>2, <2>3, <2>4
  <1> HIDE DEF s0
  <1>3. s2 \in Seq(Nat) /\ Len(s2) = c /\ \A i \in 1 .. c : s2[i] = b + (c - i + 1)
    <2>1. /\ s2 \in Seq(Nat) /\ Len(s2) = Len(s0)
          /\ \A i \in 1 .. Len(s0) : s2[i] = s0[Len(s0) - i + 1]
      BY <1>2, ReleaseOrder DEF release_order
    <2> HIDE DEF s2
    <2>2. \A i \in 1 .. c : c - i + 1 \in 1 .. c
      OBVIOUS
    <2> QED BY <1>2, <2>1, <2>2
  <1>4. s3 \in Seq(Nat) /\ Len(s3) = k - (c + w)
        /\ \A i \in 1 .. k - (c + w) : s3[i] = b + (c + w) + i
    <2>1. \A i \in c + w + 1 .. k : i \in 1 .. k /\ s[i] \in Nat
      <3>1. \A i \in c + w + 1 .. k : i \in 1 .. k
        OBVIOUS
      <3> QED BY <1>0, <3>1
    <2>2. c + w + 1 \in Int /\ k \in Int /\ k - (c + w + 1) + 1 = k - (c + w)
      OBVIOUS
    <2>3. /\ s3 \in Seq(Nat)
          /\ Len(s3) = IF c + w + 1 <= k THEN k - (c + w + 1) + 1 ELSE 0
          /\ \A i \in 1 .. k - (c + w + 1) + 1 : s3[i] = s[(c + w + 1) + i - 1]
      BY <2>1, <2>2, <1>s, SubSeqProperties
    <2> HIDE DEF s3
    <2>4. ASSUME NEW i \in 1 .. k - (c + w) PROVE s3[i] = b + (c + w) + i
      <3>1. (c + w + 1) + i - 1 = c + w + i /\ c + w + i \in 1 .. k
        OBVIOUS
      <3>2. s3[i] = s[c + w + i]
        BY <2>2, <2>3, <3>1
      <3>3. s[c + w + i] = b + (c + w + i)
        BY <1>s, <3>1
      <3> QED BY <3>2, <3>3
    <2>5. Len(s3) = k - (c + w)
      BY <2>3
    <2> QED BY <2>3, <2>4, <2>5
  <1> HIDE DEF s1, s2, s3
  <1>5. PICK t : t = s1 \o s2
    OBVIOUS
  <1>6. /\ t \in Seq(Nat) /\ Len(t) = w + c
        /\ \A i \in 1 .. w + c : t[i] = IF i <= w THEN s1[i] ELSE s2[i - w]
    <2>1. s1 \in Seq(Nat) /\ s2 \in Seq(Nat) /\ w = Len(s1) /\ c = Len(s2)
      BY <1>1, <1>3
    <2> QED BY <1>5, <2>1, Joined
  <1>7. ASSUME NEW i \in 1 .. w + c
        PROVE  t[i] = IF i <= w THEN b + c + i ELSE b + w + c + 1 - i
    <2>1. CASE i <= w
      BY <1>1, <1>6, <2>1
    <2>2. CASE ~(i <= w)
      <3>1. i - w \in 1 .. c /\ b + (c - (i - w) + 1) = b + w + c + 1 - i
        BY <2>2
      <3>2. t[i] = s2[i - w]
        BY <1>6, <2>2
      <3> QED BY <1>3, <2>2, <3>1, <3>2
    <2> QED BY <2>1, <2>2
  <1>8. PICK x \in Nat, y \in Nat : x = w + c /\ y = k - (c + w)
    <2>1. w + c \in Nat /\ k - (c + w) \in Nat
      OBVIOUS
    <2> QED BY <2>1
  <1>9. ASSUME e = t \o s3
        PROVE  /\ Len(e) = x + y
               /\ \A i \in 1 .. x + y : e[i] = IF i <= x THEN t[i] ELSE s3[i - x]
    <2>1. t \in Seq(Nat) /\ s3 \in Seq(Nat) /\ x = Len(t) /\ y = Len(s3)
      BY <1>4, <1>6, <1>8
    <2> QED BY <1>9, <2>1, Joined
  <1>10. ASSUME e = t \o s3
         PROVE  /\ Len(e) = k
                /\ \A i \in 1 .. k : e[i] = IF i <= w THEN b + c + i
                                            ELSE IF i <= w + c THEN b + w + c + 1 - i
                                            ELSE b + i
    <2>1. /\ x = w + c /\ y = k - (c + w) /\ Len(e) = x + y
          /\ \A i \in 1 .. x + y : e[i] = IF i <= x THEN t[i] ELSE s3[i - x]
      BY <1>8, <1>9, <1>10
    <2>2. \A i \in 1 .. k - (c + w) : s3[i] = b + (c + w) + i
      BY <1>4
    <2> QED BY <1>7, <2>1, <2>2, ThreeRuns
  <1> QED BY <1>5, <1>10 DEF s0, s1, s2, s3, IsTurned, HasTurned

\* What the packets are expected to do is what Nth says, for as many packets as
\* have left.
LEMMA ExpectedPlaces ==
    ASSUME GapInv, ~Pending("start_nfqueue"), row.cnt = 0 \/ row.offset % U16 > 0, NEW b \in Nat, b = Base, NEW o \in Nat,
           o = Ready(Len(hdr))
    PROVE  LET e == Expected(Len(hdr) - before)
           IN  /\ Len(e) = IF o <= b THEN 0 ELSE o - b
               /\ \A i \in 1 .. Len(e) : e[i] = Nth(b + i)
  <1>1. /\ Len(hdr) \in Nat /\ row.loss \in Nat /\ row.cnt \in Nat /\ Cap \in Nat /\ Wait \in Nat
        /\ Cut \in Nat /\ Cut <= Len(hdr) /\ Base = Cut + row.loss
    BY Numbers
  <1>2. Cut = before
    BY DEF Cut
  <1>3. PICK h \in Nat, l \in Nat, c \in Nat, w \in Nat, f \in Nat :
           /\ h = Len(hdr) /\ l = row.loss /\ c = Cap /\ w = Wait /\ f = before
           /\ f <= h /\ b = f + l
    BY <1>1, <1>2
  <1> DEFINE n == h - f
             k == IF n > l THEN n - l ELSE 0
             s == [i \in 1 .. k |-> b + i]
  <1>4. k \in Nat /\ k = IF h <= b THEN 0 ELSE h - b
    BY <1>3
  <1>5. Expected(Len(hdr) - before) =
           IF c = 0 THEN s
           ELSE IF Len(s) < c + w THEN SubSeq(s, c + 1, Len(s))
           ELSE SubSeq(s, c + 1, c + w) \o Reverse(SubSeq(s, 1, c)) \o SubSeq(s, c + w + 1, Len(s))
    <2>1. [i \in 1 .. (IF n > l THEN n - l ELSE 0) |-> before + row.loss + i] = s
      BY <1>3
    <2> QED BY <1>3, <2>1 DEF Expected, Cap, Wait
  <1> HIDE DEF k
  <1>6. s \in Seq(Nat) /\ Len(s) = k /\ \A i \in 1 .. k : s[i] = b + i
    BY <1>4
  <1> HIDE DEF s
  <1>k. k \in Nat
    BY <1>4
  <1> DEFINE e == Expected(Len(hdr) - before)
  <1>7. Mixed <=> c # 0
    <2>1. row.cnt = 0 => Cap = 0
      <3>1. 0 % U16 = 0
        BY ParametersAssumption
      <3> QED BY <3>1, ParametersAssumption DEF Cap, capped_count
    <2>2. row.cnt = 0 \/ Wait > 0
      BY DEF Wait
    <2> QED BY <1>1, <1>3, <2>1, <2>2 DEF Mixed
  <1>8. h <= b => o = h
    BY <1>3, EarlyPlaces
  <1>9. CASE ~Mixed
    <2>1. e = s
      <3>1. c = 0
        BY <1>7, <1>9
      <3> QED BY <1>5, <3>1
    <2>2. o = h /\ \A i \in Nat : Nth(b + i) = b + i
      <3>1. \A i \in Nat : b + i \in Nat
        OBVIOUS
      <3> QED BY <1>3, <1>9, <3>1, EarlyPlaces
    <2> HIDE DEF e
    <2>3. Len(e) = IF o <= b THEN 0 ELSE o - b
      BY <1>4, <1>6, <2>1, <2>2
    <2>4. \A i \in 1 .. Len(e) : e[i] = Nth(b + i)
      BY <1>4, <1>6, <2>1, <2>2
    <2> QED BY <2>3, <2>4 DEF e
  <1>10. CASE Mixed
    <2>1. /\ c > 0 /\ w > 0
          /\ \A a \in Nat : a <= c => Ready(b + a) = b
          /\ \A a \in Nat : c <= a /\ a < c + w => Ready(b + a) = b + a - c
          /\ \A a \in Nat : a >= c + w => Ready(b + a) = b + a
      <3>1. Mixed /\ b = Base /\ c = Cap /\ w = Wait
        BY <1>3, <1>10
      <3> QED BY <3>1, LatePlaces
    <2>2. /\ \A j \in Nat : 1 <= j /\ j <= w => Nth(b + j) = b + c + j
          /\ \A j \in Nat : 1 <= j /\ w < j /\ j <= w + c => Nth(b + j) = b + w + c + 1 - j
          /\ \A j \in Nat : 1 <= j /\ j > w + c => Nth(b + j) = b + j
      <3>1. Mixed /\ b = Base /\ c = Cap /\ w = Wait
        BY <1>3, <1>10
      <3> QED BY <3>1, LatePlaces
    <2>3. o <= b => h <= b \/ k <= c
      <3> SUFFICES ASSUME ~(h <= b), ~(k <= c) PROVE ~(o <= b)
        OBVIOUS
      <3>1. h = b + k /\ o = Ready(b + k)
        <4>1. h = b + k
          BY <1>4
        <4>2. o = Ready(h)
          BY <1>3
        <4> HIDE DEF e
        <4> QED BY <4>1, <4>2
      <3>2. CASE k < c + w
        <4> HIDE DEF e
        <4>1. \A a \in Nat : c <= a /\ a < c + w => Ready(b + a) = b + a - c
          BY <2>1
        <4>2. k \in Nat /\ c <= k /\ k < c + w
          BY <1>k, <1>3, <3>2
        <4>3. Ready(b + k) = b + k - c
          BY <4>1, <4>2, Zenon
        <4> QED BY <1>4, <3>1, <4>3
      <3>3. CASE k >= c + w
        <4> HIDE DEF e
        <4>1. \A a \in Nat : a >= c + w => Ready(b + a) = b + a
          BY <2>1
        <4>2. Ready(b + k) = b + k
          BY <1>k, <3>3, <4>1, Zenon
        <4> QED BY <1>4, <3>1, <4>2
      <3> QED BY <1>4, <3>2, <3>3
    <2>4. ~(h <= b) => h = b + k /\ o = Ready(b + k)
      <3>1. ~(h <= b) => h = b + k
        BY <1>4
      <3> QED BY <1>3, <3>1
    <2>5. CASE k < c + w
      <3>1. e = SubSeq(s, c + 1, k)
        BY <1>5, <1>6, <1>7, <1>10, <2>5
      <3>2. /\ Len(e) = IF k <= c THEN 0 ELSE k - c
            /\ \A i \in 1 .. Len(e) : e[i] = b + c + i
        <4> HIDE DEF e
        <4> QED BY <1>k, <1>6, <2>5, <3>1, ShortRun
      <3> HIDE DEF e
      <3>3. Len(e) = IF o <= b THEN 0 ELSE o - b
        <4>1. CASE k <= c
          <5>1. o <= b
            <6>1. CASE h <= b
              BY <1>8, <6>1
            <6>2. CASE ~(h <= b)
              <7>1. Ready(b + k) = b
                BY <1>4, <2>1, <4>1
              <7> QED BY <2>4, <6>2, <7>1
            <6> QED BY <6>1, <6>2
          <5> QED BY <3>2, <4>1, <5>1
        <4>2. CASE ~(k <= c)
          <5>1. ~(h <= b)
            BY <1>4, <4>2
          <5>2. Ready(b + k) = b + k - c
            BY <1>4, <2>1, <2>5, <4>2
          <5>3. o = b + (k - c) /\ k - c > 0
            BY <1>4, <2>4, <4>2, <5>1, <5>2
          <5> QED BY <1>4, <3>2, <4>2, <5>3
        <4> QED BY <4>1, <4>2
      <3>4. ASSUME NEW i \in 1 .. Len(e) PROVE e[i] = Nth(b + i)
        <4>1. i \in Nat /\ 1 <= i /\ i <= w
          BY <1>4, <2>5, <3>2
        <4>2. Nth(b + i) = b + c + i
          BY <2>2, <4>1
        <4> QED BY <3>2, <4>2
      <3> QED BY <3>3, <3>4 DEF e
    <2>6. CASE k >= c + w
      <3>1. e = SubSeq(s, c + 1, c + w) \o Reverse(SubSeq(s, 1, c)) \o SubSeq(s, c + w + 1, k)
        <4>1. ~(k < c + w)
          BY <1>4, <2>6
        <4> QED BY <1>5, <1>6, <1>7, <1>10, <4>1
      <3>2. /\ Len(e) = k
            /\ \A i \in 1 .. k : e[i] = IF i <= w THEN b + c + i
                                        ELSE IF i <= w + c THEN b + w + c + 1 - i
                                        ELSE b + i
        <4>1. c > 0 /\ w > 0
          BY <2>1
        <4> HIDE DEF e
        <4>2. IsRun(s, b, k) /\ IsTurned(e, s, c, w, k)
          BY <1>6, <3>1 DEF IsRun, IsTurned
        <4>3. HasTurned(e, b, c, w, k)
          BY <1>k, <2>6, <4>1, <4>2, LongRun
        <4> QED BY <4>3 DEF HasTurned
      <3> HIDE DEF e
      <3>3. Len(e) = IF o <= b THEN 0 ELSE o - b
        <4>1. k > 0 /\ ~(h <= b)
          BY <1>4, <2>1, <2>6
        <4>2. Ready(b + k) = b + k
          BY <1>4, <2>1, <2>6
        <4>3. o = b + k
          BY <2>4, <4>1, <4>2
        <4> QED BY <1>4, <3>2, <4>1, <4>3
      <3>4. ASSUME NEW i \in 1 .. Len(e) PROVE e[i] = Nth(b + i)
        <4>1. i \in Nat /\ 1 <= i /\ i \in 1 .. k
          BY <1>4, <3>2
        <4>2. e[i] = IF i <= w THEN b + c + i ELSE IF i <= w + c THEN b + w + c + 1 - i ELSE b + i
          BY <3>2, <4>1
        <4>3. CASE i <= w
          BY <2>2, <4>1, <4>2, <4>3
        <4>4. CASE ~(i <= w) /\ i <= w + c
          <5>1. w < i
            BY <4>4
          <5>2. Nth(b + i) = b + w + c + 1 - i
            BY <2>2, <4>1, <4>4, <5>1
          <5> QED BY <4>2, <4>4, <5>2
        <4>5. CASE ~(i <= w) /\ ~(i <= w + c)
          <5>1. i > w + c
            BY <4>5
          <5> QED BY <2>2, <4>1, <4>2, <4>5, <5>1
        <4> QED BY <4>3, <4>4, <4>5
      <3> QED BY <3>3, <3>4 DEF e
    <2> QED BY <1>4, <2>5, <2>6
  <1> QED BY <1>9, <1>10

\* A packet placed after the lost ones is numbered after them.
LEMMA LateNumbers ==
    ASSUME GapInv, Mixed, NEW b \in Nat, b = Base, NEW j \in Nat, 1 <= j
    PROVE  Nth(b + j) >= b + 1 /\ Nth(b + j) \in Int
  <1>1. Cap \in Nat /\ Wait \in Nat
    BY Numbers
  <1>2. PICK c \in Nat, w \in Nat : c = Cap /\ w = Wait
    BY <1>1
  <1>3. /\ \A x \in Nat : 1 <= x /\ x <= w => Nth(b + x) = b + c + x
        /\ \A x \in Nat : 1 <= x /\ w < x /\ x <= w + c => Nth(b + x) = b + w + c + 1 - x
        /\ \A x \in Nat : 1 <= x /\ x > w + c => Nth(b + x) = b + x
    <2>1. Mixed /\ b = Base /\ c = Cap /\ w = Wait
      BY <1>2
    <2> QED BY <2>1, LatePlaces
  <1>4. CASE j <= w
    BY <1>3, <1>4
  <1>5. CASE w < j /\ j <= w + c
    <2>1. Nth(b + j) = b + w + c + 1 - j
      BY <1>3, <1>5
    <2> QED BY <1>5, <2>1
  <1>6. CASE j > w + c
    BY <1>3, <1>6
  <1> QED BY <1>4, <1>5, <1>6

\* The verdicts that accept packets of the backlog are the last ones, and the place
\* of each among them is its distance from the lost packets.
LEMMA AcceptedPlaces ==
    ASSUME GapInv, CleanInv, ~Pending("start_nfqueue"), NEW b \in Nat, b = Base, NEW d \in Nat,
           d = IF Len(out) <= b THEN 0 ELSE Len(out) - b
    PROVE  /\ AcceptedBacklog = b + 1 .. b + d
           /\ Cardinality(AcceptedBacklog) = d
           /\ \A i \in AcceptedBacklog : i - b \in 1 .. d /\ Rank(i) = i - b
  <1>1. /\ Len(out) \in Nat /\ Len(hdr) \in Nat /\ row.loss \in Nat
        /\ Cut \in Nat /\ Base = Cut + row.loss /\ Cap \in Nat /\ Wait \in Nat
    BY Numbers
  <1>2. Cut = before
    BY DEF Cut
  <1>3. PICK o \in Nat, f \in Nat, l \in Nat : o = Len(out) /\ f = before /\ l = row.loss /\ b = f + l
    BY <1>1, <1>2
  <1>4. \A i \in 1 .. o : /\ out[i].id = Nth(i) /\ (out[i].verdict = "accept" <=> ~IsLost(i))
                          /\ out[i].id \in 1 .. Len(hdr)
    BY <1>3 DEF CleanInv, SentInv, GapInv, VerdictInv, Ids
  <1>5. DOMAIN out = 1 .. o
    BY <1>3, LenProperties DEF GapInv, TypeOK
  <1>6. \A i \in 1 .. o : i <= b => out[i].verdict # "accept" \/ out[i].id <= f
    <2> SUFFICES ASSUME NEW i \in 1 .. o, i <= b PROVE out[i].verdict # "accept" \/ out[i].id <= f
      OBVIOUS
    <2>1. out[i].id = i
      BY <1>4, EarlyPlaces
    <2>2. IsLost(i) <=> f < i
      BY <1>2, <1>3 DEF IsLost
    <2> QED BY <1>4, <2>1, <2>2
  <1>7. \A i \in 1 .. o : ~(i <= b) => out[i].verdict = "accept" /\ out[i].id > f
    <2> SUFFICES ASSUME NEW i \in 1 .. o, ~(i <= b)
                 PROVE  out[i].verdict = "accept" /\ out[i].id > f
      OBVIOUS
    <2>1. ~IsLost(i)
      BY DEF IsLost
    <2>2. PICK j \in Nat : i = b + j /\ 1 <= j
      <3>1. i - b \in Nat /\ i = b + (i - b) /\ 1 <= i - b
        OBVIOUS
      <3> QED BY <3>1
    <2>3. Nth(i) > f
      <3>1. CASE ~Mixed
        <4>1. Nth(i) = i
          BY <3>1, EarlyPlaces
        <4> QED BY <1>3, <4>1
      <3>2. CASE Mixed
        <4>4. Nth(b + j) >= b + 1 /\ Nth(b + j) \in Int
          BY <2>2, <3>2, LateNumbers
        <4>5. b + 1 > f
          BY <1>3
        <4> QED BY <2>2, <4>4, <4>5
      <3> QED BY <3>1, <3>2
    <2> QED BY <1>4, <2>1, <2>3
  <1>8. AcceptedBacklog = b + 1 .. b + d
    <2>1. \A i : i \in AcceptedBacklog <=> i \in 1 .. o /\ ~(i <= b)
      <3> SUFFICES ASSUME NEW i PROVE i \in AcceptedBacklog <=> i \in 1 .. o /\ ~(i <= b)
        OBVIOUS
      <3>1. ASSUME i \in AcceptedBacklog PROVE i \in 1 .. o /\ ~(i <= b)
        <4>1. i \in 1 .. o /\ out[i].verdict = "accept" /\ out[i].id \in f + 1 .. Len(hdr)
          BY <1>3, <1>5, <3>1 DEF AcceptedBacklog, Backlog
        <4>2. ~(out[i].id <= f)
          BY <4>1
        <4> QED BY <1>6, <4>1, <4>2
      <3>2. ASSUME i \in 1 .. o, ~(i <= b) PROVE i \in AcceptedBacklog
        <4>1. out[i].verdict = "accept" /\ out[i].id > f /\ out[i].id \in 1 .. Len(hdr)
          BY <1>4, <1>7, <3>2
        <4>2. out[i].id \in f + 1 .. Len(hdr)
          BY <1>1, <4>1
        <4> QED BY <1>3, <1>5, <3>2, <4>1, <4>2 DEF AcceptedBacklog, Backlog
      <3> QED BY <3>1, <3>2
    <2>2. \A i : i \in 1 .. o /\ ~(i <= b) <=> i \in b + 1 .. b + d
      <3>1. d = IF o <= b THEN 0 ELSE o - b
        BY <1>3
      <3>2. ASSUME NEW i \in 1 .. o, ~(i <= b) PROVE i \in b + 1 .. b + d
        BY <3>1, <3>2
      <3>3. ASSUME NEW i \in b + 1 .. b + d PROVE i \in 1 .. o /\ ~(i <= b)
        <4>1. ~(o <= b) /\ d = o - b
          BY <3>1
        <4> QED BY <4>1
      <3> QED BY <3>2, <3>3
    <2> QED BY <2>1, <2>2
  <1>9. Cardinality(AcceptedBacklog) = d
    BY <1>8, IntervalSize
  <1>10. ASSUME NEW i \in b + 1 .. b + d PROVE i - b \in 1 .. d /\ Rank(i) = i - b
    <2>1. PICK j \in Nat : i = b + j /\ j = i - b /\ j \in 1 .. d
      <3>1. i - b \in Nat /\ i = b + (i - b) /\ i - b \in 1 .. d
        OBVIOUS
      <3> QED BY <3>1
    <2>2. {x \in AcceptedBacklog : x <= i} = b + 1 .. b + j
      BY <1>8, <2>1
    <2>3. Cardinality(b + 1 .. b + j) = j
      BY IntervalSize
    <2> QED BY <2>1, <2>2, <2>3 DEF Rank
  <1> QED BY <1>8, <1>9, <1>10

\* After a handover with gap_ms > 0 whose gap was clean, the packets of the backlog
\* that have been accepted are the documented ones in the documented order, for every
\* row that has an offset or does not reorder, whose losses, count and offset
\* action_set_drop and action_set_reorder armed before action_start_nfqueue, and every
\* number of packets: worker_handle_drop takes the first packets after the gap, and
\* worker_handle_reorder holds the first of the others and releases them, newest
\* first, after the offset.
THEOREM OrderOfTheRow ==
    ASSUME SomethingArmed
    PROVE  GapSpec => []DocumentedOrder
  <1> DEFINE Inv == GapInv /\ ArmedInv /\ OrderInv
             HasGap == row.gap > 0
  <1>1. GapInit => (HasGap => Inv)
    <2> SUFFICES ASSUME GapInit, row.gap > 0 PROVE Inv
      OBVIOUS
    <2>1. GapInv
      BY InitGap
    <2>2. /\ Pending("stop_nfqueue") /\ Pending("start_nfqueue") /\ row.loss \in Nat
          /\ row.loss > 0 => Pending("set_drop")
          /\ row.cnt > 0 => Pending("set_reorder")
      BY InitRow DEF RowInv
    <2>3. /\ ~do_drop /\ ~do_reorder /\ ~do_dedup /\ pc = "recv" /\ run = "check"
          /\ hdr = <<>> /\ out = <<>> /\ todo = <<>> /\ reorder_ids = <<>>
      BY DEF GapInit, Init, worker_init_ctx
    <2>4. Left = 0
      BY <2>3 DEF Left
    <2>a. ~SomeLoss
      BY <2>3, EmptySeq DEF SomeLoss
    <2>5. ArmedInv
      BY <2>2, <2>3, <2>4, <2>a DEF ArmedInv
    <2>6. Len(hdr) = 0 /\ Len(out) = 0 /\ Len(todo) = 0 /\ Len(reorder_ids) = 0
      BY <2>3
    <2>7. Cut = 0 /\ Base \in Nat /\ Through = 0 /\ PastDrop = 0 /\ Coming = 0
      BY <2>1, <2>2, <2>3, <2>6, Numbers DEF Cut, Through, PastDrop, Coming
    <2>8. Ready(0) = 0
      BY <2>1, <2>7, EarlyPlaces
    <2>9. SentInv
      BY <2>3, <2>6, <2>7, <2>8 DEF SentInv
    <2>10. LeftInv
      BY <2>2, <2>4, <2>7 DEF LeftInv
    <2>11. ~Armed
      BY <2>2 DEF Armed
    <2>12. HoldInv
      BY <2>3, <2>6, <2>11 DEF HoldInv
    <2> QED BY <2>1, <2>3, <2>5, <2>9, <2>10, <2>12 DEF OrderInv, CleanInv
  <1>2. (HasGap => Inv) /\ [GapNext]_<<vars, gap_vars>> => (HasGap => Inv)'
    BY NextWorker, NextRow, NextLink, NextArmed, NextOrder, RowKept DEF GapInv
  <1>3. (HasGap => Inv) => DocumentedOrder
    <2> SUFFICES ASSUME GapInv, OrderInv, row.cnt = 0 \/ row.offset % U16 > 0,
                        Resumed, pc = "recv", Undisturbed
                 PROVE  LET expected == Expected(Cardinality(Backlog))
                        IN  /\ Len(expected) = Cardinality(AcceptedBacklog)
                            /\ \A i \in AcceptedBacklog : out[i].id = expected[Rank(i)]
      BY DEF DocumentedOrder, HeldThenReversed
    <2>1. ~Pending("start_nfqueue")
      BY ResumedMeans DEF GapInv
    <2>2. /\ Len(hdr) \in Nat /\ Len(out) \in Nat /\ Base \in Nat /\ before \in Nat
          /\ before <= Len(hdr) /\ Cut = before /\ Len(todo) = 0
      BY <2>1, Numbers DEF Cut, GapInv, LinkInv
    <2>3. CleanInv
      <3>1. ~Misplaced
        BY <2>2 DEF Misplaced, Undisturbed
      <3>2. Len(out) # Cut - 1
        BY <2>2 DEF Undisturbed
      <3> QED BY <3>1, <3>2 DEF OrderInv, SpoiltInv
    <2>4. Cardinality(Backlog) = Len(hdr) - before
      <3>1. PICK n \in Nat : n = Len(hdr) - before /\ Len(hdr) = before + n
        <4>1. Len(hdr) - before \in Nat /\ Len(hdr) = before + (Len(hdr) - before)
          BY <2>2
        <4> QED BY <4>1
      <3>2. Cardinality(before + 1 .. before + n) = n
        BY <2>2, IntervalSize
      <3> QED BY <3>1, <3>2 DEF Backlog
    <2>5. PICK b \in Nat, o \in Nat : b = Base /\ o = Len(out)
      BY <2>2
    <2>6. o = Ready(Len(hdr))
      <3>1. Through = Len(hdr) /\ Coming = 0
        BY DEF Through, Coming
      <3> QED BY <2>2, <2>3, <2>5, <3>1 DEF CleanInv, SentInv
    <2> DEFINE e == Expected(Len(hdr) - before)
               d == IF o <= b THEN 0 ELSE o - b
    <2>7. /\ Len(e) = d
          /\ \A i \in 1 .. Len(e) : e[i] = Nth(b + i)
      BY <2>1, <2>5, <2>6, ExpectedPlaces
    <2>8. d \in Nat /\ d = IF Len(out) <= b THEN 0 ELSE Len(out) - b
      BY <2>5
    <2> HIDE DEF e, d
    <2>9. /\ AcceptedBacklog = b + 1 .. b + d
          /\ Cardinality(AcceptedBacklog) = d
          /\ \A i \in AcceptedBacklog : i - b \in 1 .. d /\ Rank(i) = i - b
      BY <2>1, <2>3, <2>5, <2>8, AcceptedPlaces
    <2>10. ASSUME NEW i \in AcceptedBacklog PROVE out[i].id = e[Rank(i)]
      <3>1. PICK j \in 1 .. d : i = b + j /\ Rank(i) = j
        <4>1. i - b \in 1 .. d /\ Rank(i) = i - b /\ i \in b + 1 .. b + d
          BY <2>9
        <4>2. i = b + (i - b)
          BY <4>1
        <4> QED BY <4>1, <4>2
      <3>2. e[j] = Nth(i)
        BY <2>7, <3>1
      <3>3. i \in 1 .. Len(out)
        BY LenProperties DEF AcceptedBacklog, GapInv, TypeOK
      <3>4. out[i].id = Nth(i)
        BY <2>3, <3>3 DEF CleanInv, SentInv
      <3> QED BY <3>1, <3>2, <3>4
    <2>11. Len(e) = Cardinality(AcceptedBacklog)
      BY <2>7, <2>9
    <2> QED BY <2>4, <2>10, <2>11 DEF e
  <1> QED BY <1>1, <1>2, <1>3, PTL DEF GapSpec

=============================================================================
