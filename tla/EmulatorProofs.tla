--------------------------- MODULE EmulatorProofs ---------------------------
(* Theorems about Emulator. *)
EXTENDS Emulator, FiniteSetTheorems, SequenceTheorems, TLAPS

-----------------------------------------------------------------------------
(* What the rows expand into. *)

Acts ==
    {"command", "init_nfqueue", "teardown_nfqueue", "start_nfqueue", "stop_nfqueue", "set_mark",
     "set_drop", "set_reorder", "set_dedup", "init_tcp_sched", "sol_update", "set_rwnd",
     "set_burst", "set_adapt"}
Parsed == [time : Nat, act : Acts, q : Queues \cup {0}, arg : Nat \cup Sched]

\* A sequence with a conditional event at its end.
LEMMA OneMore ==
    ASSUME NEW S, NEW s \in Seq(S), NEW w \in Seq(S), Len(w) <= 1
    PROVE  /\ s \o w \in Seq(S)
           /\ Len(s \o w) = Len(s) + Len(w)
           /\ \A j \in 1 .. Len(s) : (s \o w)[j] = s[j]
           /\ Len(w) = 1 => (s \o w)[Len(s) + 1] = w[1]
  <1>2. Len(s) \in Nat /\ Len(w) \in Nat
    BY LenProperties
  <1>3. /\ s \o w \in Seq(S) /\ Len(s \o w) = Len(s) + Len(w)
        /\ \A i \in 1 .. Len(s) + Len(w) :
              (s \o w)[i] = IF i <= Len(s) THEN s[i] ELSE w[i - Len(s)]
    BY ConcatProperties
  <1>4. \A j \in 1 .. Len(s) : (s \o w)[j] = s[j]
    BY <1>2, <1>3
  <1>5. Len(w) = 1 => (s \o w)[Len(s) + 1] = w[1]
    <2> SUFFICES ASSUME Len(w) = 1 PROVE (s \o w)[Len(s) + 1] = w[1]
      OBVIOUS
    <2>2. Len(s) + 1 \in 1 .. Len(s) + Len(w) /\ ~(Len(s) + 1 <= Len(s)) /\ Len(s) + 1 - Len(s) = 1
      BY <1>2
    <2> QED BY <1>3, <2>2
  <1> QED BY <1>3, <1>4, <1>5

\* The two sequences a conditional event can be.
LEMMA Conditional ==
    ASSUME NEW x \in Parsed
    PROVE  /\ <<>> \in Seq(Parsed) /\ Len(<<>>) = 0
           /\ <<x>> \in Seq(Parsed) /\ Len(<<x>>) = 1 /\ <<x>>[1] = x
  OBVIOUS

InitRows  == [ev : {"INIT"}, time : Nat, q : Queues, mark : Nat, end : Nat]
HoRows    == [ev : {"HO"}, time : Nat, q : Queues, mark : Nat, gap : Nat, cnt : Nat, loss : Nat]
DupRows   == [ev : {"SOL_HANDLEDUP"}, time : Nat, q : Queues, enable : {0, 1}]
SchedRows == [ev : {"SOL_INIT_SCHED"}, time : Nat, q : Queues, fire : Nat, sample_interval : Nat,
              rtt : [Links -> Nat]]
SolRows   == [ev : {"SOL_HO"}, time : Nat, q : Queues, mark : Links, enable_freeze : Nat,
              freeze_ms : Nat, enable_dedup : Nat, smooth_ms : Nat, burst_duration : Nat,
              enable_adapt : Nat]
CmdRows   == [ev : {"CMD", "UNKNOWN"}, time : Nat, q : Queues]

\* A row has the fields of its kind.
LEMMA RowKinds ==
    ASSUME NEW r \in Row
    PROVE  /\ r.ev \in {"INIT", "HO", "SOL_HANDLEDUP", "SOL_INIT_SCHED", "SOL_HO", "CMD", "UNKNOWN"}
           /\ r.time \in Nat /\ r.q \in Queues
           /\ r.ev = "INIT" => r \in InitRows
           /\ r.ev = "HO" => r \in HoRows
           /\ r.ev = "SOL_HANDLEDUP" => r \in DupRows
           /\ r.ev = "SOL_INIT_SCHED" => r \in SchedRows
           /\ r.ev = "SOL_HO" => r \in SolRows
  BY DEF Row, InitRows, HoRows, DupRows, SchedRows, SolRows, CmdRows

\* The events of an INIT row, in the order parse_init adds them.
LEMMA InitEvents ==
    ASSUME NEW r \in Row, r.ev = "INIT"
    PROVE  LET s == parse_event(r)
           IN  /\ s \in Seq(Parsed) /\ Len(s) = 3 + (IF r.mark > 0 THEN 1 ELSE 0)
               /\ s[1] = Ev(r.time, "init_nfqueue", r.q, 0)
               /\ s[2] = Ev(r.end, "teardown_nfqueue", r.q, 0)
               /\ s[3] = Ev(r.time, "start_nfqueue", r.q, 0)
               /\ r.mark > 0 => s[4] = Ev(r.time, "set_mark", r.q, r.mark)
  <1>1. r \in InitRows
    BY RowKinds
  <1> DEFINE x == Ev(r.time, "init_nfqueue", r.q, 0)
             y == Ev(r.end, "teardown_nfqueue", r.q, 0)
             z == Ev(r.time, "start_nfqueue", r.q, 0)
             m == Ev(r.time, "set_mark", r.q, r.mark)
             s == <<x, y, z>>
             w == When(r.mark > 0, m)
  <1>2. x \in Parsed /\ y \in Parsed /\ z \in Parsed /\ m \in Parsed
    BY <1>1 DEF Ev, Parsed, Acts, InitRows
  <1>3. parse_event(r) = s \o w /\ w = IF r.mark > 0 THEN <<m>> ELSE <<>>
    BY DEF parse_event, parse_init, teardown_time, When
  <1> HIDE DEF x, y, z, m, w
  <1>4. s \in Seq(Parsed) /\ Len(s) = 3 /\ s[1] = x /\ s[2] = y /\ s[3] = z
    BY <1>2
  <1> HIDE DEF s
  <1>5. /\ w \in Seq(Parsed) /\ Len(w) = (IF r.mark > 0 THEN 1 ELSE 0)
        /\ r.mark > 0 => w[1] = m
    <2>1. CASE r.mark > 0
      BY <1>2, <1>3, <2>1, Conditional
    <2>2. CASE ~(r.mark > 0)
      BY <1>2, <1>3, <2>2, Conditional
    <2> QED BY <2>1, <2>2
  <1>6. /\ s \o w \in Seq(Parsed) /\ Len(s \o w) = Len(s) + Len(w)
        /\ \A j \in 1 .. Len(s) : (s \o w)[j] = s[j]
        /\ Len(w) = 1 => (s \o w)[Len(s) + 1] = w[1]
    <2>1. Len(w) <= 1
      BY <1>5
    <2> QED BY <1>4, <1>5, <2>1, OneMore
  <1> DEFINE t == s \o w
  <1>7. t[1] = x /\ t[2] = y /\ t[3] = z /\ Len(t) = 3 + (IF r.mark > 0 THEN 1 ELSE 0)
        /\ (r.mark > 0 => t[4] = m)
    BY <1>4, <1>5, <1>6
  <1> QED BY <1>3, <1>6, <1>7 DEF x, y, z, m

\* The events of an HO row: the loss, if any, comes before the reordering.
LEMMA HoEvents ==
    ASSUME NEW r \in Row, r.ev = "HO"
    PROVE  LET s == parse_event(r)
           IN  /\ s \in Seq(Parsed)
               /\ Len(s) = 3 + (IF Loss(r) > 0 THEN 1 ELSE 0) + (IF r.cnt > 0 THEN 1 ELSE 0)
               /\ s[1] = Ev(r.time, "stop_nfqueue", r.q, 0)
               /\ s[2] = Ev(r.time + r.gap, "start_nfqueue", r.q, 0)
               /\ s[3] = Ev(r.time, "set_mark", r.q, r.mark)
               /\ Loss(r) > 0 => s[4] = Ev(r.time, "set_drop", r.q, Loss(r))
               /\ r.cnt > 0 => Loss(r) > 0 /\ s[5] = Ev(r.time, "set_reorder", r.q, r.cnt)
  <1>1. r \in HoRows /\ Loss(r) \in Nat /\ (r.cnt > 0 => Loss(r) > 0)
    BY RowKinds, EventAssumption DEF Loss, HoRows
  <1> DEFINE x == Ev(r.time, "stop_nfqueue", r.q, 0)
             y == Ev(r.time + r.gap, "start_nfqueue", r.q, 0)
             z == Ev(r.time, "set_mark", r.q, r.mark)
             d == Ev(r.time, "set_drop", r.q, Loss(r))
             c == Ev(r.time, "set_reorder", r.q, r.cnt)
             s == <<x, y, z>>
             v == When(Loss(r) > 0, d)
             w == When(r.cnt > 0, c)
             t == s \o v
             u == t \o w
  <1>2. x \in Parsed /\ y \in Parsed /\ z \in Parsed /\ d \in Parsed /\ c \in Parsed
    BY <1>1 DEF Ev, Parsed, Acts, HoRows
  <1>3. parse_event(r) = u
    BY DEF parse_event, parse_ho, start_time, mark_time, Loss
  <1>4. /\ v \in Seq(Parsed) /\ Len(v) = (IF Loss(r) > 0 THEN 1 ELSE 0)
        /\ Loss(r) > 0 => v[1] = d
    <2>1. CASE Loss(r) > 0
      BY <1>2, <2>1, Conditional DEF When
    <2>2. CASE ~(Loss(r) > 0)
      BY <1>2, <2>2, Conditional DEF When
    <2> QED BY <2>1, <2>2
  <1>5. /\ w \in Seq(Parsed) /\ Len(w) = (IF r.cnt > 0 THEN 1 ELSE 0)
        /\ r.cnt > 0 => w[1] = c
    <2>1. CASE r.cnt > 0
      BY <1>2, <2>1, Conditional DEF When
    <2>2. CASE ~(r.cnt > 0)
      BY <1>2, <2>2, Conditional DEF When
    <2> QED BY <2>1, <2>2
  <1> HIDE DEF x, y, z, d, c, v, w
  <1>s. s \in Seq(Parsed) /\ Len(s) = 3 /\ s[1] = x /\ s[2] = y /\ s[3] = z
    BY <1>2
  <1> HIDE DEF s
  <1>6. /\ t \in Seq(Parsed) /\ Len(t) = Len(s) + Len(v)
        /\ \A j \in 1 .. Len(s) : t[j] = s[j]
        /\ Len(v) = 1 => t[Len(s) + 1] = v[1]
    <2>1. Len(v) <= 1
      BY <1>4
    <2> QED BY <1>4, <1>s, <2>1, OneMore
  <1> HIDE DEF t
  <1>7. /\ u \in Seq(Parsed) /\ Len(u) = Len(t) + Len(w)
        /\ \A j \in 1 .. Len(t) : u[j] = t[j]
        /\ Len(w) = 1 => u[Len(t) + 1] = w[1]
    <2>1. w \in Seq(Parsed) /\ Len(w) <= 1 /\ t \in Seq(Parsed)
      BY <1>5, <1>6
    <2> QED BY <2>1, OneMore
  <1> HIDE DEF u
  <1>8. t[1] = x /\ t[2] = y /\ t[3] = z /\ Len(t) = 3 + (IF Loss(r) > 0 THEN 1 ELSE 0)
        /\ (Loss(r) > 0 => t[4] = d)
    BY <1>4, <1>6, <1>s
  <1>9. u[1] = x /\ u[2] = y /\ u[3] = z /\ Len(u) = Len(t) + (IF r.cnt > 0 THEN 1 ELSE 0)
        /\ (Loss(r) > 0 => u[4] = d) /\ (r.cnt > 0 => u[5] = c)
    BY <1>1, <1>5, <1>7, <1>8
  <1> QED BY <1>1, <1>3, <1>7, <1>8, <1>9 DEF x, y, z, d, c

\* The phases of a SOL_HO row: where its events are, and that there are no others.
SolPlaces(r, s, a, b, c) ==
    /\ s[1] = Ev(r.time, "sol_update", r.q, r.mark)
    /\ a = 1 + (IF r.enable_freeze > 0 THEN 1 ELSE 0)
    /\ r.enable_freeze > 0 => s[2] = Ev(r.time, "set_rwnd", r.q, r.mark)
    /\ b = a + (IF r.enable_dedup > 0 THEN 2 ELSE 0)
    /\ r.enable_dedup > 0 => /\ s[a + 1] = Ev(Thawed(r), "set_dedup", r.q, 1)
                             /\ s[a + 2] = Ev(Thawed(r) + r.smooth_ms, "set_dedup", r.q, 0)
    /\ c = b + (IF r.burst_duration > 0 THEN 2 ELSE 0)
    /\ r.burst_duration > 0 => /\ s[b + 1] = Ev(Thawed(r), "set_burst", r.q, 1)
                               /\ s[b + 2] = Ev(Done(r), "set_burst", r.q, 0)
    /\ Len(s) = c + (IF r.enable_adapt > 0 THEN 1 ELSE 0)
    /\ r.enable_adapt > 0 => s[c + 1] = Ev(Done(r), "set_adapt", r.q, 1)

\* The events of a SOL_HO row are where SolPlaces says.
LEMMA SolEvents ==
    ASSUME NEW r \in Row, r.ev = "SOL_HO"
    PROVE  /\ parse_event(r) \in Seq(Parsed)
           /\ \E a, b, c \in Nat : SolPlaces(r, parse_event(r), a, b, c)
  <1> DEFINE e1 == Ev(r.time, "sol_update", r.q, r.mark)
             e2 == Ev(r.time, "set_rwnd", r.q, r.mark)
             e3 == Ev(Thawed(r), "set_dedup", r.q, 1)
             e4 == Ev(Thawed(r) + r.smooth_ms, "set_dedup", r.q, 0)
             e5 == Ev(Thawed(r), "set_burst", r.q, 1)
             e6 == Ev(Done(r), "set_burst", r.q, 0)
             e7 == Ev(Done(r), "set_adapt", r.q, 1)
             w2 == When(r.enable_freeze > 0, e2)
             w3 == When(r.enable_dedup > 0, e3)
             w4 == When(r.enable_dedup > 0, e4)
             w5 == When(r.burst_duration > 0, e5)
             w6 == When(r.burst_duration > 0, e6)
             w7 == When(r.enable_adapt > 0, e7)
             s1 == <<e1>>
             s2 == s1 \o w2
             s3 == s2 \o w3
             s4 == s3 \o w4
             s5 == s4 \o w5
             s6 == s5 \o w6
             s7 == s6 \o w7
  <1>1. r \in SolRows
    BY RowKinds
  <1>2. /\ e1 \in Parsed /\ e2 \in Parsed /\ e3 \in Parsed /\ e4 \in Parsed /\ e5 \in Parsed
        /\ e6 \in Parsed /\ e7 \in Parsed
    BY <1>1 DEF Ev, Parsed, Acts, SolRows, Thawed, Done, Links
  <1>3. parse_event(r) = s7
    BY DEF parse_event, parse_handle_solution, burst_end, Thawed, Done
  <1>w2. /\ w2 \in Seq(Parsed) /\ Len(w2) = (IF r.enable_freeze > 0 THEN 1 ELSE 0)
         /\ r.enable_freeze > 0 => w2[1] = e2
    <2>1. CASE r.enable_freeze > 0
      BY <1>2, <2>1, Conditional DEF When
    <2>2. CASE ~(r.enable_freeze > 0)
      BY <1>2, <2>2, Conditional DEF When
    <2> QED BY <2>1, <2>2
  <1>w3. /\ w3 \in Seq(Parsed) /\ Len(w3) = (IF r.enable_dedup > 0 THEN 1 ELSE 0)
         /\ r.enable_dedup > 0 => w3[1] = e3
    <2>1. CASE r.enable_dedup > 0
      BY <1>2, <2>1, Conditional DEF When
    <2>2. CASE ~(r.enable_dedup > 0)
      BY <1>2, <2>2, Conditional DEF When
    <2> QED BY <2>1, <2>2
  <1>w4. /\ w4 \in Seq(Parsed) /\ Len(w4) = (IF r.enable_dedup > 0 THEN 1 ELSE 0)
         /\ r.enable_dedup > 0 => w4[1] = e4
    <2>1. CASE r.enable_dedup > 0
      BY <1>2, <2>1, Conditional DEF When
    <2>2. CASE ~(r.enable_dedup > 0)
      BY <1>2, <2>2, Conditional DEF When
    <2> QED BY <2>1, <2>2
  <1>w5. /\ w5 \in Seq(Parsed) /\ Len(w5) = (IF r.burst_duration > 0 THEN 1 ELSE 0)
         /\ r.burst_duration > 0 => w5[1] = e5
    <2>1. CASE r.burst_duration > 0
      BY <1>2, <2>1, Conditional DEF When
    <2>2. CASE ~(r.burst_duration > 0)
      BY <1>2, <2>2, Conditional DEF When
    <2> QED BY <2>1, <2>2
  <1>w6. /\ w6 \in Seq(Parsed) /\ Len(w6) = (IF r.burst_duration > 0 THEN 1 ELSE 0)
         /\ r.burst_duration > 0 => w6[1] = e6
    <2>1. CASE r.burst_duration > 0
      BY <1>2, <2>1, Conditional DEF When
    <2>2. CASE ~(r.burst_duration > 0)
      BY <1>2, <2>2, Conditional DEF When
    <2> QED BY <2>1, <2>2
  <1>w7. /\ w7 \in Seq(Parsed) /\ Len(w7) = (IF r.enable_adapt > 0 THEN 1 ELSE 0)
         /\ r.enable_adapt > 0 => w7[1] = e7
    <2>1. CASE r.enable_adapt > 0
      BY <1>2, <2>1, Conditional DEF When
    <2>2. CASE ~(r.enable_adapt > 0)
      BY <1>2, <2>2, Conditional DEF When
    <2> QED BY <2>1, <2>2
  <1>s1. s1 \in Seq(Parsed) /\ Len(s1) = 1 /\ s1[1] = e1
    BY <1>2
  <1> HIDE DEF e1, e2, e3, e4, e5, e6, e7, w2, w3, w4, w5, w6, w7, s1
  <1>s2. /\ s2 \in Seq(Parsed) /\ Len(s2) = Len(s1) + Len(w2)
         /\ \A j \in 1 .. Len(s1) : s2[j] = s1[j]
         /\ Len(w2) = 1 => s2[Len(s1) + 1] = w2[1]
    <2>1. w2 \in Seq(Parsed) /\ Len(w2) <= 1 /\ s1 \in Seq(Parsed)
      BY <1>w2, <1>s1
    <2> QED BY <2>1, OneMore
  <1> HIDE DEF s2
  <1>s3. /\ s3 \in Seq(Parsed) /\ Len(s3) = Len(s2) + Len(w3)
         /\ \A j \in 1 .. Len(s2) : s3[j] = s2[j]
         /\ Len(w3) = 1 => s3[Len(s2) + 1] = w3[1]
    <2>1. w3 \in Seq(Parsed) /\ Len(w3) <= 1 /\ s2 \in Seq(Parsed)
      BY <1>w3, <1>s2
    <2> QED BY <2>1, OneMore
  <1> HIDE DEF s3
  <1>s4. /\ s4 \in Seq(Parsed) /\ Len(s4) = Len(s3) + Len(w4)
         /\ \A j \in 1 .. Len(s3) : s4[j] = s3[j]
         /\ Len(w4) = 1 => s4[Len(s3) + 1] = w4[1]
    <2>1. w4 \in Seq(Parsed) /\ Len(w4) <= 1 /\ s3 \in Seq(Parsed)
      BY <1>w4, <1>s3
    <2> QED BY <2>1, OneMore
  <1> HIDE DEF s4
  <1>s5. /\ s5 \in Seq(Parsed) /\ Len(s5) = Len(s4) + Len(w5)
         /\ \A j \in 1 .. Len(s4) : s5[j] = s4[j]
         /\ Len(w5) = 1 => s5[Len(s4) + 1] = w5[1]
    <2>1. w5 \in Seq(Parsed) /\ Len(w5) <= 1 /\ s4 \in Seq(Parsed)
      BY <1>w5, <1>s4
    <2> QED BY <2>1, OneMore
  <1> HIDE DEF s5
  <1>s6. /\ s6 \in Seq(Parsed) /\ Len(s6) = Len(s5) + Len(w6)
         /\ \A j \in 1 .. Len(s5) : s6[j] = s5[j]
         /\ Len(w6) = 1 => s6[Len(s5) + 1] = w6[1]
    <2>1. w6 \in Seq(Parsed) /\ Len(w6) <= 1 /\ s5 \in Seq(Parsed)
      BY <1>w6, <1>s5
    <2> QED BY <2>1, OneMore
  <1> HIDE DEF s6
  <1>s7. /\ s7 \in Seq(Parsed) /\ Len(s7) = Len(s6) + Len(w7)
         /\ \A j \in 1 .. Len(s6) : s7[j] = s6[j]
         /\ Len(w7) = 1 => s7[Len(s6) + 1] = w7[1]
    <2>1. w7 \in Seq(Parsed) /\ Len(w7) <= 1 /\ s6 \in Seq(Parsed)
      BY <1>w7, <1>s6
    <2> QED BY <2>1, OneMore
  <1> HIDE DEF s7
  <1> DEFINE a == Len(s2)
             b == Len(s4)
             c == Len(s6)
  <1>4. a \in Nat /\ b \in Nat /\ c \in Nat
    BY <1>s2, <1>s4, <1>s6, LenProperties
  <1>5. /\ a = 1 + (IF r.enable_freeze > 0 THEN 1 ELSE 0)
        /\ s2[1] = e1 /\ (r.enable_freeze > 0 => s2[2] = e2)
    BY <1>s1, <1>s2, <1>w2
  <1>6. /\ b = a + (IF r.enable_dedup > 0 THEN 2 ELSE 0)
        /\ \A j \in 1 .. a : s4[j] = s2[j]
        /\ r.enable_dedup > 0 => s4[a + 1] = e3 /\ s4[a + 2] = e4
    BY <1>4, <1>s3, <1>s4, <1>w3, <1>w4
  <1>7. /\ c = b + (IF r.burst_duration > 0 THEN 2 ELSE 0)
        /\ \A j \in 1 .. b : s6[j] = s4[j]
        /\ r.burst_duration > 0 => s6[b + 1] = e5 /\ s6[b + 2] = e6
    BY <1>4, <1>s5, <1>s6, <1>w5, <1>w6
  <1>8. /\ Len(s7) = c + (IF r.enable_adapt > 0 THEN 1 ELSE 0)
        /\ \A j \in 1 .. c : s7[j] = s6[j]
        /\ r.enable_adapt > 0 => s7[c + 1] = e7
    BY <1>4, <1>s7, <1>w7
  <1> HIDE DEF a, b, c
  <1>9. \A j \in 1 .. a : s7[j] = s2[j]
    BY <1>4, <1>6, <1>7, <1>8
  <1>10. \A j \in 1 .. b : s7[j] = s4[j]
    BY <1>4, <1>7, <1>8
  <1>11. SolPlaces(r, s7, a, b, c)
    <2>1. s7[1] = e1 /\ (r.enable_freeze > 0 => s7[2] = e2)
      BY <1>4, <1>5, <1>9
    <2>2. r.enable_dedup > 0 => s7[a + 1] = e3 /\ s7[a + 2] = e4
      BY <1>4, <1>6, <1>10
    <2>3. r.burst_duration > 0 => s7[b + 1] = e5 /\ s7[b + 2] = e6
      BY <1>4, <1>7, <1>8
    <2> QED BY <1>5, <1>6, <1>7, <1>8, <2>1, <2>2, <2>3
            DEF SolPlaces, e1, e2, e3, e4, e5, e6, e7
  <1> QED BY <1>3, <1>4, <1>11, <1>s7

\* The other kinds of rows have at most one event.
LEMMA OtherEvents ==
    ASSUME NEW r \in Row, r.ev \in {"SOL_HANDLEDUP", "SOL_INIT_SCHED", "CMD", "UNKNOWN"}
    PROVE  /\ parse_event(r) \in Seq(Parsed)
           /\ r.ev = "UNKNOWN" => Len(parse_event(r)) = 0
           /\ r.ev # "UNKNOWN" => Len(parse_event(r)) = 1
           /\ r.ev = "CMD" => parse_event(r)[1] = Ev(r.time, "command", 0, 0)
           /\ r.ev = "SOL_HANDLEDUP" => parse_event(r)[1] = Ev(r.time, "set_dedup", r.q, r.enable)
           /\ r.ev = "SOL_INIT_SCHED" =>
                 /\ parse_event(r)[1].arg \in Sched /\ parse_event(r)[1].act = "init_tcp_sched"
                 /\ parse_event(r)[1].time = r.time /\ parse_event(r)[1].q = r.q
  <1>1. CASE r.ev = "UNKNOWN"
    <2>1. parse_event(r) = <<>>
      BY <1>1 DEF parse_event
    <2> QED BY <1>1, <2>1
  <1>2. CASE r.ev = "CMD"
    <2> DEFINE x == Ev(r.time, "command", 0, 0)
    <2>1. x \in Parsed
      BY RowKinds DEF Parsed, Ev, Acts
    <2>2. parse_event(r) = <<x>>
      BY <1>2 DEF parse_event, parse_cmd
    <2> HIDE DEF x
    <2>3. parse_event(r) \in Seq(Parsed) /\ Len(parse_event(r)) = 1 /\ parse_event(r)[1] = x
      BY <2>1, <2>2, Conditional
    <2> QED BY <1>2, <2>3 DEF x
  <1>3. CASE r.ev = "SOL_HANDLEDUP"
    <2> DEFINE x == Ev(r.time, "set_dedup", r.q, r.enable)
    <2>1. x \in Parsed
      BY <1>3, RowKinds DEF Parsed, Ev, Acts, DupRows
    <2>2. parse_event(r) = <<x>>
      BY <1>3 DEF parse_event, parse_handle_dup
    <2> HIDE DEF x
    <2>3. parse_event(r) \in Seq(Parsed) /\ Len(parse_event(r)) = 1 /\ parse_event(r)[1] = x
      BY <2>1, <2>2, Conditional
    <2> QED BY <1>3, <2>3 DEF x
  <1>4. CASE r.ev = "SOL_INIT_SCHED"
    <2> DEFINE a == [fire |-> r.fire, sample_interval |-> r.sample_interval, rtt |-> r.rtt]
               x == Ev(r.time, "init_tcp_sched", r.q, a)
    <2>1. a \in Sched
      BY <1>4, RowKinds DEF Sched, SchedRows
    <2>2. parse_event(r) = <<x>>
      BY <1>4 DEF parse_event, parse_init_sched
    <2> HIDE DEF a
    <2>3. /\ x \in Parsed /\ x.arg \in Sched /\ x.act = "init_tcp_sched" /\ x.time = r.time
          /\ x.q = r.q
      BY <2>1, RowKinds DEF Parsed, Ev, Acts
    <2> HIDE DEF x
    <2>4. parse_event(r) \in Seq(Parsed) /\ Len(parse_event(r)) = 1 /\ parse_event(r)[1] = x
      BY <2>2, <2>3, Conditional
    <2> QED BY <1>4, <2>3, <2>4
  <1> QED BY <1>1, <1>2, <1>3, <1>4

Users == {"HO", "SOL_HANDLEDUP", "SOL_INIT_SCHED", "SOL_HO"}

\* What any event of a row says about the row.
LEMMA EventOfRow ==
    ASSUME NEW r \in Row, NEW j \in DOMAIN parse_event(r)
    PROVE  LET x == parse_event(r)[j]
           IN  /\ x \in Parsed /\ j \in Nat \ {0}
               /\ r.ev = "CMD" => x.act = "command"
               /\ r.ev # "CMD" => x.act # "command" /\ x.q = r.q
               /\ r.ev \in Users \cup {"INIT", "CMD"}
               /\ r.ev = "INIT" => \/ j = 1 /\ x.act = "init_nfqueue" /\ x.time = r.time
                                   \/ j = 2 /\ x.act = "teardown_nfqueue" /\ x.time = r.end
                                   \/ j > 2 /\ x.act \in {"start_nfqueue", "set_mark"} /\ x.time = r.time
               /\ r.ev # "INIT" => x.act # "init_nfqueue" /\ x.act # "teardown_nfqueue"
               /\ r.ev = "INIT" /\ x.act = "start_nfqueue" => j = 3
               /\ r.ev = "INIT" /\ x.act = "set_mark" => j = 4 /\ r.mark > 0
               /\ r.ev = "HO" => \/ j = 1 /\ x.act = "stop_nfqueue"
                                 \/ j = 2 /\ x.act = "start_nfqueue"
                                 \/ j = 3 /\ x.act = "set_mark"
                                 \/ j = 4 /\ x.act = "set_drop" /\ Loss(r) > 0
                                 \/ j = 5 /\ x.act = "set_reorder" /\ r.cnt > 0
               /\ r.ev = "SOL_HO" =>
                     x.act \in {"sol_update", "set_rwnd", "set_dedup", "set_burst", "set_adapt"}
               /\ r.ev = "SOL_HANDLEDUP" => x.act = "set_dedup"
               /\ r.ev = "SOL_INIT_SCHED" => x.act = "init_tcp_sched"
               /\ r.ev \in Users => r.time <= x.time /\ x.time <= LastTime(r)
               /\ x.act = "init_tcp_sched" => r.ev = "SOL_INIT_SCHED" /\ x.arg \in Sched
               /\ x.act = "sol_update" => x.arg \in Links
               /\ x.act # "init_tcp_sched" => x.arg \in Nat
  <1> DEFINE s == parse_event(r)
             x == s[j]
  <1>1. CASE r.ev = "INIT"
    <2>1. /\ s \in Seq(Parsed) /\ Len(s) = 3 + (IF r.mark > 0 THEN 1 ELSE 0)
          /\ s[1] = Ev(r.time, "init_nfqueue", r.q, 0)
          /\ s[2] = Ev(r.end, "teardown_nfqueue", r.q, 0)
          /\ s[3] = Ev(r.time, "start_nfqueue", r.q, 0)
          /\ r.mark > 0 => s[4] = Ev(r.time, "set_mark", r.q, r.mark)
          /\ r \in InitRows
      BY <1>1, InitEvents, RowKinds
    <2> HIDE DEF s
    <2>2. DOMAIN s = 1 .. Len(s)
      BY <2>1, LenProperties
    <2>3. j \in 1 .. Len(s)
      BY <2>2 DEF s
    <2>4. j = 1 \/ j = 2 \/ j = 3 \/ (j = 4 /\ r.mark > 0)
      BY <2>1, <2>3 DEF InitRows
    <2>5. x \in Parsed
      BY <2>1, <2>3, ElementOfSeq
    <2> QED BY <1>1, <2>1, <2>3, <2>4, <2>5 DEF Ev, s, InitRows, Users
  <1>2. CASE r.ev = "HO"
    <2>1. /\ s \in Seq(Parsed)
          /\ Len(s) = 3 + (IF Loss(r) > 0 THEN 1 ELSE 0) + (IF r.cnt > 0 THEN 1 ELSE 0)
          /\ s[1] = Ev(r.time, "stop_nfqueue", r.q, 0)
          /\ s[2] = Ev(r.time + r.gap, "start_nfqueue", r.q, 0)
          /\ s[3] = Ev(r.time, "set_mark", r.q, r.mark)
          /\ Loss(r) > 0 => s[4] = Ev(r.time, "set_drop", r.q, Loss(r))
          /\ r.cnt > 0 => Loss(r) > 0 /\ s[5] = Ev(r.time, "set_reorder", r.q, r.cnt)
          /\ r \in HoRows /\ Loss(r) \in Nat
      BY <1>2, HoEvents, RowKinds, EventAssumption DEF Loss, HoRows
    <2> HIDE DEF s
    <2>2. DOMAIN s = 1 .. Len(s)
      BY <2>1, LenProperties
    <2>3. j \in 1 .. Len(s)
      BY <2>2 DEF s
    <2>4. j = 1 \/ j = 2 \/ j = 3 \/ (j = 4 /\ Loss(r) > 0) \/ (j = 5 /\ r.cnt > 0)
      BY <2>1, <2>3
    <2>5. x \in Parsed
      BY <2>1, <2>3, ElementOfSeq
    <2>6. LastTime(r) = r.time + r.gap
      BY <1>2 DEF LastTime
    <2>7. \/ x = Ev(r.time, "stop_nfqueue", r.q, 0)
          \/ x = Ev(r.time + r.gap, "start_nfqueue", r.q, 0)
          \/ x = Ev(r.time, "set_mark", r.q, r.mark)
          \/ x = Ev(r.time, "set_drop", r.q, Loss(r))
          \/ x = Ev(r.time, "set_reorder", r.q, r.cnt)
      BY <2>1, <2>4
    <2>8. /\ r.time <= r.time + r.gap /\ r.time \in Nat /\ r.gap \in Nat /\ r.mark \in Nat
          /\ r.cnt \in Nat
      BY <2>1 DEF HoRows
    <2>9. r.time <= x.time /\ x.time <= LastTime(r) /\ x.q = r.q
      BY <2>6, <2>7, <2>8 DEF Ev
    <2>10. /\ x.act \in {"stop_nfqueue", "start_nfqueue", "set_mark", "set_drop", "set_reorder"}
           /\ x.arg \in Nat
      BY <2>1, <2>7, <2>8 DEF Ev
    <2>11. \/ j = 1 /\ x.act = "stop_nfqueue"
           \/ j = 2 /\ x.act = "start_nfqueue"
           \/ j = 3 /\ x.act = "set_mark"
           \/ j = 4 /\ x.act = "set_drop" /\ Loss(r) > 0
           \/ j = 5 /\ x.act = "set_reorder" /\ r.cnt > 0
      BY <2>1, <2>4 DEF Ev
    <2> QED BY <1>2, <2>3, <2>5, <2>9, <2>10, <2>11 DEF s, Users
  <1>3. CASE r.ev = "SOL_HO"
    <2>1. s \in Seq(Parsed) /\ r \in SolRows
      BY <1>3, SolEvents, RowKinds
    <2>2. PICK a, b, c \in Nat : SolPlaces(r, s, a, b, c)
      BY <1>3, SolEvents
    <2> HIDE DEF s
    <2>3. DOMAIN s = 1 .. Len(s)
      BY <2>1, LenProperties
    <2>4. j \in 1 .. Len(s)
      BY <2>3 DEF s
    <2>5. \/ j = 1
          \/ j = 2 /\ r.enable_freeze > 0
          \/ j \in {a + 1, a + 2} /\ r.enable_dedup > 0
          \/ j \in {b + 1, b + 2} /\ r.burst_duration > 0
          \/ j = c + 1 /\ r.enable_adapt > 0
      <3>1. /\ a = 1 + (IF r.enable_freeze > 0 THEN 1 ELSE 0)
            /\ b = a + (IF r.enable_dedup > 0 THEN 2 ELSE 0)
            /\ c = b + (IF r.burst_duration > 0 THEN 2 ELSE 0)
            /\ Len(s) = c + (IF r.enable_adapt > 0 THEN 1 ELSE 0)
        BY <2>2 DEF SolPlaces
      <3>2. Len(s) \in Nat
        BY <2>1, LenProperties
      <3>3. j \in Nat /\ 1 <= j /\ j <= Len(s)
        BY <2>4, <3>2
      <3>4. /\ r.enable_freeze \in Nat /\ r.enable_dedup \in Nat /\ r.burst_duration \in Nat
            /\ r.enable_adapt \in Nat
        BY <2>1 DEF SolRows
      <3> QED BY <3>1, <3>3, <3>4
    <2>6. x \in Parsed
      BY <2>1, <2>4, ElementOfSeq
    <2>7. \/ x = Ev(r.time, "sol_update", r.q, r.mark)
          \/ x = Ev(r.time, "set_rwnd", r.q, r.mark)
          \/ r.enable_dedup > 0 /\ x = Ev(Thawed(r), "set_dedup", r.q, 1)
          \/ r.enable_dedup > 0 /\ x = Ev(Thawed(r) + r.smooth_ms, "set_dedup", r.q, 0)
          \/ x = Ev(Thawed(r), "set_burst", r.q, 1)
          \/ x = Ev(Done(r), "set_burst", r.q, 0)
          \/ x = Ev(Done(r), "set_adapt", r.q, 1)
      BY <2>2, <2>5 DEF SolPlaces
    <2>8. /\ r.time <= Thawed(r) /\ Thawed(r) <= Done(r) /\ Done(r) <= LastTime(r)
          /\ r.enable_dedup > 0 => Thawed(r) + r.smooth_ms <= LastTime(r)
          /\ r.time \in Nat /\ Thawed(r) \in Nat /\ Done(r) \in Nat /\ LastTime(r) \in Nat
          /\ r.smooth_ms \in Nat
      <3>1. /\ r.time \in Nat /\ r.freeze_ms \in Nat /\ r.burst_duration \in Nat
            /\ r.smooth_ms \in Nat
        BY <2>1 DEF SolRows
      <3>2. Thawed(r) = r.time + r.freeze_ms /\ Done(r) = r.time + r.freeze_ms + r.burst_duration
        BY DEF Thawed, Done
      <3>3. LastTime(r) = IF r.enable_dedup > 0 /\ r.smooth_ms > r.burst_duration
                            THEN Thawed(r) + r.smooth_ms ELSE Done(r)
        BY <1>3 DEF LastTime
      <3> QED BY <3>1, <3>2, <3>3
    <2>9. r.time <= x.time /\ x.time <= LastTime(r) /\ x.q = r.q
      BY <2>7, <2>8 DEF Ev
    <2>10. /\ x.act \in {"sol_update", "set_rwnd", "set_dedup", "set_burst", "set_adapt"}
           /\ x.arg \in Nat /\ (x.act = "sol_update" => x.arg \in Links)
      BY <2>1, <2>7 DEF Ev, SolRows, Links
    <2> QED BY <1>3, <2>4, <2>6, <2>9, <2>10 DEF s, Users
  <1>4. CASE r.ev \notin {"INIT", "HO", "SOL_HO"}
    <2>1. /\ r.ev \in {"SOL_HANDLEDUP", "SOL_INIT_SCHED", "CMD", "UNKNOWN"} /\ r.time \in Nat
          /\ r.q \in Queues /\ (r.ev = "SOL_HANDLEDUP" => r.enable \in {0, 1})
      BY <1>4, RowKinds DEF DupRows
    <2>2. /\ s \in Seq(Parsed)
          /\ r.ev = "UNKNOWN" => Len(s) = 0
          /\ r.ev # "UNKNOWN" => Len(s) = 1
          /\ r.ev = "CMD" => s[1] = Ev(r.time, "command", 0, 0)
          /\ r.ev = "SOL_HANDLEDUP" => s[1] = Ev(r.time, "set_dedup", r.q, r.enable)
          /\ r.ev = "SOL_INIT_SCHED" =>
                 /\ s[1].arg \in Sched /\ s[1].act = "init_tcp_sched"
                 /\ s[1].time = r.time /\ s[1].q = r.q
      BY <2>1, OtherEvents
    <2> HIDE DEF s
    <2>3. DOMAIN s = 1 .. Len(s)
      BY <2>2, LenProperties
    <2>4. j \in 1 .. Len(s)
      BY <2>3 DEF s
    <2>5. j = 1 /\ r.ev # "UNKNOWN"
      <3>1. CASE r.ev = "UNKNOWN"
        <4>1. Len(s) = 0
          BY <2>2, <3>1
        <4>2. j \in 1 .. 0
          BY <2>4, <4>1
        <4> QED BY <4>2
      <3>2. CASE r.ev # "UNKNOWN"
        <4>1. Len(s) = 1
          BY <2>2, <3>2
        <4>2. j \in 1 .. 1
          BY <2>4, <4>1
        <4> QED BY <3>2, <4>2
      <3> QED BY <3>1, <3>2
    <2>6. x \in Parsed
      BY <2>2, <2>4, ElementOfSeq
    <2>7. LastTime(r) = r.time
      BY <1>4 DEF LastTime
    <2> QED BY <1>4, <2>1, <2>2, <2>5, <2>6, <2>7 DEF Ev, s, Users
  <1> QED BY <1>1, <1>2, <1>3, <1>4

-----------------------------------------------------------------------------
(* The events of a trace and their order. *)

\* Event j of row k, as it is in the table.
At(k, j) ==
    [time |-> parse_event(trace[k])[j].time, act |-> parse_event(trace[k])[j].act,
     q |-> parse_event(trace[k])[j].q, arg |-> parse_event(trace[k])[j].arg, idx |-> <<k, j>>]

\* A trace is a sequence of rows, and a row expands into a sequence.
LEMMA TraceRows ==
    ASSUME trace \in Traces
    PROVE  /\ trace \in Seq(Row) /\ Len(trace) \in Nat /\ DOMAIN trace = 1 .. Len(trace)
           /\ \A k \in DOMAIN trace : trace[k] \in Row
           /\ \A k \in DOMAIN trace : /\ Len(parse_event(trace[k])) \in Nat
                                      /\ DOMAIN parse_event(trace[k]) = 1 .. Len(parse_event(trace[k]))
  <1>1. trace \in Seq(Row)
    BY EmulatorAssumption
  <1>2. Len(trace) \in Nat /\ DOMAIN trace = 1 .. Len(trace)
    BY <1>1, LenProperties
  <1>3. ASSUME NEW k \in DOMAIN trace PROVE trace[k] \in Row
    BY <1>1, <1>2, ElementOfSeq
  <1>4. ASSUME NEW k \in DOMAIN trace
        PROVE  /\ Len(parse_event(trace[k])) \in Nat
               /\ DOMAIN parse_event(trace[k]) = 1 .. Len(parse_event(trace[k]))
    <2>1. trace[k] \in Row
      BY <1>3
    <2>2. parse_event(trace[k]) \in Seq(Parsed)
      BY <2>1, RowKinds, InitEvents, HoEvents, SolEvents, OtherEvents
    <2> QED BY <2>2, LenProperties
  <1> QED BY <1>1, <1>2, <1>3, <1>4

\* The events of the trace are those of its rows.
LEMMA ExpansionIs ==
    ASSUME trace \in Traces
    PROVE  \A e : e \in Expansion <=>
              \E k \in DOMAIN trace : \E j \in DOMAIN parse_event(trace[k]) : e = At(k, j)
  <1>1. \A k \in DOMAIN trace :
           scheduled(k, Len(parse_event(trace[k]))) = {At(k, j) : j \in DOMAIN parse_event(trace[k])}
    BY TraceRows DEF scheduled, At
  <1> QED BY <1>1 DEF Expansion

\* An event of the trace: its row, its place in it, and its handler.
LEMMA EventFacts ==
    ASSUME trace \in Traces, NEW e \in Expansion
    PROVE  \E k \in DOMAIN trace : \E j \in DOMAIN parse_event(trace[k]) :
              /\ e = At(k, j) /\ e.idx = <<k, j>> /\ e.idx[1] = k /\ e.idx[2] = j
              /\ k \in Nat /\ j \in Nat \ {0} /\ trace[k] \in Row
              /\ e.time = parse_event(trace[k])[j].time /\ e.act = parse_event(trace[k])[j].act
              /\ e.q = parse_event(trace[k])[j].q /\ e.arg = parse_event(trace[k])[j].arg
              /\ e.time \in Nat /\ e.act \in Acts /\ e.time < NoFire
  <1>1. PICK k \in DOMAIN trace : \E j \in DOMAIN parse_event(trace[k]) : e = At(k, j)
    BY ExpansionIs
  <1>2. PICK j \in DOMAIN parse_event(trace[k]) : e = At(k, j)
    BY <1>1
  <1>3. trace[k] \in Row /\ k \in Nat
    BY TraceRows
  <1>4. parse_event(trace[k])[j] \in Parsed /\ j \in Nat \ {0}
    BY <1>3, EventOfRow
  <1>5. parse_event(trace[k])[j].time < NoFire
    BY EmulatorAssumption
  <1>6. /\ e.idx = <<k, j>> /\ e.idx[1] = k /\ e.idx[2] = j
        /\ e.time = parse_event(trace[k])[j].time /\ e.act = parse_event(trace[k])[j].act
        /\ e.q = parse_event(trace[k])[j].q /\ e.arg = parse_event(trace[k])[j].arg
    BY <1>2 DEF At
  <1>7. e.time \in Nat /\ e.act \in Acts
    BY <1>4, <1>6 DEF Parsed
  <1> QED BY <1>2, <1>3, <1>4, <1>5, <1>6, <1>7

Lt(a, b) == scheduler_compare_event(a, b)

\* The comparator orders the events of a trace strictly and totally.
LEMMA Order ==
    ASSUME trace \in Traces
    PROVE  /\ \A e, f \in Expansion : e = f \/ Lt(e, f) \/ Lt(f, e)
           /\ \A e, f \in Expansion : ~(Lt(e, f) /\ Lt(f, e))
           /\ \A e \in Expansion : ~Lt(e, e)
           /\ \A e, f, g \in Expansion : Lt(e, f) /\ Lt(f, g) => Lt(e, g)
           /\ \A e, f \in Expansion : Lt(e, f) => e.time <= f.time
  <1>1. \A e \in Expansion : e.time \in Nat /\ e.idx[1] \in Nat /\ e.idx[2] \in Nat
    BY EventFacts
  <1>2. \A e, f \in Expansion : e.idx[1] = f.idx[1] /\ e.idx[2] = f.idx[2] => e = f
    BY EventFacts
  <1>3. ASSUME NEW e \in Expansion, NEW f \in Expansion
        PROVE  /\ e = f \/ Lt(e, f) \/ Lt(f, e)
               /\ ~(Lt(e, f) /\ Lt(f, e))
               /\ ~Lt(e, e)
               /\ Lt(e, f) => e.time <= f.time
    BY <1>1, <1>2 DEF Lt, scheduler_compare_event, added_before
  <1>4. ASSUME NEW e \in Expansion, NEW f \in Expansion, NEW g \in Expansion
        PROVE  Lt(e, f) /\ Lt(f, g) => Lt(e, g)
    BY <1>1 DEF Lt, scheduler_compare_event, added_before
  <1> QED BY <1>3, <1>4

\* The events of one row: as many as the parser adds.
LEMMA EventsOfOneRow ==
    ASSUME trace \in Traces, NEW k \in DOMAIN trace
    PROVE  LET n == Len(parse_event(trace[k]))
           IN  /\ n \in Nat
               /\ IsFiniteSet(scheduled(k, n)) /\ Cardinality(scheduled(k, n)) = n
               /\ scheduled(k, n) = {e \in Expansion : e.idx[1] = k}
  <1> DEFINE n == Len(parse_event(trace[k]))
             S == scheduled(k, n)
             f == [j \in 1 .. n |-> At(k, j)]
  <1>1. n \in Nat /\ DOMAIN parse_event(trace[k]) = 1 .. n
    BY TraceRows
  <1>2. S = {At(k, j) : j \in 1 .. n}
    BY DEF scheduled, At
  <1>3. \A j \in 1 .. n : At(k, j).idx[1] = k /\ At(k, j).idx[2] = j
    BY DEF At
  <1> HIDE DEF n, S
  <1>4. f \in [1 .. n -> S]
    BY <1>2
  <1>5. \A i, j \in 1 .. n : f[i] = f[j] => i = j
    BY <1>3
  <1>6. \A e \in S : \E j \in 1 .. n : f[j] = e
    BY <1>2
  <1>7. f \in Bijection(1 .. n, S)
    BY <1>4, <1>5, <1>6, Zenon DEF Bijection, Injection, Surjection, IsInjective
  <1>8. IsFiniteSet(1 .. n) /\ Cardinality(1 .. n) = n
    BY <1>1, FS_Interval
  <1>9. IsFiniteSet(S) /\ Cardinality(S) = n
    <2>1. ExistsBijection(1 .. n, S)
      BY <1>7 DEF ExistsBijection
    <2> QED BY <1>8, <2>1, FS_Bijection
  <1>10. S \subseteq {e \in Expansion : e.idx[1] = k}
    BY <1>1, <1>2, <1>3, ExpansionIs
  <1>11. {e \in Expansion : e.idx[1] = k} \subseteq S
    <2> SUFFICES ASSUME NEW e \in Expansion, e.idx[1] = k PROVE e \in S
      OBVIOUS
    <2>1. PICK l \in DOMAIN trace : \E j \in DOMAIN parse_event(trace[l]) :
             e = At(l, j) /\ e.idx[1] = l
      BY EventFacts
    <2>2. l = k
      BY <2>1
    <2> QED BY <1>1, <1>2, <2>1, <2>2
  <1> QED BY <1>1, <1>9, <1>10, <1>11 DEF n, S

\* A trace has finitely many events.
LEMMA ExpansionFinite ==
    ASSUME trace \in Traces
    PROVE  IsFiniteSet(Expansion)
  <1> DEFINE R(k) == scheduled(k, Len(parse_event(trace[k])))
             T == {R(k) : k \in DOMAIN trace}
             f == [k \in DOMAIN trace |-> R(k)]
  <1>1. \A k \in DOMAIN trace : IsFiniteSet(R(k))
    BY EventsOfOneRow
  <1>2. Expansion = UNION T
    BY DEF Expansion
  <1> HIDE DEF R
  <1>3. f \in Surjection(DOMAIN trace, T)
    BY DEF Surjection
  <1>4. IsFiniteSet(DOMAIN trace)
    BY TraceRows, FS_Interval
  <1>5. IsFiniteSet(T)
    BY <1>3, <1>4, FS_Surjection
  <1>6. \A t \in T : IsFiniteSet(t)
    BY <1>1
  <1> HIDE DEF T
  <1> QED BY <1>2, <1>5, <1>6, FS_UNION

-----------------------------------------------------------------------------
(* Lifetimes: between which events of its INIT row an event is. *)

\* The two ends of the lifetime that row i opens.
Opening(i) == At(i, 1)
Closing(i) == At(i, 2)

\* The events that open and close the queue of an INIT row.
LEMMA Ends ==
    ASSUME trace \in Traces, NEW i \in DOMAIN trace, trace[i].ev = "INIT"
    PROVE  /\ trace[i].q \in Queues /\ i \in Rows("INIT", trace[i].q) /\ i \in Nat
           /\ trace[i].time \in Nat /\ trace[i].end \in Nat
           /\ Opening(i) \in Expansion /\ Opening(i).act = "init_nfqueue"
           /\ Opening(i).q = trace[i].q /\ Opening(i).time = trace[i].time
           /\ Opening(i).idx = <<i, 1>>
           /\ Closing(i) \in Expansion /\ Closing(i).act = "teardown_nfqueue"
           /\ Closing(i).q = trace[i].q /\ Closing(i).time = trace[i].end
           /\ Closing(i).idx = <<i, 2>>
  <1> DEFINE r == trace[i]
             s == parse_event(r)
  <1>1. r \in Row /\ r.ev = "INIT" /\ i \in Nat
    BY TraceRows
  <1>2. r \in InitRows
    BY <1>1, RowKinds
  <1>3. /\ Len(s) = 3 + (IF r.mark > 0 THEN 1 ELSE 0)
        /\ s[1] = Ev(r.time, "init_nfqueue", r.q, 0)
        /\ s[2] = Ev(r.end, "teardown_nfqueue", r.q, 0)
    BY <1>1, InitEvents
  <1>4. DOMAIN s = 1 .. Len(s)
    BY TraceRows
  <1>5. 1 \in DOMAIN s /\ 2 \in DOMAIN s
    BY <1>2, <1>3, <1>4 DEF InitRows
  <1>6. At(i, 1) \in Expansion /\ At(i, 2) \in Expansion
    BY <1>5, ExpansionIs
  <1>7. /\ s[1].act = "init_nfqueue" /\ s[1].q = r.q /\ s[1].time = r.time
        /\ s[2].act = "teardown_nfqueue" /\ s[2].q = r.q /\ s[2].time = r.end
    BY <1>3 DEF Ev
  <1>8. i \in Rows("INIT", r.q) /\ r.q \in Queues /\ r.time \in Nat /\ r.end \in Nat
    BY <1>1, <1>2 DEF Rows, InitRows
  <1> HIDE DEF s
  <1> QED BY <1>1, <1>6, <1>7, <1>8 DEF Opening, Closing, At, s

\* A queue is opened by one row.
LEMMA OneOpening ==
    ASSUME trace \in Traces, Lifetimes, NEW i \in DOMAIN trace, NEW j \in DOMAIN trace,
           trace[i].ev = "INIT", trace[j].ev = "INIT", trace[i].q = trace[j].q
    PROVE  i = j
  <1>1. i \in Rows("INIT", trace[i].q) /\ j \in Rows("INIT", trace[i].q) /\ trace[i].q \in Used
    BY Ends DEF Rows, Used
  <1> QED BY <1>1 DEF Lifetimes

\* Every event of a queue lies between the two ends of its queue's lifetime.
LEMMA WithinLifetime ==
    ASSUME trace \in Traces, Lifetimes, NEW e \in Expansion, e.act # "command"
    PROVE  /\ e.q \in Queues
           /\ \E i \in DOMAIN trace :
                 /\ trace[i].ev = "INIT" /\ trace[i].q = e.q
                 /\ e.act = "init_nfqueue" => e = Opening(i)
                 /\ e.act # "init_nfqueue" => Lt(Opening(i), e)
                 /\ e.act = "teardown_nfqueue" => e = Closing(i)
                 /\ e.act # "teardown_nfqueue" => e.time < Closing(i).time /\ Lt(e, Closing(i))
  <1>0. PICK k \in DOMAIN trace : \E j \in DOMAIN parse_event(trace[k]) :
           /\ e = At(k, j) /\ e.idx = <<k, j>> /\ e.idx[1] = k /\ e.idx[2] = j
           /\ k \in Nat /\ j \in Nat \ {0} /\ trace[k] \in Row
           /\ e.time = parse_event(trace[k])[j].time /\ e.act = parse_event(trace[k])[j].act
           /\ e.q = parse_event(trace[k])[j].q /\ e.arg = parse_event(trace[k])[j].arg
           /\ e.time \in Nat
    BY EventFacts
  <1>1. PICK j \in DOMAIN parse_event(trace[k]) :
           /\ e = At(k, j) /\ e.idx = <<k, j>> /\ e.idx[1] = k /\ e.idx[2] = j
           /\ k \in Nat /\ j \in Nat \ {0} /\ trace[k] \in Row
           /\ e.time = parse_event(trace[k])[j].time /\ e.act = parse_event(trace[k])[j].act
           /\ e.q = parse_event(trace[k])[j].q /\ e.arg = parse_event(trace[k])[j].arg
           /\ e.time \in Nat
    BY <1>0
  <1> DEFINE r == trace[k]
  <1>2. /\ r \in Row /\ r.time \in Nat /\ r.q \in Queues
    BY <1>1, RowKinds
  <1>3. /\ r.ev = "CMD" => e.act = "command"
        /\ r.ev # "CMD" => e.q = r.q
        /\ r.ev \in Users \cup {"INIT", "CMD"}
        /\ r.ev = "INIT" => \/ j = 1 /\ e.act = "init_nfqueue" /\ e.time = r.time
                            \/ j = 2 /\ e.act = "teardown_nfqueue" /\ e.time = r.end
                            \/ j > 2 /\ e.act \in {"start_nfqueue", "set_mark"} /\ e.time = r.time
        /\ r.ev # "INIT" => e.act # "init_nfqueue" /\ e.act # "teardown_nfqueue"
        /\ r.ev \in Users => r.time <= e.time /\ e.time <= LastTime(r)
    BY <1>1, EventOfRow
  <1>4. e.q = r.q /\ e.q \in Queues
    BY <1>2, <1>3
  <1>5. CASE r.ev = "INIT"
    <2>1. /\ Opening(k).time = r.time /\ Closing(k).time = r.end /\ r.end \in Nat
          /\ Opening(k).idx = <<k, 1>> /\ Closing(k).idx = <<k, 2>>
      BY <1>5, Ends
    <2>2. r.time < r.end
      BY <1>5 DEF Lifetimes
    <2>3. CASE j = 1 /\ e.act = "init_nfqueue" /\ e.time = r.time
      <3>1. e = Opening(k)
        BY <1>1, <2>3 DEF Opening
      <3>2. e.time < Closing(k).time /\ Lt(e, Closing(k))
        BY <2>1, <2>2, <2>3 DEF Lt, scheduler_compare_event
      <3> QED BY <1>4, <1>5, <2>3, <3>1, <3>2
    <2>4. CASE j = 2 /\ e.act = "teardown_nfqueue" /\ e.time = r.end
      <3>1. e = Closing(k)
        BY <1>1, <2>4 DEF Closing
      <3>2. Lt(Opening(k), e)
        BY <2>1, <2>2, <2>4 DEF Lt, scheduler_compare_event
      <3> QED BY <1>4, <1>5, <2>4, <3>1, <3>2
    <2>5. CASE j > 2 /\ e.act \in {"start_nfqueue", "set_mark"} /\ e.time = r.time
      <3>1. e.time < Closing(k).time /\ Lt(e, Closing(k))
        BY <2>1, <2>2, <2>5 DEF Lt, scheduler_compare_event
      <3>2. /\ Opening(k).idx[1] = k /\ Opening(k).idx[2] = 1 /\ e.idx[1] = k /\ e.idx[2] = j
            /\ 1 < j /\ Opening(k).time = e.time
        BY <1>1, <2>1, <2>5
      <3>3. Lt(Opening(k), e)
        BY <3>2 DEF Lt, scheduler_compare_event, added_before
      <3> QED BY <1>4, <1>5, <2>5, <3>1, <3>3
    <2> QED BY <1>3, <1>5, <2>3, <2>4, <2>5
  <1>6. CASE r.ev \in Users
    <2>1. PICK i \in Rows("INIT", r.q) : Before(i, k) /\ LastTime(r) < trace[i].end
      BY <1>6 DEF Lifetimes, Users
    <2>2. i \in DOMAIN trace /\ trace[i].ev = "INIT" /\ trace[i].q = r.q
      BY <2>1 DEF Rows
    <2>3. /\ Opening(i).time = trace[i].time /\ Closing(i).time = trace[i].end
          /\ trace[i].time \in Nat /\ trace[i].end \in Nat /\ i \in Nat
          /\ Opening(i).idx = <<i, 1>> /\ Closing(i).idx = <<i, 2>>
      BY <2>2, Ends
    <2>4. LastTime(r) \in Nat
      <3>1. CASE r.ev = "HO"
        BY <1>2, <3>1, RowKinds DEF LastTime, HoRows
      <3>2. CASE r.ev = "SOL_HO"
        BY <1>2, <3>2, RowKinds DEF LastTime, Thawed, Done, SolRows
      <3>3. CASE r.ev \notin {"HO", "SOL_HO"}
        BY <1>2, <3>3 DEF LastTime
      <3> QED BY <3>1, <3>2, <3>3
    <2>5. e.time < Closing(i).time
      BY <1>1, <1>3, <1>6, <2>1, <2>3, <2>4
    <2>6. Lt(e, Closing(i))
      BY <2>5 DEF Lt, scheduler_compare_event
    <2>7. trace[i].time < r.time \/ (trace[i].time = r.time /\ i < k)
      BY <2>1 DEF Before
    <2>8. Opening(i).idx[1] = i /\ e.idx[1] = k
      BY <1>1, <2>3
    <2>9. Opening(i).time < e.time \/ (Opening(i).time = e.time /\ i < k)
      BY <1>1, <1>2, <1>3, <1>6, <2>3, <2>7
    <2>10. Lt(Opening(i), e)
      BY <2>8, <2>9 DEF Lt, scheduler_compare_event, added_before
    <2>11. e.act # "init_nfqueue" /\ e.act # "teardown_nfqueue"
      BY <1>3, <1>6 DEF Users
    <2> QED BY <1>4, <2>2, <2>5, <2>6, <2>10, <2>11
  <1> QED BY <1>3, <1>5, <1>6

-----------------------------------------------------------------------------
(* The inductive invariant. *)

Phases == {"parse", "run", "done", "crashed"}

\* The events that have run.
Ran == IF phase = "parse" THEN {} ELSE Expansion \ events

TypeInv ==
    /\ trace \in Traces /\ line \in 0 .. Len(trace)
    /\ phase \in Phases /\ events \subseteq Expansion /\ now \in Nat
    /\ queues \in [Queues -> {"none", "bound", "gone"}]
    /\ wkctx \in Queues \cup {NoWorker, Destroyed}
    /\ fire \in Nat /\ sample_interval \in Nat /\ link \in Links /\ params \in Sched

\* While the rows are read the table holds the events of the rows so far; none
\* of them is missing.
TableInv ==
    /\ phase = "parse" => /\ count = Cardinality(events) /\ now = 0
                          /\ events = {e \in Expansion : e.idx[1] <= line}
    /\ phase = "run" => events # {}

\* What has run is before what has not, in the order of the table.
OrderInv ==
    /\ \A d \in Ran, e \in events : Lt(d, e)
    /\ \A d \in Ran : d.time <= now
    /\ \A e \in events : now <= e.time

\* A queue is what the events of its INIT row that have run made it.
QueueInv ==
    \A i \in DOMAIN trace : trace[i].ev = "INIT" =>
        /\ queues[trace[i].q] # "none" <=> Opening(i) \in Ran
        /\ queues[trace[i].q] = "gone" <=> Closing(i) \in Ran

\* A sampler without a worker is not due before any event: it was not
\* configured, or its queue is closed and only the end of the trace is left.
SamplerInv ==
    /\ phase = "parse" => wkctx = NoWorker
    /\ wkctx = NoWorker => fire = NoFire
    /\ wkctx \in Queues => Rows("SOL_INIT_SCHED", wkctx) # {}
    /\ wkctx = Destroyed =>
          \A e \in events : e.time < next_sample /\ e.act \in {"command", "teardown_nfqueue"}

ContextInv == TypeInv /\ TableInv /\ OrderInv /\ QueueInv /\ SamplerInv /\ phase # "crashed"

-----------------------------------------------------------------------------
(* What one step does to it. *)

\* The trace is an input: what is defined from it alone does not change.
LEMMA Fixed ==
    ASSUME trace' = trace
    PROVE  /\ Expansion' = Expansion /\ (Lifetimes <=> Lifetimes')
           /\ \A k, j : At(k, j)' = At(k, j)
           /\ \A i : Opening(i)' = Opening(i) /\ Closing(i)' = Closing(i)
           /\ \A kind, q : Rows(kind, q)' = Rows(kind, q)
  <1>1. Expansion' = Expansion
    BY DEF Expansion, scheduled
  <1>2. \A k, j : At(k, j)' = At(k, j)
    BY DEF At
  <1>3. \A kind, q : Rows(kind, q)' = Rows(kind, q)
    BY DEF Rows
  <1>4. Lifetimes <=> Lifetimes'
    <2>1. Used' = Used /\ (\A i, k : Before(i, k)' <=> Before(i, k))
      BY <1>3 DEF Used, Before
    <2> QED BY <1>1, <1>3, <2>1 DEF Lifetimes
  <1> QED BY <1>1, <1>2, <1>3, <1>4 DEF Opening, Closing

\* What the arguments of the controller's events are.
LEMMA Arguments ==
    ASSUME trace \in Traces, NEW e \in Expansion
    PROVE  /\ e.act = "init_tcp_sched" => e.arg \in Sched /\ Rows("SOL_INIT_SCHED", e.q) # {}
           /\ e.act = "sol_update" => e.arg \in Links
           /\ e.act # "init_tcp_sched" => e.arg \in Nat
  <1>1. PICK k \in DOMAIN trace : \E j \in DOMAIN parse_event(trace[k]) :
           /\ trace[k] \in Row
           /\ e.act = parse_event(trace[k])[j].act
           /\ e.q = parse_event(trace[k])[j].q /\ e.arg = parse_event(trace[k])[j].arg
    BY EventFacts
  <1>2. PICK j \in DOMAIN parse_event(trace[k]) :
           /\ trace[k] \in Row
           /\ e.act = parse_event(trace[k])[j].act
           /\ e.q = parse_event(trace[k])[j].q /\ e.arg = parse_event(trace[k])[j].arg
    BY <1>1
  <1>3. /\ e.act = "init_tcp_sched" => trace[k].ev = "SOL_INIT_SCHED" /\ e.arg \in Sched
        /\ e.act = "sol_update" => e.arg \in Links
        /\ e.act # "init_tcp_sched" => e.arg \in Nat
        /\ trace[k].ev # "CMD" => e.q = trace[k].q
    BY <1>2, EventOfRow
  <1>4. e.act = "init_tcp_sched" => k \in Rows("SOL_INIT_SCHED", e.q)
    BY <1>3 DEF Rows
  <1> QED BY <1>3, <1>4

\* The earliest event is before every other that has not run.
LEMMA Earliest ==
    ASSUME TypeInv, phase = "run", NEW e \in earliest
    PROVE  /\ e \in events /\ e \in Expansion /\ e \notin Ran /\ Ran = Expansion \ events
           /\ \A f \in events : f = e \/ Lt(e, f)
           /\ \A f \in events : e.time \in Nat /\ f.time \in Nat /\ e.time <= f.time
  <1>1. e \in events /\ e \in Expansion /\ \A f \in events : f = e \/ Lt(e, f)
    BY DEF earliest, TypeInv, Lt
  <1>2. Ran = Expansion \ events
    BY DEF Ran
  <1>3. \A f \in events : f \in Expansion /\ f.time \in Nat
    BY EventFacts DEF TypeInv
  <1>4. \A f \in events : Lt(e, f) => e.time <= f.time
    BY <1>1, <1>3, Order DEF TypeInv
  <1> QED BY <1>1, <1>2, <1>3, <1>4

\* A handler is called while its queue is open, and a bind while it is not yet.
LEMMA Called ==
    ASSUME ContextInv, Lifetimes, phase = "run", NEW e \in earliest, e.act # "command"
    PROVE  /\ e.q \in Queues
           /\ queues[e.q] = IF e.act = "init_nfqueue" THEN "none" ELSE "bound"
  <1>1. trace \in Traces /\ TypeInv /\ QueueInv
    BY DEF ContextInv, TypeInv
  <1>2. /\ e \in events /\ e \in Expansion /\ e \notin Ran /\ Ran = Expansion \ events
        /\ \A f \in events : f = e \/ Lt(e, f)
    BY <1>1, Earliest
  <1>3. e.q \in Queues
    BY <1>1, <1>2, WithinLifetime
  <1>4. PICK i \in DOMAIN trace :
           /\ trace[i].ev = "INIT" /\ trace[i].q = e.q
           /\ e.act = "init_nfqueue" => e = Opening(i)
           /\ e.act # "init_nfqueue" => Lt(Opening(i), e)
           /\ e.act = "teardown_nfqueue" => e = Closing(i)
           /\ e.act # "teardown_nfqueue" => Lt(e, Closing(i))
    BY <1>1, <1>2, WithinLifetime
  <1>5. Opening(i) \in Expansion /\ Closing(i) \in Expansion
    BY <1>1, <1>4, Ends
  <1>6. /\ queues[e.q] # "none" <=> Opening(i) \in Ran
        /\ queues[e.q] = "gone" <=> Closing(i) \in Ran
        /\ queues[e.q] \in {"none", "bound", "gone"}
    BY <1>1, <1>3, <1>4 DEF QueueInv, TypeInv
  <1>7. e.act = "init_nfqueue" => Opening(i) \notin Ran
    BY <1>2, <1>4
  <1>8. e.act # "init_nfqueue" => Opening(i) \in Ran
    BY <1>1, <1>2, <1>4, <1>5, Order
  <1>9. Closing(i) \notin Ran
    <2>1. CASE e.act = "teardown_nfqueue"
      BY <1>2, <1>4, <2>1
    <2>2. CASE e.act # "teardown_nfqueue"
      <3>1. Lt(e, Closing(i))
        BY <1>4, <2>2
      <3>2. Closing(i) \in Ran => Lt(Closing(i), e)
        BY <1>2 DEF ContextInv, OrderInv
      <3> QED BY <1>1, <1>2, <1>5, <3>1, <3>2, Order
    <2> QED BY <2>1, <2>2
  <1> QED BY <1>3, <1>6, <1>7, <1>8, <1>9

\* Whatever the handler does, its event moves from the events to what has run.
LEMMA Moved ==
    ASSUME ContextInv, phase = "run", NEW e \in earliest, Finish(e)
    PROVE  /\ trace' = trace /\ line' \in 0 .. Len(trace') /\ phase' \in {"run", "done"}
           /\ events' \subseteq Expansion' /\ now' \in Nat
           /\ Ran' = Ran \cup {e} /\ TableInv' /\ OrderInv'
           /\ events' = events \ {e}
  <1>1. trace \in Traces /\ TypeInv /\ OrderInv
    BY DEF ContextInv, TypeInv
  <1>2. /\ e \in events /\ e \in Expansion /\ e \notin Ran /\ Ran = Expansion \ events
        /\ \A f \in events : f = e \/ Lt(e, f)
        /\ \A f \in events : e.time \in Nat /\ f.time \in Nat /\ e.time <= f.time
    BY <1>1, Earliest
  <1>3. /\ trace' = trace /\ line' = line /\ phase' \in {"run", "done"}
        /\ events' = events \ {e} /\ now' = e.time
        /\ phase' = "run" => events' # {}
    BY DEF Finish
  <1>4. Expansion' = Expansion
    BY <1>3, Fixed
  <1>5. Ran' = Expansion' \ events'
    BY <1>3 DEF Ran
  <1>6. Ran' = Ran \cup {e}
    BY <1>2, <1>3, <1>4, <1>5
  <1>7. TableInv'
    BY <1>3 DEF TableInv
  <1>8. OrderInv'
    <2>1. \A d \in Ran', f \in events' : Lt(d, f)
      BY <1>1, <1>2, <1>3, <1>6 DEF OrderInv
    <2>2. \A d \in Ran' : d.time <= now'
      <3>1. \A d \in Ran : d.time <= now /\ d \in Expansion
        BY <1>1, <1>2 DEF OrderInv
      <3>2. \A d \in Ran : d.time \in Nat
        BY <1>1, <3>1, EventFacts
      <3>3. now <= e.time /\ now \in Nat
        BY <1>1, <1>2 DEF OrderInv, TypeInv
      <3> QED BY <1>2, <1>3, <1>6, <3>1, <3>2, <3>3
    <2>3. \A f \in events' : now' <= f.time
      BY <1>2, <1>3
    <2> QED BY <2>1, <2>2, <2>3 DEF OrderInv
  <1>9. line' \in 0 .. Len(trace') /\ events' \subseteq Expansion' /\ now' \in Nat
    BY <1>1, <1>2, <1>3, <1>4 DEF TypeInv
  <1> QED BY <1>3, <1>6, <1>7, <1>8, <1>9

\* An event that opens and closes nothing.
LEMMA QueuesKept ==
    ASSUME ContextInv, phase = "run", NEW e \in earliest, Finish(e), queues' = queues,
           e.act \notin {"init_nfqueue", "teardown_nfqueue"}
    PROVE  QueueInv'
  <1>1. trace' = trace /\ Ran' = Ran \cup {e} /\ trace \in Traces
    BY Moved DEF ContextInv, TypeInv
  <1> SUFFICES ASSUME NEW i \in DOMAIN trace, trace[i].ev = "INIT"
               PROVE  /\ queues[trace[i].q] # "none" <=> Opening(i) \in Ran'
                      /\ queues[trace[i].q] = "gone" <=> Closing(i) \in Ran'
    BY <1>1, Fixed DEF QueueInv
  <1>2. e # Opening(i) /\ e # Closing(i)
    BY <1>1, Ends
  <1> QED BY <1>1, <1>2 DEF ContextInv, QueueInv

\* A handler that leaves the sampler's worker alone.
LEMMA Quiet ==
    ASSUME ContextInv, Lifetimes, phase = "run", NEW e \in earliest, Finish(e),
           UNCHANGED <<queues, wkctx, fire, params>>,
           e.act \notin {"init_nfqueue", "teardown_nfqueue"},
           sample_interval' \in Nat, link' \in Links,
           e.act = "command" => sample_interval' = sample_interval
    PROVE  ContextInv'
  <1>1. /\ trace' = trace /\ line' \in 0 .. Len(trace') /\ phase' \in {"run", "done"}
        /\ events' \subseteq Expansion' /\ now' \in Nat
        /\ TableInv' /\ OrderInv' /\ events' = events \ {e}
    BY Moved
  <1>2. QueueInv'
    BY QueuesKept
  <1>3. TypeInv'
    BY <1>1 DEF ContextInv, TypeInv, Phases
  <1>4. SamplerInv'
    <2>1. wkctx' = Destroyed =>
             \A f \in events' : f.time < next_sample' /\ f.act \in {"command", "teardown_nfqueue"}
      <3> SUFFICES ASSUME wkctx = Destroyed
                   PROVE  \A f \in events' :
                             f.time < next_sample' /\ f.act \in {"command", "teardown_nfqueue"}
        OBVIOUS
      <3>1. \A f \in events : f.time < next_sample /\ f.act \in {"command", "teardown_nfqueue"}
        BY DEF ContextInv, SamplerInv
      <3>2. e \in events
        BY Earliest DEF ContextInv
      <3>3. next_sample' = next_sample
        BY <3>1, <3>2 DEF next_sample
      <3> QED BY <1>1, <3>1, <3>3
    <2>2. (wkctx = NoWorker => fire = NoFire)
          /\ (wkctx \in Queues => Rows("SOL_INIT_SCHED", wkctx) # {})
      BY DEF ContextInv, SamplerInv
    <2>4. wkctx' \in Queues => Rows("SOL_INIT_SCHED", wkctx') # {}
      BY <2>2
    <2>5. (wkctx \in Queues => Rows("SOL_INIT_SCHED", wkctx) # {})'
      BY <1>1, <2>4 DEF Rows
    <2> QED BY <1>1, <2>1, <2>2, <2>5 DEF SamplerInv
  <1> QED BY <1>1, <1>2, <1>3, <1>4 DEF ContextInv

\* The invariant holds before the first row is read.
LEMMA InitContext ==
    ASSUME Init
    PROVE  ContextInv
  <1>1. trace \in Traces /\ Len(trace) \in Nat /\ DOMAIN trace = 1 .. Len(trace)
    BY TraceRows DEF Init
  <1>2. \A e \in Expansion : e.idx[1] \in DOMAIN trace
    BY <1>1, EventFacts
  <1>3. events = {e \in Expansion : e.idx[1] <= line}
    BY <1>1, <1>2 DEF Init
  <1>4. TypeInv
    <2>1. params \in Sched
      BY EmulatorAssumption DEF Init
    <2> QED BY <1>1, <2>1, EmulatorAssumption DEF Init, TypeInv, Phases, Links
  <1>5. TableInv
    BY <1>3, FS_EmptySet DEF Init, TableInv
  <1>6. Ran = {} /\ OrderInv
    BY DEF Init, Ran, OrderInv
  <1>7. QueueInv
    BY <1>1, <1>6, Ends DEF Init, QueueInv
  <1>8. SamplerInv
    BY EmulatorAssumption DEF Init, SamplerInv, NoWorker, Destroyed
  <1> QED BY <1>4, <1>5, <1>6, <1>7, <1>8 DEF ContextInv, Init

\* Nothing is dropped: a trace that fits the table fits it row by row.
LEMMA RowFits ==
    ASSUME ContextInv, Lifetimes, phase = "parse", line < Len(trace)
    PROVE  LET n == Len(parse_event(trace[line + 1]))
           IN  /\ n \in Nat /\ fitting(n) = n
               /\ events \cup scheduled(line + 1, n) = {e \in Expansion : e.idx[1] <= line + 1}
               /\ Cardinality(events \cup scheduled(line + 1, n)) = count + n
  <1> DEFINE k == line + 1
             n == Len(parse_event(trace[k]))
             S == scheduled(k, n)
             T == events \cup S
  <1>1. /\ trace \in Traces /\ line \in Nat /\ Len(trace) \in Nat
        /\ DOMAIN trace = 1 .. Len(trace)
    BY TraceRows DEF ContextInv, TypeInv
  <1>2. k \in DOMAIN trace
    BY <1>1
  <1>3. /\ n \in Nat /\ IsFiniteSet(S) /\ Cardinality(S) = n
        /\ S = {e \in Expansion : e.idx[1] = k}
    BY <1>1, <1>2, EventsOfOneRow
  <1>4. count = Cardinality(events) /\ events = {e \in Expansion : e.idx[1] <= line}
    BY DEF ContextInv, TableInv
  <1>5. IsFiniteSet(Expansion)
    BY <1>1, ExpansionFinite
  <1>6. IsFiniteSet(events) /\ count \in Nat
    BY <1>4, <1>5, FS_Subset, FS_CardinalityType
  <1>7. \A e \in Expansion : e.idx[1] \in Nat
    BY <1>1, EventFacts
  <1> HIDE DEF S, n
  <1>8. events \cap S = {} /\ T = {e \in Expansion : e.idx[1] <= k}
    BY <1>1, <1>3, <1>4, <1>7
  <1>9. Cardinality(T) = count + n
    <2>1. Cardinality(T) = Cardinality(events) + Cardinality(S) - Cardinality(events \cap S)
      BY <1>3, <1>6, FS_Union
    <2>2. Cardinality(events \cap S) = 0
      BY <1>8, FS_EmptySet
    <2> QED BY <1>3, <1>4, <1>6, <2>1, <2>2
  <1>10. Cardinality(T) <= Cardinality(Expansion)
    BY <1>5, <1>8, FS_Subset
  <1>11. Cardinality(Expansion) <= SCHEDULER_MAX_EVENT /\ Cardinality(Expansion) \in Nat
    BY <1>5, FS_CardinalityType DEF Lifetimes
  <1>12. count + n <= SCHEDULER_MAX_EVENT
    BY <1>3, <1>6, <1>9, <1>10, <1>11, EmulatorAssumption
  <1>13. fitting(n) = n
    BY <1>12 DEF fitting
  <1> QED BY <1>3, <1>8, <1>9, <1>13 DEF n, S

\* Reading a row adds all its events, because the trace fits the table.
LEMMA ReadRow ==
    ASSUME ContextInv, Lifetimes, read_row
    PROVE  ContextInv'
  <1> DEFINE n == Len(parse_event(trace[line + 1]))
  <1>1. phase = "parse" /\ line < Len(trace) /\ trace' = trace /\ phase' = phase /\ now' = now
    BY DEF read_row
  <1>2. /\ trace \in Traces /\ line \in 0 .. Len(trace) /\ Len(trace) \in Nat
    BY TraceRows DEF ContextInv, TypeInv
  <1>3. /\ n \in Nat /\ fitting(n) = n
        /\ events \cup scheduled(line + 1, n) = {e \in Expansion : e.idx[1] <= line + 1}
        /\ Cardinality(events \cup scheduled(line + 1, n)) = count + n
    BY <1>1, RowFits
  <1>4. /\ line' = line + 1 /\ count' = count + fitting(n)
        /\ events' = events \cup scheduled(line + 1, fitting(n))
    BY DEF read_row
  <1> HIDE DEF n
  <1>5. /\ events' = {e \in Expansion : e.idx[1] <= line'} /\ count' = Cardinality(events')
    BY <1>3, <1>4
  <1>6. Expansion' = Expansion
    BY <1>1, Fixed
  <1>7. TableInv'
    BY <1>1, <1>5, <1>6 DEF TableInv, ContextInv
  <1>8. UNCHANGED state_vars
    BY DEF read_row
  <1>9. TypeInv'
    BY <1>1, <1>2, <1>4, <1>5, <1>6, <1>8
       DEF ContextInv, TypeInv, state_vars, tcp_vars
  <1>10. Ran' = {} /\ Ran = {}
    BY <1>1 DEF Ran
  <1>11. OrderInv'
    <2>1. now' = 0 /\ \A e \in events' : e \in Expansion
      BY <1>1, <1>5 DEF ContextInv, TableInv
    <2>2. \A e \in events' : e.time \in Nat
      BY <1>2, <2>1, EventFacts
    <2> QED BY <1>10, <2>1, <2>2 DEF OrderInv
  <1>12. QueueInv'
    BY <1>1, <1>8, <1>10, Fixed DEF ContextInv, QueueInv, state_vars
  <1>13. SamplerInv'
    <2>1. wkctx' = wkctx /\ fire' = fire
      BY <1>8 DEF state_vars, tcp_vars
    <2>2. wkctx # Destroyed
      BY <1>1 DEF ContextInv, SamplerInv, NoWorker, Destroyed
    <2> QED BY <1>1, <2>1, <2>2 DEF ContextInv, SamplerInv, Rows
  <1> QED BY <1>1, <1>7, <1>9, <1>11, <1>12, <1>13 DEF ContextInv

\* After the last row the table holds the whole trace.
LEMMA AllRead ==
    ASSUME ContextInv, phase = "parse", line = Len(trace)
    PROVE  events = Expansion
  <1>1. trace \in Traces /\ Len(trace) \in Nat /\ DOMAIN trace = 1 .. Len(trace)
    BY TraceRows DEF ContextInv, TypeInv
  <1>2. events = {e \in Expansion : e.idx[1] <= line}
    BY DEF ContextInv, TableInv
  <1>3. \A e \in Expansion : e.idx[1] \in DOMAIN trace
    BY <1>1, EventFacts
  <1> QED BY <1>1, <1>2, <1>3

\* Sorting the table runs nothing.
LEMMA SchedulerRun ==
    ASSUME ContextInv, Lifetimes, scheduler_run
    PROVE  ContextInv'
  <1>1. /\ phase = "parse" /\ line = Len(trace) /\ trace' = trace /\ now' = now /\ line' = line
        /\ events' = events /\ count' = count
        /\ phase' = IF events = {} THEN "done" ELSE "run"
    BY DEF scheduler_run
  <1>2. trace \in Traces /\ Len(trace) \in Nat /\ DOMAIN trace = 1 .. Len(trace)
    BY TraceRows DEF ContextInv, TypeInv
  <1>3. events = Expansion
    BY <1>1, AllRead
  <1>4. Expansion' = Expansion
    BY <1>1, Fixed
  <1>5. Ran = {} /\ Ran' = {}
    BY <1>1, <1>3, <1>4 DEF Ran
  <1>6. UNCHANGED state_vars
    BY DEF scheduler_run
  <1>7. TypeInv'
    BY <1>1, <1>4, <1>6 DEF ContextInv, TypeInv, Phases, state_vars, tcp_vars
  <1>8. TableInv'
    BY <1>1 DEF TableInv
  <1>9. OrderInv'
    BY <1>1, <1>5 DEF ContextInv, OrderInv
  <1>10. QueueInv'
    BY <1>1, <1>5, <1>6, Fixed DEF ContextInv, QueueInv, state_vars
  <1>11. SamplerInv'
    BY <1>1, <1>6 DEF ContextInv, SamplerInv, state_vars, tcp_vars, next_sample, Rows
  <1>12. phase' # "crashed"
    BY <1>1
  <1> QED BY <1>7, <1>8, <1>9, <1>10, <1>11, <1>12 DEF ContextInv

\* A bind opens the queue of its row; no other row opens it.
LEMMA Bind ==
    ASSUME ContextInv, Lifetimes, NEW e \in earliest, action_init_nfqueue(e)
    PROVE  ContextInv'
  <1>1. /\ phase = "run" /\ e.act = "init_nfqueue" /\ Finish(e)
        /\ queues' = [queues EXCEPT ![e.q] = "bound"]
        /\ UNCHANGED <<wkctx, fire, sample_interval, link, params>>
    BY DEF action_init_nfqueue, Due, tcp_vars
  <1>2. /\ trace' = trace /\ line' \in 0 .. Len(trace') /\ phase' \in {"run", "done"}
        /\ events' \subseteq Expansion' /\ now' \in Nat
        /\ Ran' = Ran \cup {e} /\ TableInv' /\ OrderInv' /\ events' = events \ {e}
    BY <1>1, Moved
  <1>3. TypeInv /\ trace \in Traces /\ e \in Expansion /\ e \notin Ran /\ e \in events
    BY <1>1, Earliest DEF ContextInv, TypeInv
  <1>4. e.q \in Queues /\ queues[e.q] = "none"
    BY <1>1, Called
  <1>5. PICK i \in DOMAIN trace : trace[i].ev = "INIT" /\ trace[i].q = e.q /\ e = Opening(i)
    BY <1>1, <1>3, WithinLifetime
  <1>6. QueueInv'
    <2> SUFFICES ASSUME NEW k \in DOMAIN trace, trace[k].ev = "INIT"
                 PROVE  /\ queues'[trace[k].q] # "none" <=> Opening(k) \in Ran'
                        /\ queues'[trace[k].q] = "gone" <=> Closing(k) \in Ran'
      BY <1>2, Fixed DEF QueueInv
    <2>1. /\ queues[trace[k].q] # "none" <=> Opening(k) \in Ran
          /\ queues[trace[k].q] = "gone" <=> Closing(k) \in Ran
      BY DEF ContextInv, QueueInv
    <2>2. trace[k].q \in Queues /\ Closing(k) # e /\ Opening(k).q = trace[k].q
      BY <1>1, <1>3, Ends
    <2>3. CASE trace[k].q = e.q
      <3>1. k = i
        BY <1>3, <1>5, <2>3, OneOpening
      <3>2. queues'[e.q] = "bound"
        BY <1>1, <1>3, <1>4 DEF TypeInv
      <3> QED BY <1>2, <1>4, <1>5, <2>1, <2>2, <2>3, <3>1, <3>2
    <2>4. CASE trace[k].q # e.q
      <3>1. queues'[trace[k].q] = queues[trace[k].q]
        BY <1>1, <1>3, <2>2, <2>4 DEF TypeInv
      <3> QED BY <1>2, <2>1, <2>2, <2>4, <3>1
    <2> QED BY <2>3, <2>4
  <1>7. TypeInv'
    BY <1>1, <1>2, <1>3 DEF TypeInv, Phases
  <1>8. SamplerInv'
    BY <1>1, <1>2 DEF ContextInv, SamplerInv, next_sample, Rows
  <1> QED BY <1>2, <1>6, <1>7, <1>8 DEF ContextInv

\* A teardown is the last event of its queue, and if the sampler watches the
\* queue nothing is due later.
LEMMA Teardown ==
    ASSUME ContextInv, Lifetimes, NEW e \in earliest, action_teardown_nfqueue(e)
    PROVE  ContextInv'
  <1>1. /\ phase = "run" /\ e.act = "teardown_nfqueue" /\ Finish(e) /\ e.time < next_sample
        /\ queues' = [queues EXCEPT ![e.q] = "gone"]
        /\ wkctx' = IF wkctx = e.q THEN Destroyed ELSE wkctx
        /\ UNCHANGED <<fire, sample_interval, link, params>>
    BY DEF action_teardown_nfqueue, Handle, Due
  <1>2. /\ trace' = trace /\ line' \in 0 .. Len(trace') /\ phase' \in {"run", "done"}
        /\ events' \subseteq Expansion' /\ now' \in Nat
        /\ Ran' = Ran \cup {e} /\ TableInv' /\ OrderInv' /\ events' = events \ {e}
    BY <1>1, Moved
  <1>3. /\ TypeInv /\ trace \in Traces /\ e \in Expansion /\ e \notin Ran /\ e \in events
        /\ \A f \in events : e.time \in Nat /\ f.time \in Nat /\ e.time <= f.time
    BY <1>1, Earliest DEF ContextInv, TypeInv
  <1>4. e.q \in Queues /\ queues[e.q] = "bound"
    BY <1>1, Called
  <1>5. PICK i \in DOMAIN trace : trace[i].ev = "INIT" /\ trace[i].q = e.q /\ e = Closing(i)
    BY <1>1, <1>3, WithinLifetime
  <1>6. QueueInv'
    <2> SUFFICES ASSUME NEW k \in DOMAIN trace, trace[k].ev = "INIT"
                 PROVE  /\ queues'[trace[k].q] # "none" <=> Opening(k) \in Ran'
                        /\ queues'[trace[k].q] = "gone" <=> Closing(k) \in Ran'
      BY <1>2, Fixed DEF QueueInv
    <2>1. /\ queues[trace[k].q] # "none" <=> Opening(k) \in Ran
          /\ queues[trace[k].q] = "gone" <=> Closing(k) \in Ran
      BY DEF ContextInv, QueueInv
    <2>2. trace[k].q \in Queues /\ Opening(k) # e /\ Closing(k).q = trace[k].q
      BY <1>1, <1>3, Ends
    <2>3. CASE trace[k].q = e.q
      <3>1. k = i
        BY <1>3, <1>5, <2>3, OneOpening
      <3>2. queues'[e.q] = "gone"
        BY <1>1, <1>3, <1>4 DEF TypeInv
      <3> QED BY <1>2, <1>4, <1>5, <2>1, <2>2, <2>3, <3>1, <3>2
    <2>4. CASE trace[k].q # e.q
      <3>1. queues'[trace[k].q] = queues[trace[k].q]
        BY <1>1, <1>3, <2>2, <2>4 DEF TypeInv
      <3> QED BY <1>2, <2>1, <2>2, <2>4, <3>1
    <2> QED BY <2>3, <2>4
  <1>7. TypeInv'
    BY <1>1, <1>2, <1>3 DEF TypeInv, Phases
  <1>8. SamplerInv'
    <2>1. CASE wkctx = e.q
      \* the watched queue is closed last: what is left is due now
      <3>1. PICK k \in Rows("SOL_INIT_SCHED", e.q) : TRUE
        BY <1>4, <2>1 DEF ContextInv, SamplerInv
      <3>2. k \in DOMAIN trace /\ trace[k].ev = "SOL_INIT_SCHED" /\ trace[k].q = e.q
        BY <3>1 DEF Rows
      <3>3. i \in Rows("INIT", e.q)
        BY <1>5 DEF Rows
      <3>4. \A f \in Expansion : f.time <= trace[i].end
        BY <3>2, <3>3 DEF Lifetimes
      <3>5. trace[i].end = e.time
        BY <1>3, <1>5, Ends
      <3>6. \A f \in events : f \in Expansion /\ f.time = e.time
        <4>1. \A f \in events : f \in Expansion
          BY <1>3 DEF TypeInv
        <4> QED BY <1>3, <3>4, <3>5, <4>1
      <3>7. ASSUME NEW f \in events
            PROVE  f.act \in {"command", "teardown_nfqueue"}
        <4> SUFFICES ASSUME f.act # "command", f.act # "teardown_nfqueue" PROVE FALSE
          OBVIOUS
        <4>1. f \in Expansion
          BY <3>6
        <4>2. PICK l \in DOMAIN trace : trace[l].ev = "INIT" /\ f.time < Closing(l).time
          BY <1>3, <4>1, WithinLifetime
        <4>3. Closing(l) \in Expansion /\ Closing(l).time \in Nat
          BY <1>3, <4>2, Ends
        <4>4. Closing(l).time <= e.time
          BY <3>4, <3>5, <4>3
        <4> QED BY <1>3, <3>6, <4>2, <4>3, <4>4
      <3>8. next_sample' = next_sample
        BY <1>1 DEF next_sample
      <3>9. wkctx' = Destroyed /\ Destroyed \notin Queues /\ Destroyed # NoWorker
        BY <1>1, <2>1, EmulatorAssumption DEF Destroyed, NoWorker
      <3>10. \A f \in events' : f.time < next_sample' /\ f.act \in {"command", "teardown_nfqueue"}
        BY <1>1, <1>2, <3>6, <3>7, <3>8
      <3> QED BY <1>2, <3>9, <3>10 DEF SamplerInv
    <2>2. CASE wkctx # e.q
      BY <1>1, <1>2, <2>2 DEF ContextInv, SamplerInv, next_sample, Rows
    <2> QED BY <2>1, <2>2
  <1> QED BY <1>2, <1>6, <1>7, <1>8 DEF ContextInv

\* Configuring the controller points it at an open queue.
LEMMA InitSched ==
    ASSUME ContextInv, Lifetimes, NEW e \in earliest, action_init_tcp_sched(e)
    PROVE  ContextInv'
  <1>1. /\ phase = "run" /\ e.act = "init_tcp_sched" /\ Finish(e)
        /\ wkctx' = e.q /\ fire' = e.arg.fire /\ sample_interval' = e.arg.rtt[1]
        /\ link' = 1 /\ params' = e.arg /\ queues' = queues
    BY DEF action_init_tcp_sched, Handle, Due
  <1>2. /\ trace' = trace /\ line' \in 0 .. Len(trace') /\ phase' \in {"run", "done"}
        /\ events' \subseteq Expansion' /\ now' \in Nat
        /\ TableInv' /\ OrderInv' /\ events' = events \ {e}
    BY <1>1, Moved
  <1>3. /\ TypeInv /\ trace \in Traces /\ e \in Expansion
    BY <1>1, Earliest DEF ContextInv, TypeInv
  <1>4. e.q \in Queues
    BY <1>1, Called
  <1>5. e.arg \in Sched /\ Rows("SOL_INIT_SCHED", e.q) # {}
    BY <1>1, <1>3, Arguments
  <1>6. QueueInv'
    BY <1>1, QueuesKept
  <1>7. TypeInv'
    <2>1. fire' \in Nat /\ sample_interval' \in Nat /\ link' \in Links /\ params' \in Sched
      BY <1>1, <1>5 DEF Sched, Links
    <2> QED BY <1>1, <1>2, <1>3, <1>4, <2>1 DEF TypeInv, Phases
  <1>8. SamplerInv'
    <2>1. wkctx' # NoWorker /\ wkctx' # Destroyed
      BY <1>1, <1>4, EmulatorAssumption DEF NoWorker, Destroyed
    <2>2. (Rows("SOL_INIT_SCHED", wkctx) # {})'
      BY <1>1, <1>2, <1>5 DEF Rows
    <2> QED BY <1>2, <2>1, <2>2 DEF SamplerInv
  <1> QED BY <1>2, <1>6, <1>7, <1>8 DEF ContextInv

\* When a sample is due, the worker it reads is there.
LEMMA Sample ==
    ASSUME ContextInv, Lifetimes, tcp_schedule
    PROVE  ContextInv' /\ phase' = "run" /\ wkctx \in Queues
  <1>1. /\ phase = "run" /\ (\A e \in events : e.time >= next_sample) /\ fire' = next_sample
        /\ now' = IF next_sample > now THEN next_sample ELSE now
        /\ UNCHANGED <<trace, line, events, count, queues, wkctx, sample_interval, link, params>>
    BY DEF tcp_schedule, fire_moved
  <1>2. /\ TypeInv /\ trace \in Traces /\ events # {} /\ next_sample \in Nat /\ now \in Nat
    BY <1>1 DEF ContextInv, TypeInv, TableInv, next_sample
  <1>3. \A e \in events : e \in Expansion /\ e.time \in Nat /\ e.time < NoFire
    BY <1>2, EventFacts DEF TypeInv
  <1>4. wkctx # NoWorker
    <2> SUFFICES ASSUME wkctx = NoWorker PROVE FALSE
      OBVIOUS
    <2>1. fire = NoFire /\ sample_interval \in Nat
      BY <1>2 DEF ContextInv, SamplerInv, TypeInv
    <2>2. NoFire <= next_sample
      BY <2>1, EmulatorAssumption DEF next_sample
    <2> QED BY <1>1, <1>2, <1>3, <2>2, EmulatorAssumption
  <1>5. wkctx # Destroyed
    <2> SUFFICES ASSUME wkctx = Destroyed PROVE FALSE
      OBVIOUS
    <2>1. \A e \in events : e.time < next_sample
      BY DEF ContextInv, SamplerInv
    <2> QED BY <1>1, <1>2, <1>3, <2>1
  <1>6. phase' = "run"
    BY <1>4, <1>5 DEF tcp_schedule
  <1>7. wkctx \in Queues
    BY <1>2, <1>4, <1>5 DEF TypeInv
  <1>8. Expansion' = Expansion /\ Ran' = Ran
    BY <1>1, <1>6, Fixed DEF Ran
  <1>9. now <= now' /\ now' \in Nat
    BY <1>1, <1>2
  <1>10. TypeInv'
    BY <1>1, <1>2, <1>6, <1>8, <1>9 DEF TypeInv, Phases
  <1>11. TableInv'
    BY <1>1, <1>2, <1>6 DEF TableInv
  <1>12. OrderInv'
    <2>1. \A d \in Ran : d.time \in Nat
      <3>1. \A d \in Ran : d \in Expansion
        BY <1>1 DEF Ran
      <3> QED BY <1>2, <3>1, EventFacts
    <2>2. \A d \in Ran' : d.time <= now'
      BY <1>2, <1>8, <1>9, <2>1 DEF ContextInv, OrderInv
    <2>3. \A e \in events' : now' <= e.time
      BY <1>1, <1>2, <1>3 DEF ContextInv, OrderInv
    <2> QED BY <1>1, <1>8, <2>2, <2>3 DEF ContextInv, OrderInv
  <1>13. QueueInv'
    BY <1>1, <1>8, Fixed DEF ContextInv, QueueInv
  <1>14. SamplerInv'
    <2>1. Rows("SOL_INIT_SCHED", wkctx) # {}
      BY <1>7 DEF ContextInv, SamplerInv
    <2>2. (Rows("SOL_INIT_SCHED", wkctx) # {})'
      BY <1>1, <2>1 DEF Rows
    <2> QED BY <1>1, <1>4, <1>5, <1>6, <2>2 DEF SamplerInv
  <1> QED BY <1>6, <1>7, <1>10, <1>11, <1>12, <1>13, <1>14 DEF ContextInv

\* No step changes the trace.
LEMMA TraceKept ==
    ASSUME [Next]_vars
    PROVE  trace' = trace
  <1>1. \A e : Handler(e) => trace' = trace
    BY DEF Handler, Queue, Faults, Solution, action_command, crash, action_init_nfqueue,
           action_start_nfqueue, action_stop_nfqueue, action_teardown_nfqueue, action_set_mark,
           action_set_drop, action_set_reorder, action_set_dedup, action_init_tcp_sched,
           action_sol_update, action_set_rwnd, action_set_burst, action_set_adapt, Handle, Finish
  <1>2. (Main \/ tcp_schedule \/ UNCHANGED vars) => trace' = trace
    BY DEF Main, read_row, scheduler_run, tcp_schedule, vars
  <1> QED BY <1>1, <1>2 DEF Next

\* A handler keeps the invariant, and is never called without its queue.
LEMMA HandlerKeeps ==
    ASSUME ContextInv, Lifetimes, NEW e \in earliest, Handler(e)
    PROVE  ContextInv' /\ ~crash(e) /\ phase = "run" /\ Finish(e)
  <1>1. phase = "run"
    BY DEF Handler, Queue, Faults, Solution, action_command, crash, action_init_nfqueue,
           action_start_nfqueue, action_stop_nfqueue, action_teardown_nfqueue, action_set_mark,
           action_set_drop, action_set_reorder, action_set_dedup, action_init_tcp_sched,
           action_sol_update, action_set_rwnd, action_set_burst, action_set_adapt, Handle, Due
  <1>2. ~crash(e)
    BY <1>1, Called DEF crash
  <1>3. Finish(e)
    BY <1>2
       DEF Handler, Queue, Faults, Solution, action_command, action_init_nfqueue,
           action_start_nfqueue, action_stop_nfqueue, action_teardown_nfqueue, action_set_mark,
           action_set_drop, action_set_reorder, action_set_dedup, action_init_tcp_sched,
           action_sol_update, action_set_rwnd, action_set_burst, action_set_adapt, Handle
  <1>4. ASSUME action_init_nfqueue(e)
        PROVE  ContextInv'
    BY <1>4, Bind
  <1>5. ASSUME action_teardown_nfqueue(e)
        PROVE  ContextInv'
    BY <1>5, Teardown
  <1>6. ASSUME action_init_tcp_sched(e)
        PROVE  ContextInv'
    BY <1>6, InitSched
  <1>7. ASSUME \/ action_start_nfqueue(e) \/ action_stop_nfqueue(e) \/ Faults(e)
               \/ action_set_dedup(e) \/ action_set_rwnd(e) \/ action_command(e)
        PROVE  ContextInv'
    <2>1. /\ UNCHANGED <<queues, wkctx, fire, sample_interval, link, params>>
          /\ e.act \notin {"init_nfqueue", "teardown_nfqueue"}
      BY <1>7
         DEF Faults, action_start_nfqueue, action_stop_nfqueue, action_set_mark, action_set_drop,
             action_set_reorder, action_set_dedup, action_set_rwnd, action_command, Handle, Due,
             tcp_vars, state_vars
    <2>2. sample_interval' \in Nat /\ link' \in Links
      BY <2>1 DEF ContextInv, TypeInv
    <2> QED BY <1>1, <1>3, <2>1, <2>2, Quiet
  <1>8. ASSUME action_sol_update(e)
        PROVE  ContextInv'
    <2>1. /\ UNCHANGED <<queues, wkctx, fire, sample_interval, params>> /\ e.act = "sol_update"
          /\ link' \in {link, e.arg}
      BY <1>8 DEF action_sol_update, Handle, Due
    <2>2. e \in Expansion /\ trace \in Traces
      BY <1>1, Earliest DEF ContextInv, TypeInv
    <2>3. sample_interval' \in Nat /\ link' \in Links
      BY <2>1, <2>2, Arguments DEF ContextInv, TypeInv
    <2> QED BY <1>1, <1>3, <2>1, <2>3, Quiet
  <1>9. ASSUME action_set_burst(e) \/ action_set_adapt(e)
        PROVE  ContextInv'
    <2>1. /\ UNCHANGED <<queues, wkctx, fire, link, params>> /\ e.act \in {"set_burst", "set_adapt"}
          /\ sample_interval' \in {sample_interval, params.sample_interval, params.rtt[link]}
      BY <1>9 DEF action_set_burst, action_set_adapt, Handle, Due
    <2>2. sample_interval' \in Nat /\ link' \in Links
      BY <2>1 DEF ContextInv, TypeInv, Sched
    <2> QED BY <1>1, <1>3, <2>1, <2>2, Quiet
  <1>10. ContextInv'
    BY <1>2, <1>4, <1>5, <1>6, <1>7, <1>8, <1>9 DEF Handler, Queue, Solution
  <1> QED BY <1>1, <1>2, <1>3, <1>10

\* Every step keeps the invariant.
LEMMA ContextStep ==
    ASSUME ContextInv, Lifetimes, [Next]_vars
    PROVE  ContextInv'
  <1>1. CASE UNCHANGED vars
    <2>1. UNCHANGED <<trace, line, phase, events, count, now, queues, wkctx, fire,
                      sample_interval, link, params>>
      BY <1>1 DEF vars, state_vars, tcp_vars
    <2>2. Expansion' = Expansion /\ Ran' = Ran
      BY <2>1, Fixed DEF Ran
    <2>3. TypeInv' /\ TableInv' /\ OrderInv'
      BY <2>1, <2>2 DEF ContextInv, TypeInv, TableInv, OrderInv
    <2>4. QueueInv'
      BY <2>1, <2>2, Fixed DEF ContextInv, QueueInv
    <2>5. SamplerInv'
      BY <2>1 DEF ContextInv, SamplerInv, next_sample, Rows
    <2> QED BY <2>1, <2>3, <2>4, <2>5 DEF ContextInv
  <1>2. CASE Main
    BY <1>2, ReadRow, SchedulerRun DEF Main
  <1>3. CASE tcp_schedule
    BY <1>3, Sample
  <1>4. CASE \E e \in earliest : Handler(e)
    BY <1>4, HandlerKeeps
  <1> QED BY <1>1, <1>2, <1>3, <1>4 DEF Next

\* The contexts are as the trace says throughout the run.
LEMMA Context == Spec => [](Lifetimes => ContextInv)
  <1>1. Init => (Lifetimes => ContextInv)
    BY InitContext
  <1>2. (Lifetimes => ContextInv) /\ [Next]_vars => (Lifetimes => ContextInv)'
    <2> SUFFICES ASSUME Lifetimes => ContextInv, [Next]_vars, Lifetimes' PROVE ContextInv'
      OBVIOUS
    <2>1. Lifetimes
      BY TraceKept, Fixed
    <2> QED BY <2>1, ContextStep
  <1> QED BY <1>1, <1>2, PTL DEF Spec

\* NoDanglingContext for every trace: if the lifetimes are respected, no handler
\* of action.c runs without its queue, none binds a queue twice, and the sampler
\* never takes a worker that is not there or is destroyed.
THEOREM ContextsLive == Spec => []NoDanglingContext
  <1>1. (Lifetimes => ContextInv) => NoDanglingContext
    BY DEF NoDanglingContext, ContextInv
  <1> QED BY <1>1, Context, PTL

-----------------------------------------------------------------------------
(* What is in force: what the last event of its kind set. *)

\* d is the last of the handlers A that ran for queue q.
Last(A, q, d) ==
    /\ d \in Ran /\ d.q = q /\ d.act \in A
    /\ \A f \in Ran : f.q = q /\ f.act \in A => f = d \/ Lt(f, d)

Marking    == {"init_nfqueue", "set_mark"}
Dropping   == {"init_nfqueue", "set_drop"}
Reordering == {"init_nfqueue", "set_reorder"}
Gating     == {"init_nfqueue", "start_nfqueue", "stop_nfqueue"}
Deduping   == {"init_nfqueue", "set_dedup"}
Bursting   == {"init_nfqueue", "sol_update", "set_burst", "set_adapt"}
Adapting   == {"init_nfqueue", "init_tcp_sched", "sol_update", "set_adapt"}

\* The handlers that switch adaptation on, and a burst, which switches it off
\* once more.
Adapts(d)   == d.act = "init_tcp_sched" \/ (d.act = "set_adapt" /\ d.arg = 1)
BurstsOn(d) == d.act = "set_burst" /\ d.arg = 1

FlagTypes ==
    /\ mark \in [Queues -> Nat] /\ loss \in [Queues -> Nat] /\ reorder \in [Queues -> Nat]

MarkInv    == \A q \in Queues : queues[q] = "bound" =>
                 \E d : Last(Marking, q, d) /\ mark[q] = d.arg
LossInv    == \A q \in Queues : queues[q] = "bound" =>
                 \E d : Last(Dropping, q, d) /\ loss[q] = d.arg
ReorderInv == \A q \in Queues : queues[q] = "bound" =>
                 \E d : Last(Reordering, q, d) /\ reorder[q] = d.arg
\* The status is arbitrary between the bind and the start.
GateInv    == \A q \in Queues : queues[q] = "bound" =>
                 \E d : /\ Last(Gating, q, d)
                        /\ d.act = "start_nfqueue" => q \in running
                        /\ d.act = "stop_nfqueue" => q \notin running
DedupInv   == \A q \in Queues : queues[q] = "bound" =>
                 \E d : /\ Last(Deduping, q, d)
                        /\ q \in dedup <=> d.act = "set_dedup" /\ d.arg = 1
BurstInv   == \A q \in Queues : queues[q] = "bound" =>
                 \E d : /\ Last(Bursting, q, d)
                        /\ q \in burst <=> BurstsOn(d)
AdaptInv   == \A q \in Queues : queues[q] = "bound" =>
                 \E d : /\ Last(Adapting, q, d)
                        /\ q \in adapt => Adapts(d)
                        /\ q \notin adapt =>
                              \/ ~Adapts(d)
                              \/ \E b \in Ran : b.q = q /\ BurstsOn(b) /\ Lt(d, b)

ForceInv == /\ FlagTypes /\ MarkInv /\ LossInv /\ ReorderInv
            /\ GateInv /\ DedupInv /\ BurstInv /\ AdaptInv

\* A bind resets what Last finds to 0.
LEMMA BindArgument ==
    ASSUME trace \in Traces, NEW e \in Expansion, e.act = "init_nfqueue"
    PROVE  e.arg = 0
  <1>1. PICK k \in DOMAIN trace : \E j \in DOMAIN parse_event(trace[k]) :
           /\ trace[k] \in Row /\ e.act = parse_event(trace[k])[j].act
           /\ e.arg = parse_event(trace[k])[j].arg
    BY EventFacts
  <1>2. PICK j \in DOMAIN parse_event(trace[k]) :
           /\ trace[k] \in Row /\ e.act = parse_event(trace[k])[j].act
           /\ e.arg = parse_event(trace[k])[j].arg
    BY <1>1
  <1>3. trace[k].ev = "INIT" /\ j = 1
    BY <1>2, EventOfRow
  <1>4. parse_event(trace[k])[1] = Ev(trace[k].time, "init_nfqueue", trace[k].q, 0)
    BY <1>2, <1>3, InitEvents
  <1> QED BY <1>2, <1>3, <1>4 DEF Ev

\* The event that runs becomes the last of its kind for its queue.
LEMMA LastStep ==
    ASSUME ContextInv, phase = "run", NEW e \in earliest, Finish(e), NEW A, NEW q
    PROVE  /\ e.q = q /\ e.act \in A => Last(A, q, e)'
           /\ ~(e.q = q /\ e.act \in A) => \A d : Last(A, q, d) => Last(A, q, d)'
           /\ \A d \in Ran : Lt(d, e)
           /\ Ran' = Ran \cup {e}
  <1>1. Ran' = Ran \cup {e}
    BY Moved
  <1>2. e \in events
    BY Earliest DEF ContextInv
  <1>3. \A d \in Ran : Lt(d, e)
    BY <1>2 DEF ContextInv, OrderInv
  <1> QED BY <1>1, <1>3 DEF Last

\* What a handler that finds its queue does to the state.
LEMMA Effects ==
    ASSUME ContextInv, Lifetimes, FlagTypes, NEW e \in earliest, Handler(e)
    PROVE  /\ \A q \in Queues : queues'[q] = "bound" =>
                 queues[q] = "bound" \/ (e.q = q /\ e.act = "init_nfqueue")
           /\ e.act \in Marking => mark' = [mark EXCEPT ![e.q] = e.arg]
           /\ e.act \notin Marking => mark' = mark
           /\ e.act \in Dropping => loss' = [loss EXCEPT ![e.q] = e.arg]
           /\ e.act \notin Dropping => loss' = loss
           /\ e.act \in Reordering => reorder' = [reorder EXCEPT ![e.q] = e.arg]
           /\ e.act \notin Reordering => reorder' = reorder
           /\ e.act = "start_nfqueue" => e.q \in running'
           /\ e.act = "stop_nfqueue" => e.q \notin running'
           /\ \A q \in Queues : ~(e.q = q /\ e.act \in Gating) /\ queues'[q] = "bound" =>
                 (q \in running' <=> q \in running)
           /\ e.act \in Deduping => (e.q \in dedup' <=> e.act = "set_dedup" /\ e.arg = 1)
           /\ \A q : ~(e.q = q /\ e.act \in Deduping) => (q \in dedup' <=> q \in dedup)
           /\ e.act \in Bursting => (e.q \in burst' <=> BurstsOn(e))
           /\ \A q : ~(e.q = q /\ e.act \in Bursting) => (q \in burst' <=> q \in burst)
           /\ e.act \in Adapting => (e.q \in adapt' <=> Adapts(e))
           /\ BurstsOn(e) => e.q \notin adapt'
           /\ \A q : ~(e.q = q /\ (e.act \in Adapting \/ BurstsOn(e))) =>
                 (q \in adapt' <=> q \in adapt)
           /\ e.act # "command" => e.q \in Queues
           /\ e.arg \in Nat \/ e.act = "init_tcp_sched"
  <1>1. phase = "run" /\ Finish(e) /\ ~crash(e)
    BY HandlerKeeps
  <1>2. e \in Expansion /\ TypeInv /\ trace \in Traces
    BY <1>1, Earliest DEF ContextInv, TypeInv
  <1>3. e.act # "command" => e.q \in Queues
    BY <1>2, WithinLifetime
  <1>4. e.act = "init_nfqueue" => e.arg = 0
    BY <1>2, BindArgument
  <1>5. e.arg \in Nat \/ e.act = "init_tcp_sched"
    BY <1>2, Arguments
  <1>6. queues \in [Queues -> {"none", "bound", "gone"}]
    BY <1>2 DEF TypeInv
  <1>7. CASE Queue(e)
    <2>1. CASE action_init_nfqueue(e)
      BY <1>3, <1>4, <1>5, <1>6, <2>1
         DEF action_init_nfqueue, Due, FlagTypes, Marking, Dropping, Reordering, Gating, Deduping,
             Bursting, Adapting, Adapts, BurstsOn
    <2>2. CASE action_start_nfqueue(e) \/ action_stop_nfqueue(e)
      BY <1>3, <1>5, <1>6, <2>2
         DEF action_start_nfqueue, action_stop_nfqueue, Handle, Due, worker_vars, Marking, Dropping,
             Reordering, Gating, Deduping, Bursting, Adapting, Adapts, BurstsOn
    <2>3. CASE action_teardown_nfqueue(e)
      BY <1>3, <1>5, <1>6, <2>3
         DEF action_teardown_nfqueue, Handle, Due, worker_vars, Marking, Dropping,
             Reordering, Gating, Deduping, Bursting, Adapting, Adapts, BurstsOn
    <2> QED BY <1>7, <2>1, <2>2, <2>3 DEF Queue
  <1>8. CASE Faults(e)
    BY <1>3, <1>5, <1>8
       DEF Faults, action_set_mark, action_set_drop, action_set_reorder, Handle, Due, Marking,
           Dropping, Reordering, Gating, Deduping, Bursting, Adapting, Adapts, BurstsOn
  <1>9. CASE action_set_dedup(e) \/ action_init_tcp_sched(e) \/ action_sol_update(e)
    BY <1>3, <1>5, <1>9
       DEF action_set_dedup, action_init_tcp_sched, action_sol_update, Handle, Due, Set, Marking,
           Dropping, Reordering, Gating, Deduping, Bursting, Adapting, Adapts, BurstsOn
  <1>10. CASE action_set_burst(e) \/ action_set_adapt(e)
    BY <1>3, <1>5, <1>10
       DEF action_set_burst, action_set_adapt, Handle, Due, Set, Marking,
           Dropping, Reordering, Gating, Deduping, Bursting, Adapting, Adapts, BurstsOn
  <1>11. CASE action_set_rwnd(e) \/ action_command(e)
    BY <1>3, <1>5, <1>11
       DEF action_set_rwnd, action_command, Handle, Due, state_vars, worker_vars, Marking,
           Dropping, Reordering, Gating, Deduping, Bursting, Adapting, Adapts, BurstsOn
  <1> QED BY <1>1, <1>7, <1>8, <1>9, <1>10, <1>11 DEF Handler, Solution

\* A handler is the last one of its kind on its queue, and sets what it is for.
LEMMA HandlerForce ==
    ASSUME ContextInv, Lifetimes, ForceInv, NEW e \in earliest, Handler(e)
    PROVE  ForceInv'
  <1>1. phase = "run" /\ Finish(e) /\ FlagTypes
    BY HandlerKeeps DEF ForceInv
  <1>2. \A A, q : /\ e.q = q /\ e.act \in A => Last(A, q, e)'
                  /\ ~(e.q = q /\ e.act \in A) => \A d : Last(A, q, d) => Last(A, q, d)'
    BY <1>1, LastStep
  <1>3. Ran' = Ran \cup {e} /\ \A d \in Ran : Lt(d, e)
    BY <1>1, LastStep
  <1>4. \A q \in Queues : queues'[q] = "bound" =>
           queues[q] = "bound" \/ (e.q = q /\ e.act = "init_nfqueue")
    BY <1>1, Effects
  <1>5. FlagTypes' /\ MarkInv' /\ LossInv' /\ ReorderInv'
    <2>1. /\ e.act # "command" => e.q \in Queues
          /\ e.arg \in Nat \/ e.act = "init_tcp_sched"
          /\ e.act \in Marking => mark' = [mark EXCEPT ![e.q] = e.arg]
          /\ e.act \notin Marking => mark' = mark
          /\ e.act \in Dropping => loss' = [loss EXCEPT ![e.q] = e.arg]
          /\ e.act \notin Dropping => loss' = loss
          /\ e.act \in Reordering => reorder' = [reorder EXCEPT ![e.q] = e.arg]
          /\ e.act \notin Reordering => reorder' = reorder
      BY <1>1, Effects
    <2>2. mark' \in [Queues -> Nat] /\ loss' \in [Queues -> Nat] /\ reorder' \in [Queues -> Nat]
      BY <1>1, <2>1 DEF FlagTypes, Marking, Dropping, Reordering
    <2>3. ASSUME NEW q \in Queues, queues'[q] = "bound"
          PROVE  \E d : Last(Marking, q, d)' /\ mark'[q] = d.arg
      <3>1. CASE e.q = q /\ e.act \in Marking
        BY <1>1, <1>2, <2>1, <3>1 DEF FlagTypes
      <3>2. CASE ~(e.q = q /\ e.act \in Marking)
        <4>1. queues[q] = "bound" /\ mark'[q] = mark[q]
          BY <1>1, <1>4, <2>1, <2>3, <3>2 DEF Marking, FlagTypes
        <4>2. PICK d : Last(Marking, q, d) /\ mark[q] = d.arg
          BY <4>1 DEF ForceInv, MarkInv
        <4> QED BY <1>2, <3>2, <4>1, <4>2
      <3> QED BY <3>1, <3>2
    <2>4. ASSUME NEW q \in Queues, queues'[q] = "bound"
          PROVE  \E d : Last(Dropping, q, d)' /\ loss'[q] = d.arg
      <3>1. CASE e.q = q /\ e.act \in Dropping
        BY <1>1, <1>2, <2>1, <3>1 DEF FlagTypes
      <3>2. CASE ~(e.q = q /\ e.act \in Dropping)
        <4>1. queues[q] = "bound" /\ loss'[q] = loss[q]
          BY <1>1, <1>4, <2>1, <2>4, <3>2 DEF Dropping, FlagTypes
        <4>2. PICK d : Last(Dropping, q, d) /\ loss[q] = d.arg
          BY <4>1 DEF ForceInv, LossInv
        <4> QED BY <1>2, <3>2, <4>1, <4>2
      <3> QED BY <3>1, <3>2
    <2>5. ASSUME NEW q \in Queues, queues'[q] = "bound"
          PROVE  \E d : Last(Reordering, q, d)' /\ reorder'[q] = d.arg
      <3>1. CASE e.q = q /\ e.act \in Reordering
        BY <1>1, <1>2, <2>1, <3>1 DEF FlagTypes
      <3>2. CASE ~(e.q = q /\ e.act \in Reordering)
        <4>1. queues[q] = "bound" /\ reorder'[q] = reorder[q]
          BY <1>1, <1>4, <2>1, <2>5, <3>2 DEF Reordering, FlagTypes
        <4>2. PICK d : Last(Reordering, q, d) /\ reorder[q] = d.arg
          BY <4>1 DEF ForceInv, ReorderInv
        <4> QED BY <1>2, <3>2, <4>1, <4>2
      <3> QED BY <3>1, <3>2
    <2> QED BY <2>2, <2>3, <2>4, <2>5 DEF FlagTypes, MarkInv, LossInv, ReorderInv
  <1>6. GateInv'
    <2>1. /\ e.act = "start_nfqueue" => e.q \in running'
          /\ e.act = "stop_nfqueue" => e.q \notin running'
          /\ \A q \in Queues : ~(e.q = q /\ e.act \in Gating) /\ queues'[q] = "bound" =>
                (q \in running' <=> q \in running)
      BY <1>1, Effects
    <2>2. ASSUME NEW q \in Queues, queues'[q] = "bound"
          PROVE  \E d : /\ Last(Gating, q, d)'
                        /\ d.act = "start_nfqueue" => q \in running'
                        /\ d.act = "stop_nfqueue" => q \notin running'
      <3>1. CASE e.q = q /\ e.act \in Gating
        BY <1>2, <2>1, <3>1
      <3>2. CASE ~(e.q = q /\ e.act \in Gating)
        <4>1. queues[q] = "bound" /\ (q \in running' <=> q \in running)
          BY <1>4, <2>1, <2>2, <3>2 DEF Gating
        <4>2. PICK d : /\ Last(Gating, q, d)
                       /\ d.act = "start_nfqueue" => q \in running
                       /\ d.act = "stop_nfqueue" => q \notin running
          BY <4>1 DEF ForceInv, GateInv
        <4> QED BY <1>2, <3>2, <4>1, <4>2
      <3> QED BY <3>1, <3>2
    <2> QED BY <2>2 DEF GateInv
  <1>7. DedupInv'
    <2>1. /\ e.act \in Deduping => (e.q \in dedup' <=> e.act = "set_dedup" /\ e.arg = 1)
          /\ \A q : ~(e.q = q /\ e.act \in Deduping) => (q \in dedup' <=> q \in dedup)
      BY <1>1, Effects
    <2>2. ASSUME NEW q \in Queues, queues'[q] = "bound"
          PROVE  \E d : /\ Last(Deduping, q, d)'
                        /\ q \in dedup' <=> d.act = "set_dedup" /\ d.arg = 1
      <3>1. CASE e.q = q /\ e.act \in Deduping
        BY <1>2, <2>1, <3>1
      <3>2. CASE ~(e.q = q /\ e.act \in Deduping)
        <4>1. queues[q] = "bound" /\ (q \in dedup' <=> q \in dedup)
          BY <1>4, <2>1, <2>2, <3>2 DEF Deduping
        <4>2. PICK d : Last(Deduping, q, d) /\ (q \in dedup <=> d.act = "set_dedup" /\ d.arg = 1)
          BY <4>1 DEF ForceInv, DedupInv
        <4> QED BY <1>2, <3>2, <4>1, <4>2
      <3> QED BY <3>1, <3>2
    <2> QED BY <2>2 DEF DedupInv
  <1>8. BurstInv'
    <2>1. /\ e.act \in Bursting => (e.q \in burst' <=> BurstsOn(e))
          /\ \A q : ~(e.q = q /\ e.act \in Bursting) => (q \in burst' <=> q \in burst)
      BY <1>1, Effects
    <2>2. ASSUME NEW q \in Queues, queues'[q] = "bound"
          PROVE  \E d : Last(Bursting, q, d)' /\ (q \in burst' <=> BurstsOn(d))
      <3>1. CASE e.q = q /\ e.act \in Bursting
        BY <1>2, <2>1, <3>1
      <3>2. CASE ~(e.q = q /\ e.act \in Bursting)
        <4>1. queues[q] = "bound" /\ (q \in burst' <=> q \in burst)
          BY <1>4, <2>1, <2>2, <3>2 DEF Bursting
        <4>2. PICK d : Last(Bursting, q, d) /\ (q \in burst <=> BurstsOn(d))
          BY <4>1 DEF ForceInv, BurstInv
        <4> QED BY <1>2, <3>2, <4>1, <4>2
      <3> QED BY <3>1, <3>2
    <2> QED BY <2>2 DEF BurstInv, BurstsOn
  <1>9. AdaptInv'
    <2>1. /\ e.act \in Adapting => (e.q \in adapt' <=> Adapts(e))
          /\ BurstsOn(e) => e.q \notin adapt'
          /\ \A q : ~(e.q = q /\ (e.act \in Adapting \/ BurstsOn(e))) =>
                (q \in adapt' <=> q \in adapt)
      BY <1>1, Effects
    <2>2. ASSUME NEW q \in Queues, queues'[q] = "bound"
          PROVE  \E d : /\ Last(Adapting, q, d)'
                        /\ q \in adapt' => Adapts(d)
                        /\ q \notin adapt' =>
                              \/ ~Adapts(d)
                              \/ \E b \in Ran' : b.q = q /\ BurstsOn(b) /\ Lt(d, b)
      <3>1. CASE e.q = q /\ e.act \in Adapting
        BY <1>2, <2>1, <3>1
      <3>2. CASE ~(e.q = q /\ e.act \in Adapting)
        <4>1. queues[q] = "bound"
          BY <1>4, <2>2, <3>2 DEF Adapting
        <4>2. PICK d : /\ Last(Adapting, q, d)
                       /\ q \in adapt => Adapts(d)
                       /\ q \notin adapt =>
                             \/ ~Adapts(d)
                             \/ \E b \in Ran : b.q = q /\ BurstsOn(b) /\ Lt(d, b)
          BY <4>1 DEF ForceInv, AdaptInv
        <4>3. Last(Adapting, q, d)' /\ d \in Ran
          BY <1>2, <3>2, <4>2 DEF Last
        <4>4. CASE e.q = q /\ BurstsOn(e)
          <5>1. q \notin adapt' /\ Lt(d, e) /\ e \in Ran'
            BY <1>3, <2>1, <4>3, <4>4
          <5> QED BY <4>3, <4>4, <5>1
        <4>5. CASE ~(e.q = q /\ BurstsOn(e))
          <5>1. q \in adapt' <=> q \in adapt
            BY <2>1, <3>2, <4>5
          <5> QED BY <1>3, <4>2, <4>3, <5>1
        <4> QED BY <4>4, <4>5
      <3> QED BY <3>1, <3>2
    <2> QED BY <2>2 DEF AdaptInv, Adapts, BurstsOn
  <1> QED BY <1>5, <1>6, <1>7, <1>8, <1>9 DEF ForceInv

\* The other steps touch none of it.
LEMMA OthersForce ==
    ASSUME ContextInv, Lifetimes, ForceInv, Main \/ tcp_schedule \/ UNCHANGED vars
    PROVE  ForceInv'
  <1>1. UNCHANGED <<trace, queues, running, mark, loss, reorder, dedup, burst, adapt>>
    BY DEF Main, read_row, scheduler_run, tcp_schedule, vars, state_vars, worker_vars
  <1>2. Ran' = Ran
    <2>1. CASE Main
      <3>1. phase = "parse" /\ Ran = {}
        BY <2>1 DEF Main, read_row, scheduler_run, Ran
      <3>2. CASE read_row
        BY <3>1, <3>2 DEF read_row, Ran
      <3>3. CASE scheduler_run
        <4>1. events = Expansion /\ events' = events
          BY <3>3, AllRead DEF scheduler_run
        <4> QED BY <1>1, <3>1, <4>1, Fixed DEF Ran
      <3> QED BY <2>1, <3>2, <3>3 DEF Main
    <2>2. CASE tcp_schedule
      BY <1>1, <2>2, Sample, Fixed DEF Ran, tcp_schedule
    <2>3. CASE UNCHANGED vars
      BY <1>1, <2>3, Fixed DEF Ran, vars
    <2> QED BY <2>1, <2>2, <2>3
  <1>3. \A A, q, d : Last(A, q, d)' <=> Last(A, q, d)
    BY <1>2 DEF Last
  <1>4. FlagTypes' /\ MarkInv' /\ LossInv' /\ ReorderInv' /\ GateInv'
    BY <1>1, <1>3 DEF ForceInv, FlagTypes, MarkInv, LossInv, ReorderInv, GateInv
  <1>5. DedupInv' /\ BurstInv'
    BY <1>1, <1>3 DEF ForceInv, DedupInv, BurstInv, BurstsOn
  <1>6. AdaptInv'
    BY <1>1, <1>2, <1>3 DEF ForceInv, AdaptInv, Adapts, BurstsOn
  <1> QED BY <1>4, <1>5, <1>6 DEF ForceInv

\* Both invariants hold throughout the run.
LEMMA ForceKept == Spec => [](Lifetimes => ContextInv /\ ForceInv)
  <1> DEFINE C == Lifetimes => ContextInv
             F == Lifetimes => ForceInv
  <1>1. Init => F
    BY EmulatorAssumption
       DEF Init, ForceInv, FlagTypes, MarkInv, LossInv, ReorderInv, GateInv, DedupInv, BurstInv,
           AdaptInv
  <1>2. C /\ F /\ [Next]_vars => F'
    <2> SUFFICES ASSUME Lifetimes => ContextInv, Lifetimes => ForceInv, [Next]_vars, Lifetimes'
                 PROVE  ForceInv'
      OBVIOUS
    <2>1. Lifetimes
      BY TraceKept, Fixed
    <2> QED BY <2>1, HandlerForce, OthersForce DEF Next
  <1>3. C /\ F => (Lifetimes => ContextInv /\ ForceInv)
    OBVIOUS
  <1>4. Spec => []C
    BY Context
  <1> HIDE DEF C, F
  <1> QED BY <1>1, <1>2, <1>3, <1>4, PTL DEF Spec

-----------------------------------------------------------------------------
(* The handovers. *)

\* Rows are ordered by their times and lines.
LEMMA RowOrder ==
    ASSUME trace \in Traces, NEW k \in DOMAIN trace, NEW l \in DOMAIN trace
    PROVE  /\ trace[k].time \in Nat /\ k \in Nat /\ trace[k].q \in Queues
           /\ ~(Before(k, l) /\ Before(l, k))
           /\ k = l \/ Before(k, l) \/ Before(l, k)
  <1>1. trace[k] \in Row /\ trace[l] \in Row /\ k \in Nat /\ l \in Nat
    BY TraceRows
  <1>2. trace[k].time \in Nat /\ trace[l].time \in Nat /\ trace[k].q \in Queues
    BY <1>1, RowKinds
  <1> QED BY <1>1, <1>2 DEF Before

\* LastOf finds the row that all others are before.
LEMMA LastOfIs ==
    ASSUME trace \in Traces, NEW S \in SUBSET DOMAIN trace, NEW k \in S,
           \A l \in S \ {k} : Before(l, k)
    PROVE  LastOf(S) = k
  <1>1. \A l \in S : (\A m \in S \ {l} : Before(m, l)) => l = k
    BY RowOrder
  <1> QED BY <1>1 DEF LastOf

\* The events of an HO row, and of an INIT row, that are always there or that
\* the fields of the row ask for.
LEMMA HoPlaces ==
    ASSUME trace \in Traces, NEW k \in DOMAIN trace, trace[k].ev = "HO"
    PROVE  LET r == trace[k]
           IN  /\ r \in HoRows /\ Loss(r) \in Nat /\ LastTime(r) = r.time + r.gap
               /\ At(k, 1) \in Expansion /\ At(k, 1).act = "stop_nfqueue"
               /\ At(k, 1).time = r.time /\ At(k, 1).q = r.q
               /\ At(k, 2) \in Expansion /\ At(k, 2).act = "start_nfqueue"
               /\ At(k, 2).time = r.time + r.gap /\ At(k, 2).q = r.q
               /\ At(k, 3) \in Expansion /\ At(k, 3).act = "set_mark"
               /\ At(k, 3).time = r.time /\ At(k, 3).q = r.q /\ At(k, 3).arg = r.mark
               /\ Loss(r) > 0 =>
                     /\ At(k, 4) \in Expansion /\ At(k, 4).act = "set_drop"
                     /\ At(k, 4).time = r.time /\ At(k, 4).q = r.q /\ At(k, 4).arg = Loss(r)
               /\ r.cnt > 0 =>
                     /\ At(k, 5) \in Expansion /\ At(k, 5).act = "set_reorder"
                     /\ At(k, 5).time = r.time /\ At(k, 5).q = r.q /\ At(k, 5).arg = r.cnt
  <1> DEFINE r == trace[k]
             s == parse_event(r)
  <1>1. r \in Row /\ r \in HoRows /\ DOMAIN s = 1 .. Len(s)
    BY TraceRows, RowKinds
  <1>2. /\ Len(s) = 3 + (IF Loss(r) > 0 THEN 1 ELSE 0) + (IF r.cnt > 0 THEN 1 ELSE 0)
        /\ s[1] = Ev(r.time, "stop_nfqueue", r.q, 0)
        /\ s[2] = Ev(r.time + r.gap, "start_nfqueue", r.q, 0)
        /\ s[3] = Ev(r.time, "set_mark", r.q, r.mark)
        /\ Loss(r) > 0 => s[4] = Ev(r.time, "set_drop", r.q, Loss(r))
        /\ r.cnt > 0 => Loss(r) > 0 /\ s[5] = Ev(r.time, "set_reorder", r.q, r.cnt)
    BY <1>1, HoEvents
  <1>3. Loss(r) \in Nat /\ LastTime(r) = r.time + r.gap
    BY <1>1, EventAssumption DEF Loss, HoRows, LastTime
  <1>4. /\ 1 \in DOMAIN s /\ 2 \in DOMAIN s /\ 3 \in DOMAIN s
        /\ Loss(r) > 0 => 4 \in DOMAIN s
        /\ r.cnt > 0 => 5 \in DOMAIN s
    BY <1>1, <1>2, <1>3
  <1>5. \A j \in DOMAIN s : At(k, j) \in Expansion
    BY ExpansionIs
  <1>6. \A j : /\ At(k, j).act = s[j].act /\ At(k, j).time = s[j].time
               /\ At(k, j).q = s[j].q /\ At(k, j).arg = s[j].arg
    BY DEF At
  <1> HIDE DEF s
  <1>7. /\ s[1].act = "stop_nfqueue" /\ s[1].time = r.time /\ s[1].q = r.q
        /\ s[2].act = "start_nfqueue" /\ s[2].time = r.time + r.gap /\ s[2].q = r.q
        /\ s[3].act = "set_mark" /\ s[3].time = r.time /\ s[3].q = r.q /\ s[3].arg = r.mark
    BY <1>2 DEF Ev
  <1>8. /\ Loss(r) > 0 => /\ s[4].act = "set_drop" /\ s[4].time = r.time /\ s[4].q = r.q
                          /\ s[4].arg = Loss(r)
        /\ r.cnt > 0 => /\ s[5].act = "set_reorder" /\ s[5].time = r.time /\ s[5].q = r.q
                        /\ s[5].arg = r.cnt
    BY <1>2 DEF Ev
  <1> QED BY <1>1, <1>3, <1>4, <1>5, <1>6, <1>7, <1>8

\* The start and the mark of an INIT row.
LEMMA InitPlaces ==
    ASSUME trace \in Traces, NEW i \in DOMAIN trace, trace[i].ev = "INIT"
    PROVE  LET r == trace[i]
           IN  /\ r \in InitRows
               /\ At(i, 3) \in Expansion /\ At(i, 3).act = "start_nfqueue"
               /\ At(i, 3).time = r.time /\ At(i, 3).q = r.q
               /\ r.mark > 0 =>
                     /\ At(i, 4) \in Expansion /\ At(i, 4).act = "set_mark"
                     /\ At(i, 4).time = r.time /\ At(i, 4).q = r.q /\ At(i, 4).arg = r.mark
  <1> DEFINE r == trace[i]
             s == parse_event(r)
  <1>1. r \in Row /\ r \in InitRows /\ DOMAIN s = 1 .. Len(s)
    BY TraceRows, RowKinds
  <1>2. /\ Len(s) = 3 + (IF r.mark > 0 THEN 1 ELSE 0)
        /\ s[3] = Ev(r.time, "start_nfqueue", r.q, 0)
        /\ r.mark > 0 => s[4] = Ev(r.time, "set_mark", r.q, r.mark)
    BY <1>1, InitEvents
  <1>3. 3 \in DOMAIN s /\ (r.mark > 0 => 4 \in DOMAIN s)
    BY <1>1, <1>2 DEF InitRows
  <1>4. \A j \in DOMAIN s : At(i, j) \in Expansion
    BY ExpansionIs
  <1>5. \A j : /\ At(i, j).act = s[j].act /\ At(i, j).time = s[j].time
               /\ At(i, j).q = s[j].q /\ At(i, j).arg = s[j].arg
    BY DEF At
  <1> HIDE DEF s
  <1>6. /\ s[3].act = "start_nfqueue" /\ s[3].time = r.time /\ s[3].q = r.q
        /\ r.mark > 0 => /\ s[4].act = "set_mark" /\ s[4].time = r.time /\ s[4].q = r.q
                         /\ s[4].arg = r.mark
    BY <1>2 DEF Ev
  <1> QED BY <1>1, <1>3, <1>4, <1>5, <1>6

\* The row an event of a handover comes from.
LEMMA FromRow ==
    ASSUME trace \in Traces, NEW e \in Expansion,
           e.act \in Marking \cup Dropping \cup Reordering \cup Gating
    PROVE  \E k \in DOMAIN trace :
              /\ trace[k].q = e.q
              /\ \/ trace[k].ev = "INIT" /\ e.act = "init_nfqueue" /\ e = Opening(k)
                 \/ trace[k].ev = "INIT" /\ e.act = "start_nfqueue" /\ e = At(k, 3)
                 \/ trace[k].ev = "INIT" /\ e.act = "set_mark" /\ e = At(k, 4) /\ trace[k].mark > 0
                 \/ trace[k].ev = "HO" /\ e.act = "stop_nfqueue" /\ e = At(k, 1)
                 \/ trace[k].ev = "HO" /\ e.act = "start_nfqueue" /\ e = At(k, 2)
                 \/ trace[k].ev = "HO" /\ e.act = "set_mark" /\ e = At(k, 3)
                 \/ trace[k].ev = "HO" /\ e.act = "set_drop" /\ e = At(k, 4) /\ Loss(trace[k]) > 0
                 \/ trace[k].ev = "HO" /\ e.act = "set_reorder" /\ e = At(k, 5) /\ trace[k].cnt > 0
  <1>1. PICK k \in DOMAIN trace : \E j \in DOMAIN parse_event(trace[k]) :
           /\ e = At(k, j) /\ trace[k] \in Row
           /\ e.act = parse_event(trace[k])[j].act /\ e.q = parse_event(trace[k])[j].q
    BY EventFacts
  <1>2. PICK j \in DOMAIN parse_event(trace[k]) :
           /\ e = At(k, j) /\ trace[k] \in Row
           /\ e.act = parse_event(trace[k])[j].act /\ e.q = parse_event(trace[k])[j].q
    BY <1>1
  <1> DEFINE r == trace[k]
  <1>3. /\ r.ev = "CMD" => e.act = "command"
        /\ r.ev # "CMD" => e.q = r.q
        /\ r.ev \in Users \cup {"INIT", "CMD"}
        /\ r.ev = "INIT" => \/ j = 1 /\ e.act = "init_nfqueue"
                            \/ j = 2 /\ e.act = "teardown_nfqueue"
                            \/ j > 2 /\ e.act \in {"start_nfqueue", "set_mark"}
        /\ r.ev = "INIT" /\ e.act = "start_nfqueue" => j = 3
        /\ r.ev = "INIT" /\ e.act = "set_mark" => j = 4 /\ r.mark > 0
        /\ r.ev = "HO" => \/ j = 1 /\ e.act = "stop_nfqueue"
                          \/ j = 2 /\ e.act = "start_nfqueue"
                          \/ j = 3 /\ e.act = "set_mark"
                          \/ j = 4 /\ e.act = "set_drop" /\ Loss(r) > 0
                          \/ j = 5 /\ e.act = "set_reorder" /\ r.cnt > 0
        /\ r.ev = "SOL_HO" =>
              e.act \in {"sol_update", "set_rwnd", "set_dedup", "set_burst", "set_adapt"}
        /\ r.ev = "SOL_HANDLEDUP" => e.act = "set_dedup"
        /\ r.ev = "SOL_INIT_SCHED" => e.act = "init_tcp_sched"
    BY <1>2, EventOfRow
  <1>4. r.ev \in {"INIT", "HO"}
    BY <1>3 DEF Users, Marking, Dropping, Reordering, Gating
  <1>5. r.q = e.q
    BY <1>3, <1>4
  <1>6. CASE r.ev = "INIT"
    BY <1>2, <1>3, <1>5, <1>6 DEF Marking, Dropping, Reordering, Gating, Opening
  <1>7. CASE r.ev = "HO"
    BY <1>2, <1>3, <1>5, <1>7
  <1> QED BY <1>4, <1>6, <1>7

\* Between now and the next event, what has run is what is due by then.
LEMMA RanBy ==
    ASSUME ContextInv, phase = "run", NEW t \in Nat, now <= t, \A e \in events : t < e.time
    PROVE  \A e \in Expansion : e \in Ran <=> e.time <= t
  <1>1. Ran = Expansion \ events /\ trace \in Traces /\ now \in Nat
    BY DEF Ran, ContextInv, TypeInv
  <1>2. \A e \in Expansion : e.time \in Nat
    BY <1>1, EventFacts
  <1>3. \A d \in Ran : d.time <= now
    BY DEF ContextInv, OrderInv
  <1> QED BY <1>1, <1>2, <1>3

\* Events are ordered by their times, rows and places.
LEMMA AtOrder ==
    ASSUME NEW k, NEW i, NEW l, NEW j
    PROVE  /\ Lt(At(k, i), At(l, j)) <=>
                 \/ At(k, i).time < At(l, j).time
                 \/ At(k, i).time = At(l, j).time /\ (k < l \/ (k = l /\ i < j))
  <1> DEFINE a == At(k, i)
             b == At(l, j)
  <1>1. a.idx[1] = k /\ a.idx[2] = i /\ b.idx[1] = l /\ b.idx[2] = j
    BY DEF At
  <1> HIDE DEF a, b
  <1>2. Lt(a, b) <=> a.time < b.time \/ (a.time = b.time /\ (k < l \/ (k = l /\ i < j)))
    BY <1>1 DEF Lt, scheduler_compare_event, added_before
  <1> QED BY <1>2 DEF a, b

\* The rows of a queue that is open, and its INIT row before them.
LEMMA OpenQueue ==
    ASSUME ContextInv, Lifetimes, NEW q \in Used, queues[q] = "bound"
    PROVE  \E i \in DOMAIN trace :
              /\ trace[i].ev = "INIT" /\ trace[i].q = q /\ Opening(i) \in Ran /\ q \in Queues
              /\ Rows("INIT", q) = {i}
              /\ \A k \in Rows("HO", q) : Before(i, k)
  <1>1. trace \in Traces /\ q \in Queues
    BY DEF ContextInv, TypeInv, Used
  <1>2. PICK i \in Rows("INIT", q) : TRUE
    BY DEF Used
  <1>3. i \in DOMAIN trace /\ trace[i].ev = "INIT" /\ trace[i].q = q
    BY <1>2 DEF Rows
  <1>4. Opening(i) \in Ran
    BY <1>3 DEF ContextInv, QueueInv
  <1>5. Rows("INIT", q) = {i}
    BY <1>1, <1>2, <1>3, OneOpening DEF Rows
  <1>6. \A k \in Rows("HO", q) : Before(i, k)
    BY <1>5 DEF Lifetimes, Rows
  <1> QED BY <1>1, <1>3, <1>4, <1>5, <1>6

\* GapHonoured for every trace: the last of the starts and stops that ran is
\* the stop of the gap that is open, if there is one.
THEOREM GapsHonoured == Spec => []GapHonoured
  <1>1. (Lifetimes => ContextInv /\ ForceInv) => GapHonoured
    <2> SUFFICES ASSUME ContextInv, ForceInv, Lifetimes, Settled, NEW q \in Used,
                        queues[q] = "bound", Disjoint("HO", q), NEW e \in earliest,
                        NEW t \in now .. e.time - 1
                 PROVE  q \in running <=> ~InGap(q, t)
      BY DEF GapHonoured
    <2>1. trace \in Traces /\ TypeInv /\ phase = "run" /\ now \in Nat
      BY DEF ContextInv, TypeInv, Settled
    <2>2. PICK i \in DOMAIN trace :
             /\ trace[i].ev = "INIT" /\ trace[i].q = q /\ Opening(i) \in Ran /\ q \in Queues
             /\ \A k \in Rows("HO", q) : Before(i, k)
      BY OpenQueue
    <2>3. e \in events /\ \A f \in events : e.time \in Nat /\ f.time \in Nat /\ e.time <= f.time
      BY <2>1, Earliest
    <2>4. t \in Nat /\ now <= t /\ \A f \in events : t < f.time
      BY <2>1, <2>3
    <2>5. \A f \in Expansion : f \in Ran <=> f.time <= t
      BY <2>1, <2>4, RanBy
    <2>6. PICK d : /\ Last(Gating, q, d)
                   /\ d.act = "start_nfqueue" => q \in running
                   /\ d.act = "stop_nfqueue" => q \notin running
      BY <2>2 DEF ForceInv, GateInv
    <2>7. /\ d \in Ran /\ d.q = q /\ d.act \in Gating /\ d \in Expansion /\ d.time <= t
          /\ \A f \in Ran : f.q = q /\ f.act \in Gating => f = d \/ Lt(f, d)
      <3>1. d \in Ran /\ d \in Expansion
        BY <2>1, <2>6 DEF Last, Ran
      <3> QED BY <2>5, <2>6, <3>1 DEF Last
    <2>8. d.time \in Nat
      BY <2>1, <2>7, EventFacts
    <2>9. PICK k \in DOMAIN trace :
             /\ trace[k].q = q
             /\ \/ trace[k].ev = "INIT" /\ d.act = "init_nfqueue" /\ d = Opening(k)
                \/ trace[k].ev = "INIT" /\ d.act = "start_nfqueue" /\ d = At(k, 3)
                \/ trace[k].ev = "HO" /\ d.act = "stop_nfqueue" /\ d = At(k, 1)
                \/ trace[k].ev = "HO" /\ d.act = "start_nfqueue" /\ d = At(k, 2)
      BY <2>1, <2>7, FromRow DEF Gating
    <2>k. trace[k].time \in Nat /\ k \in Nat
      BY <2>1, RowOrder
    <2>10. CASE trace[k].ev = "INIT"
      <3>1. k = i
        BY <2>1, <2>2, <2>9, <2>10, OneOpening
      <3>2. /\ At(i, 3) \in Expansion /\ At(i, 3).act = "start_nfqueue"
            /\ At(i, 3).time = trace[i].time /\ At(i, 3).q = q
        BY <2>1, <2>2, InitPlaces
      <3>3. /\ Opening(i).time = trace[i].time /\ Opening(i) \in Expansion
            /\ trace[i].time \in Nat /\ i \in Nat
        BY <2>1, <2>2, Ends
      <3>4. At(i, 3) \in Ran
        BY <2>2, <2>5, <3>2, <3>3
      <3>5. d # Opening(i)
        <4> SUFFICES ASSUME d = Opening(i) PROVE FALSE
          OBVIOUS
        <4>1. d.act = "init_nfqueue"
          BY <2>1, <2>2, Ends
        <4>2. Lt(At(i, 3), Opening(i))
          BY <2>7, <3>2, <3>4, <4>1 DEF Gating
        <4>3. Lt(Opening(i), At(i, 3))
          BY <3>2, <3>3, AtOrder DEF Opening
        <4> QED BY <2>1, <3>2, <3>3, <4>2, <4>3, Order
      <3>6. d = At(i, 3) /\ d.act = "start_nfqueue"
        BY <2>9, <2>10, <3>1, <3>5
      <3>7. ASSUME InGap(q, t) PROVE FALSE
        <4>1. PICK h \in Rows("HO", q) : trace[h].time <= t
          BY <3>7 DEF InGap
        <4>2. h \in DOMAIN trace /\ trace[h].ev = "HO" /\ trace[h].q = q
          BY <4>1 DEF Rows
        <4>3. /\ At(h, 1) \in Expansion /\ At(h, 1).act = "stop_nfqueue"
              /\ At(h, 1).time = trace[h].time /\ At(h, 1).q = q
          BY <2>1, <4>2, HoPlaces
        <4>4. At(h, 1) \in Ran
          BY <2>5, <4>1, <4>3
        <4>5. Lt(At(h, 1), At(i, 3))
          BY <2>7, <3>6, <4>3, <4>4 DEF Gating
        <4>6. Before(i, h)
          BY <2>2, <4>1
        <4>7. Lt(At(i, 3), At(h, 1))
          BY <3>2, <4>3, <4>6, AtOrder DEF Before
        <4> QED BY <2>1, <3>2, <4>3, <4>5, <4>7, Order
      <3> QED BY <2>6, <3>6, <3>7
    <2>11. CASE trace[k].ev = "HO"
      <3>1. /\ At(k, 1) \in Expansion /\ At(k, 1).act = "stop_nfqueue"
            /\ At(k, 1).time = trace[k].time /\ At(k, 1).q = q
            /\ At(k, 2) \in Expansion /\ At(k, 2).act = "start_nfqueue"
            /\ At(k, 2).time = trace[k].time + trace[k].gap /\ At(k, 2).q = q
            /\ LastTime(trace[k]) = trace[k].time + trace[k].gap /\ trace[k] \in HoRows
        BY <2>1, <2>9, <2>11, HoPlaces
      <3>2. trace[k].gap \in Nat /\ k \in Rows("HO", q)
        BY <2>9, <2>11, <3>1 DEF HoRows, Rows
      <3>3. CASE d = At(k, 1)
        <4>1. ~(trace[k].time + trace[k].gap <= t)
          <5> SUFFICES ASSUME trace[k].time + trace[k].gap <= t PROVE FALSE
            OBVIOUS
          <5>1. At(k, 2) \in Ran
            BY <2>5, <3>1
          <5>2. At(k, 2) # At(k, 1)
            BY <3>1
          <5>3. Lt(At(k, 2), At(k, 1))
            BY <2>7, <3>1, <3>3, <5>1, <5>2 DEF Gating
          <5>4. Lt(At(k, 1), At(k, 2))
            BY <2>k, <3>1, <3>2, AtOrder
          <5> QED BY <2>1, <3>1, <5>3, <5>4, Order
        <4>2. trace[k].time <= t /\ t < trace[k].time + trace[k].gap
          BY <2>4, <2>k, <2>7, <3>1, <3>2, <3>3, <4>1
        <4>3. InGap(q, t)
          BY <3>2, <4>2 DEF InGap
        <4>4. q \notin running
          BY <2>6, <3>1, <3>3
        <4> QED BY <4>3, <4>4
      <3>4. CASE d = At(k, 2)
        <4>1. q \in running
          BY <2>6, <3>1, <3>4
        <4>2. ASSUME InGap(q, t) PROVE FALSE
          <5>1. PICK h \in Rows("HO", q) : trace[h].time <= t /\ t < trace[h].time + trace[h].gap
            BY <4>2 DEF InGap
          <5>2. h \in DOMAIN trace /\ trace[h].ev = "HO" /\ trace[h].q = q
            BY <5>1 DEF Rows
          <5>3. /\ At(h, 1) \in Expansion /\ At(h, 1).act = "stop_nfqueue"
                /\ At(h, 1).time = trace[h].time /\ At(h, 1).q = q
                /\ LastTime(trace[h]) = trace[h].time + trace[h].gap /\ trace[h] \in HoRows
            BY <2>1, <5>2, HoPlaces
          <5>h. trace[h].time \in Nat /\ h \in Nat /\ trace[h].gap \in Nat
            BY <2>1, <5>2, <5>3, RowOrder DEF HoRows
          <5>4. At(h, 1) \in Ran
            BY <2>5, <5>1, <5>3
          <5>5. Lt(At(h, 1), At(k, 2))
            BY <2>7, <3>1, <3>4, <5>3, <5>4 DEF Gating
          <5>6. trace[k].time + trace[k].gap <= t
            BY <2>7, <3>1, <3>4
          <5>7. h # k
            BY <5>1, <5>6, <5>h, <2>k, <2>4, <3>2
          <5>8. CASE k < h
            <6>1. trace[k].time + trace[k].gap <= trace[h].time
              BY <3>1, <3>2, <5>1, <5>8 DEF Disjoint
            <6>2. Lt(At(k, 2), At(h, 1))
              BY <2>k, <3>1, <3>2, <5>3, <5>8, <5>h, <6>1, AtOrder
            <6> QED BY <2>1, <3>1, <5>3, <5>5, <6>2, Order
          <5>9. CASE h < k
            <6>1. trace[h].time + trace[h].gap <= trace[k].time
              BY <3>2, <5>1, <5>3, <5>9 DEF Disjoint
            <6> QED BY <2>4, <2>k, <3>2, <5>1, <5>6, <5>h, <6>1
          <5> QED BY <2>k, <5>7, <5>8, <5>9, <5>h
        <4> QED BY <4>1, <4>2
      <3> QED BY <2>9, <2>11, <3>1, <3>3, <3>4
    <2> QED BY <2>9, <2>10, <2>11
  <1> QED BY <1>1, ForceKept, PTL

\* At a settled moment what has run is what was due.
LEMMA RanSettled ==
    ASSUME ContextInv, Settled
    PROVE  \A e \in Expansion : e \in Ran <=> e.time <= now
  <1>1. phase = "run" /\ now \in Nat /\ trace \in Traces
    BY DEF Settled, ContextInv, TypeInv
  <1>2. \A f \in events : f.time > now /\ f \in Expansion
    BY DEF Settled, ContextInv, TypeInv
  <1>3. \A f \in events : f.time \in Nat
    BY <1>1, <1>2, EventFacts
  <1>4. now <= now /\ \A f \in events : now < f.time
    BY <1>1, <1>2, <1>3
  <1> QED BY <1>1, <1>4, RanBy

\* The rows S are those of queue q whose event j, at their time, is the handler
\* act, as far as they have started.
Arms(q, act, j, S) ==
    /\ S \subseteq DOMAIN trace
    /\ \A k \in S : /\ At(k, j) \in Expansion /\ At(k, j).act = act /\ At(k, j).q = q
                    /\ At(k, j).time = trace[k].time /\ trace[k].time <= now
    /\ \A e \in Expansion : e.q = q /\ e.act = act /\ e.time <= now => \E k \in S : e = At(k, j)

\* The last of the handlers that bind a queue or arm a fault is that of the last
\* of these rows.
LEMMA ArmedBy ==
    ASSUME ContextInv, Lifetimes, Settled, NEW q, NEW act, NEW j, NEW S, Arms(q, act, j, S),
           act \notin {"init_nfqueue", "command"}, NEW d, Last({"init_nfqueue", act}, q, d)
    PROVE  /\ S = {} => d.act = "init_nfqueue"
           /\ S # {} => LastOf(S) \in S /\ d = At(LastOf(S), j)
  <1>1. trace \in Traces /\ phase = "run" /\ now \in Nat
    BY DEF ContextInv, TypeInv, Settled
  <1>2. \A f \in Expansion : f \in Ran <=> f.time <= now
    BY RanSettled
  <1>3. /\ d \in Ran /\ d \in Expansion /\ d.q = q /\ d.act \in {"init_nfqueue", act}
        /\ \A f \in Ran : f.q = q /\ f.act \in {"init_nfqueue", act} => f = d \/ Lt(f, d)
    BY <1>1 DEF Last, Ran
  <1>a. \A k \in S : /\ At(k, j) \in Expansion /\ At(k, j).act = act /\ At(k, j).q = q
                     /\ At(k, j).time = trace[k].time /\ trace[k].time <= now
    BY DEF Arms
  <1>4. d.act = act => \E k \in S : d = At(k, j)
    BY <1>2, <1>3 DEF Arms
  <1>5. ASSUME S # {} PROVE LastOf(S) \in S /\ d = At(LastOf(S), j)
    <2>1. PICK h \in S : TRUE
      BY <1>5
    <2>2. At(h, j) \in Ran /\ At(h, j) \in Expansion /\ At(h, j).act = act /\ At(h, j).q = q
      BY <1>2, <1>a, <2>1
    <2>3. d.act = act
      <3> SUFFICES ASSUME d.act = "init_nfqueue" PROVE FALSE
        BY <1>3
      <3>1. At(h, j) # d /\ Lt(At(h, j), d)
        BY <1>3, <2>2
      <3>2. PICK i \in DOMAIN trace : trace[i].ev = "INIT" /\ trace[i].q = q /\ d = Opening(i)
        BY <1>1, <1>3, WithinLifetime
      <3>3. At(h, j).act # "command" /\ At(h, j).act # "init_nfqueue"
        BY <2>2
      <3>4. PICK l \in DOMAIN trace : /\ trace[l].ev = "INIT" /\ trace[l].q = q
                                      /\ Lt(Opening(l), At(h, j))
        BY <1>1, <2>2, <3>3, WithinLifetime
      <3>5. l = i
        BY <1>1, <3>2, <3>4, OneOpening
      <3> QED BY <1>1, <1>3, <2>2, <3>1, <3>2, <3>4, <3>5, Order
    <2>4. PICK k \in S : d = At(k, j)
      BY <1>4, <2>3
    <2>5. S \subseteq DOMAIN trace
      BY DEF Arms
    <2>6. ASSUME NEW l \in S \ {k} PROVE Before(l, k)
      <3>1. At(l, j) \in Ran /\ At(l, j).act = act /\ At(l, j).q = q
        BY <1>2, <1>a
      <3>2. At(l, j) # At(k, j)
        <4>1. At(l, j).idx[1] = l /\ At(k, j).idx[1] = k
          BY DEF At
        <4> QED BY <4>1
      <3>3. Lt(At(l, j), At(k, j))
        BY <1>3, <2>4, <3>1, <3>2
      <3>4. At(l, j).time = trace[l].time /\ At(k, j).time = trace[k].time
        BY <1>a
      <3> QED BY <3>3, <3>4, AtOrder DEF Before
    <2>7. LastOf(S) = k
      BY <1>1, <2>5, <2>6, LastOfIs
    <2> QED BY <2>4, <2>7
  <1> QED BY <1>3, <1>4, <1>5

\* HandoverInForce for every trace: mark, loss and reordering are what the last of the
\* events that set them says; that event is of the handover that started last for the
\* mark, and of the last one that has a loss or a count for action_set_drop and
\* action_set_reorder.
THEOREM HandoversInForce == Spec => []HandoverInForce
  <1>1. (Lifetimes => ContextInv /\ ForceInv) => HandoverInForce
    <2> SUFFICES ASSUME ContextInv, ForceInv, Lifetimes, Settled, NEW q \in Used,
                        queues[q] = "bound"
                 PROVE  LET hos    == Started("HO", q, now)
                            losing == {k \in hos : Loss(trace[k]) > 0}
                            mixing == {k \in hos : trace[k].cnt > 0}
                        IN  /\ mark[q] = trace[LastOf(IF hos = {} THEN Rows("INIT", q) ELSE hos)].mark
                            /\ loss[q] = (IF losing = {} THEN 0 ELSE Loss(trace[LastOf(losing)]))
                            /\ reorder[q] = (IF mixing = {} THEN 0 ELSE trace[LastOf(mixing)].cnt)
      BY DEF HandoverInForce
    <2> DEFINE hos    == Started("HO", q, now)
               losing == {k \in hos : Loss(trace[k]) > 0}
               mixing == {k \in hos : trace[k].cnt > 0}
    <2>1. trace \in Traces /\ phase = "run" /\ now \in Nat /\ q \in Queues
      BY DEF ContextInv, TypeInv, Settled, Used
    <2>2. /\ hos \subseteq Rows("HO", q)
          /\ \A k : k \in hos <=>
                k \in DOMAIN trace /\ trace[k].ev = "HO" /\ trace[k].q = q /\ trace[k].time <= now
      BY DEF Started, Rows
    <2> HIDE DEF hos
    <2>3. \A k \in hos :
             /\ At(k, 3) \in Expansion /\ At(k, 3).act = "set_mark"
             /\ At(k, 3).time = trace[k].time /\ At(k, 3).q = q /\ At(k, 3).arg = trace[k].mark
             /\ Loss(trace[k]) > 0 =>
                   /\ At(k, 4) \in Expansion /\ At(k, 4).act = "set_drop"
                   /\ At(k, 4).time = trace[k].time /\ At(k, 4).q = q
                   /\ At(k, 4).arg = Loss(trace[k])
             /\ trace[k].cnt > 0 =>
                   /\ At(k, 5) \in Expansion /\ At(k, 5).act = "set_reorder"
                   /\ At(k, 5).time = trace[k].time /\ At(k, 5).q = q
                   /\ At(k, 5).arg = trace[k].cnt
      BY <2>1, <2>2, HoPlaces
    <2>4. loss[q] = (IF losing = {} THEN 0 ELSE Loss(trace[LastOf(losing)]))
      <3>1. PICK d : Last(Dropping, q, d) /\ loss[q] = d.arg
        BY <2>1 DEF ForceInv, LossInv
      <3>2. losing \subseteq DOMAIN trace /\ Last({"init_nfqueue", "set_drop"}, q, d)
        BY <2>2, <3>1 DEF Dropping
      <3>3. \A k \in losing :
               /\ At(k, 4) \in Expansion /\ At(k, 4).act = "set_drop" /\ At(k, 4).q = q
               /\ At(k, 4).time = trace[k].time /\ trace[k].time <= now
        BY <2>2, <2>3
      <3>4. ASSUME NEW e \in Expansion, e.q = q, e.act = "set_drop", e.time <= now
            PROVE  \E k \in losing : e = At(k, 4)
        <4>1. e.act \in Marking \cup Dropping \cup Reordering \cup Gating
          BY <3>4 DEF Dropping
        <4>2. PICK k \in DOMAIN trace : /\ trace[k].q = q /\ trace[k].ev = "HO"
                                        /\ e = At(k, 4) /\ Loss(trace[k]) > 0
          BY <2>1, <3>4, <4>1, FromRow
        <4>3. At(k, 4).time = trace[k].time
          BY <2>1, <4>2, HoPlaces
        <4> QED BY <2>2, <3>4, <4>2, <4>3
      <3> HIDE DEF losing
      <3>5. /\ losing = {} => d.act = "init_nfqueue"
            /\ losing # {} => LastOf(losing) \in losing /\ d = At(LastOf(losing), 4)
        <4>1. \A e \in Expansion : e.q = q /\ e.act = "set_drop" /\ e.time <= now =>
                 \E k \in losing : e = At(k, 4)
          BY <3>4
        <4>2. Arms(q, "set_drop", 4, losing) /\ "set_drop" \notin {"init_nfqueue", "command"}
          BY <3>2, <3>3, <4>1 DEF Arms
        <4> QED BY <3>2, <4>2, ArmedBy
      <3>6. losing = {} => d.arg = 0
        <4>1. d \in Expansion
          BY <2>1, <3>1 DEF Last, Ran
        <4> QED BY <2>1, <3>5, <4>1, BindArgument
      <3> QED BY <2>3, <3>1, <3>5, <3>6 DEF losing
    <2>5. reorder[q] = (IF mixing = {} THEN 0 ELSE trace[LastOf(mixing)].cnt)
      <3>1. PICK d : Last(Reordering, q, d) /\ reorder[q] = d.arg
        BY <2>1 DEF ForceInv, ReorderInv
      <3>2. mixing \subseteq DOMAIN trace /\ Last({"init_nfqueue", "set_reorder"}, q, d)
        BY <2>2, <3>1 DEF Reordering
      <3>3. \A k \in mixing :
               /\ At(k, 5) \in Expansion /\ At(k, 5).act = "set_reorder" /\ At(k, 5).q = q
               /\ At(k, 5).time = trace[k].time /\ trace[k].time <= now
        BY <2>2, <2>3
      <3>4. ASSUME NEW e \in Expansion, e.q = q, e.act = "set_reorder", e.time <= now
            PROVE  \E k \in mixing : e = At(k, 5)
        <4>1. e.act \in Marking \cup Dropping \cup Reordering \cup Gating
          BY <3>4 DEF Reordering
        <4>2. PICK k \in DOMAIN trace : /\ trace[k].q = q /\ trace[k].ev = "HO"
                                        /\ e = At(k, 5) /\ trace[k].cnt > 0
          BY <2>1, <3>4, <4>1, FromRow
        <4>3. At(k, 5).time = trace[k].time
          BY <2>1, <4>2, HoPlaces
        <4> QED BY <2>2, <3>4, <4>2, <4>3
      <3> HIDE DEF mixing
      <3>5. /\ mixing = {} => d.act = "init_nfqueue"
            /\ mixing # {} => LastOf(mixing) \in mixing /\ d = At(LastOf(mixing), 5)
        <4>1. \A e \in Expansion : e.q = q /\ e.act = "set_reorder" /\ e.time <= now =>
                 \E k \in mixing : e = At(k, 5)
          BY <3>4
        <4>2. Arms(q, "set_reorder", 5, mixing) /\ "set_reorder" \notin {"init_nfqueue", "command"}
          BY <3>2, <3>3, <4>1 DEF Arms
        <4> QED BY <3>2, <4>2, ArmedBy
      <3>6. mixing = {} => d.arg = 0
        <4>1. d \in Expansion
          BY <2>1, <3>1 DEF Last, Ran
        <4> QED BY <2>1, <3>5, <4>1, BindArgument
      <3> QED BY <2>3, <3>1, <3>5, <3>6 DEF mixing
    <2>6. mark[q] = trace[LastOf(IF hos = {} THEN Rows("INIT", q) ELSE hos)].mark
      <3>1. PICK d : Last(Marking, q, d) /\ mark[q] = d.arg
        BY <2>1 DEF ForceInv, MarkInv
      <3>2. PICK i \in DOMAIN trace :
               /\ trace[i].ev = "INIT" /\ trace[i].q = q /\ Opening(i) \in Ran
               /\ Rows("INIT", q) = {i}
               /\ \A k \in Rows("HO", q) : Before(i, k)
        BY OpenQueue
      <3>3. \A f \in Expansion : f \in Ran <=> f.time <= now
        BY RanSettled
      <3>4. /\ d \in Ran /\ d \in Expansion /\ d.q = q /\ d.act \in Marking /\ d.time <= now
            /\ \A f \in Ran : f.q = q /\ f.act \in Marking => f = d \/ Lt(f, d)
        <4>1. d \in Ran /\ d \in Expansion
          BY <2>1, <3>1 DEF Last, Ran
        <4> QED BY <3>1, <3>3, <4>1 DEF Last
      <3>5. PICK k \in DOMAIN trace :
               /\ trace[k].q = q
               /\ \/ trace[k].ev = "INIT" /\ d.act = "init_nfqueue" /\ d = Opening(k)
                  \/ trace[k].ev = "INIT" /\ d.act = "set_mark" /\ d = At(k, 4) /\ trace[k].mark > 0
                  \/ trace[k].ev = "HO" /\ d.act = "set_mark" /\ d = At(k, 3)
        BY <2>1, <3>4, FromRow DEF Marking
      <3>6. /\ trace[i] \in InitRows /\ Opening(i).time = trace[i].time
            /\ Opening(i) \in Expansion /\ Opening(i).act = "init_nfqueue"
            /\ trace[i].mark > 0 =>
                  /\ At(i, 4) \in Expansion /\ At(i, 4).act = "set_mark"
                  /\ At(i, 4).time = trace[i].time /\ At(i, 4).q = q /\ At(i, 4).arg = trace[i].mark
        BY <2>1, <3>2, Ends, InitPlaces
      <3>7. CASE trace[k].ev = "INIT"
        <4>1. k = i
          BY <2>1, <3>2, <3>5, <3>7, OneOpening
        <4>2. hos = {}
          <5> SUFFICES ASSUME NEW h \in hos PROVE FALSE
            OBVIOUS
          <5>1. At(h, 3) \in Ran /\ At(h, 3).act \in Marking
            BY <2>2, <2>3, <3>3 DEF Marking
          <5>2. At(h, 3) # d
            <6>1. At(h, 3).idx[1] = h /\ Opening(i).idx[1] = i /\ At(i, 4).idx[1] = i
              BY DEF At, Opening
            <6>2. h # i
              BY <2>2, <3>2
            <6> QED BY <3>5, <3>7, <4>1, <6>1, <6>2
          <5>3. Lt(At(h, 3), d)
            BY <2>3, <3>4, <5>1, <5>2
          <5>4. Before(i, h) /\ At(h, 3).time = trace[h].time /\ d.time = trace[i].time
            BY <2>2, <2>3, <3>2, <3>5, <3>6, <3>7, <4>1
          <5>5. Lt(d, At(h, 3))
            <6>1. d = At(i, 1) \/ d = At(i, 4)
              BY <3>5, <3>7, <4>1 DEF Opening
            <6> QED BY <5>4, <6>1, AtOrder DEF Before
          <5> QED BY <2>1, <2>3, <3>4, <5>3, <5>5, Order
        <4>3. d.arg = trace[i].mark
          <5>1. CASE d = At(i, 4) /\ trace[i].mark > 0
            BY <3>6, <5>1
          <5>2. CASE d = Opening(i)
            <6>1. d.arg = 0
              BY <2>1, <3>4, <3>6, <5>2, BindArgument
            <6>2. ~(trace[i].mark > 0)
              <7> SUFFICES ASSUME trace[i].mark > 0 PROVE FALSE
                OBVIOUS
              <7>1. At(i, 4) \in Ran /\ At(i, 4) # d
                BY <3>3, <3>4, <3>6, <5>2
              <7>2. Lt(At(i, 4), d)
                BY <3>4, <3>6, <7>1 DEF Marking
              <7>3. Lt(d, At(i, 4))
                <8>1. At(i, 1).time = At(i, 4).time /\ d = At(i, 1)
                  BY <3>6, <5>2 DEF Opening
                <8> QED BY <8>1, AtOrder
              <7> QED BY <2>1, <3>4, <3>6, <7>2, <7>3, Order
            <6> QED BY <3>6, <6>1, <6>2 DEF InitRows
          <5> QED BY <3>5, <3>7, <4>1, <5>1, <5>2
        <4>4. LastOf(Rows("INIT", q)) = i
          <5>1. Rows("INIT", q) \in SUBSET DOMAIN trace /\ i \in Rows("INIT", q)
            BY <3>2 DEF Rows
          <5>2. \A l \in Rows("INIT", q) \ {i} : Before(l, i)
            BY <3>2
          <5> QED BY <2>1, <5>1, <5>2, LastOfIs
        <4> QED BY <3>1, <4>2, <4>3, <4>4
      <3>8. CASE trace[k].ev = "HO"
        <4>1. d = At(k, 3) /\ k \in hos
          <5>1. d = At(k, 3)
            BY <3>5, <3>8
          <5>2. At(k, 3).time = trace[k].time
            BY <2>1, <3>8, HoPlaces
          <5> QED BY <2>2, <3>4, <3>5, <3>8, <5>1, <5>2
        <4>2. ASSUME NEW l \in hos \ {k} PROVE Before(l, k)
          <5>1. At(l, 3) \in Ran /\ At(l, 3).act \in Marking /\ At(l, 3).q = q
            BY <2>2, <2>3, <3>3 DEF Marking
          <5>2. At(l, 3) # At(k, 3)
            <6>1. At(l, 3).idx[1] = l /\ At(k, 3).idx[1] = k
              BY DEF At
            <6> QED BY <6>1
          <5>3. Lt(At(l, 3), At(k, 3))
            BY <3>4, <4>1, <5>1, <5>2
          <5>4. At(l, 3).time = trace[l].time /\ At(k, 3).time = trace[k].time
            BY <2>3, <4>1
          <5> QED BY <5>3, <5>4, AtOrder DEF Before
        <4>3. hos \subseteq DOMAIN trace
          BY <2>2
        <4>4. LastOf(hos) = k
          BY <2>1, <4>1, <4>2, <4>3, LastOfIs
        <4> QED BY <2>3, <3>1, <4>1, <4>4
      <3> QED BY <3>5, <3>7, <3>8
    <2> QED BY <2>4, <2>5, <2>6 DEF hos
  <1> QED BY <1>1, ForceKept, PTL

-----------------------------------------------------------------------------
(* The phases of the window controller. *)

Places(k) == DOMAIN parse_event(trace[k])

\* An event of row k, at place j of it.
Is(k, j, act, arg, time) ==
    /\ At(k, j) \in Expansion /\ At(k, j).act = act /\ At(k, j).q = trace[k].q
    /\ At(k, j).arg = arg /\ At(k, j).time = time

\* Where the phases of SOL_HO row k are.
SolAt(k, a, b, c) ==
    LET r == trace[k]
    IN  /\ 1 <= a /\ a <= b /\ b <= c
        /\ Is(k, 1, "sol_update", r.mark, r.time)
        /\ r.enable_dedup > 0 => /\ Is(k, a + 1, "set_dedup", 1, Thawed(r))
                                 /\ Is(k, a + 2, "set_dedup", 0, Thawed(r) + r.smooth_ms)
        /\ r.burst_duration > 0 => /\ Is(k, b + 1, "set_burst", 1, Thawed(r))
                                   /\ Is(k, b + 2, "set_burst", 0, Done(r)) /\ b + 2 <= c
        /\ r.enable_adapt > 0 => Is(k, c + 1, "set_adapt", 1, Done(r))
        /\ \A j \in Places(k) :
              /\ At(k, j).act = "sol_update" => j = 1
              /\ At(k, j).act = "set_dedup" => r.enable_dedup > 0 /\ j \in {a + 1, a + 2}
              /\ At(k, j).act = "set_burst" => r.burst_duration > 0 /\ j \in {b + 1, b + 2}
              /\ At(k, j).act = "set_adapt" => r.enable_adapt > 0 /\ j = c + 1

\* The moments of a SOL_HO row follow each other, and its events are there.
LEMMA SolHas ==
    ASSUME trace \in Traces, NEW k \in DOMAIN trace, trace[k].ev = "SOL_HO"
    PROVE  LET r == trace[k]
           IN  /\ r \in SolRows /\ Thawed(r) \in Nat /\ Done(r) \in Nat /\ LastTime(r) \in Nat
               /\ r.time <= Thawed(r) /\ Thawed(r) <= Done(r) /\ Done(r) <= LastTime(r)
               /\ r.burst_duration = 0 => Thawed(r) = Done(r)
               /\ r.enable_dedup > 0 => Thawed(r) + r.smooth_ms <= LastTime(r)
               /\ \E a, b, c \in Nat : SolAt(k, a, b, c)
  <1> DEFINE r == trace[k]
             s == parse_event(r)
  <1>1. r \in Row /\ r.ev = "SOL_HO" /\ DOMAIN s = 1 .. Len(s) /\ Len(s) \in Nat
    BY TraceRows
  <1>2. r \in SolRows
    BY <1>1, RowKinds
  <1>3. PICK a, b, c \in Nat : SolPlaces(r, s, a, b, c)
    BY <1>1, SolEvents
  <1> HIDE DEF s
  <1>4. /\ r.time \in Nat /\ r.freeze_ms \in Nat /\ r.burst_duration \in Nat /\ r.smooth_ms \in Nat
        /\ r.enable_dedup \in Nat /\ r.enable_adapt \in Nat /\ r.enable_freeze \in Nat
    BY <1>2 DEF SolRows
  <1>5. Thawed(r) = r.time + r.freeze_ms /\ Done(r) = r.time + r.freeze_ms + r.burst_duration
    BY DEF Thawed, Done
  <1>6. LastTime(r) = IF r.enable_dedup > 0 /\ r.smooth_ms > r.burst_duration
                        THEN Thawed(r) + r.smooth_ms ELSE Done(r)
    BY <1>1 DEF LastTime
  <1>7. /\ Thawed(r) \in Nat /\ Done(r) \in Nat /\ LastTime(r) \in Nat
        /\ r.time <= Thawed(r) /\ Thawed(r) <= Done(r) /\ Done(r) <= LastTime(r)
        /\ r.burst_duration = 0 => Thawed(r) = Done(r)
        /\ r.enable_dedup > 0 => Thawed(r) + r.smooth_ms <= LastTime(r)
    BY <1>4, <1>5, <1>6
  <1>8. /\ a = 1 + (IF r.enable_freeze > 0 THEN 1 ELSE 0)
        /\ b = a + (IF r.enable_dedup > 0 THEN 2 ELSE 0)
        /\ c = b + (IF r.burst_duration > 0 THEN 2 ELSE 0)
        /\ Len(s) = c + (IF r.enable_adapt > 0 THEN 1 ELSE 0)
    BY <1>3 DEF SolPlaces
  <1>9. /\ s[1] = Ev(r.time, "sol_update", r.q, r.mark)
        /\ r.enable_freeze > 0 => s[2] = Ev(r.time, "set_rwnd", r.q, r.mark)
        /\ r.enable_dedup > 0 => /\ s[a + 1] = Ev(Thawed(r), "set_dedup", r.q, 1)
                                 /\ s[a + 2] = Ev(Thawed(r) + r.smooth_ms, "set_dedup", r.q, 0)
        /\ r.burst_duration > 0 => /\ s[b + 1] = Ev(Thawed(r), "set_burst", r.q, 1)
                                   /\ s[b + 2] = Ev(Done(r), "set_burst", r.q, 0)
        /\ r.enable_adapt > 0 => s[c + 1] = Ev(Done(r), "set_adapt", r.q, 1)
    BY <1>3 DEF SolPlaces
  <1>10. /\ 1 \in DOMAIN s
         /\ r.enable_dedup > 0 => a + 1 \in DOMAIN s /\ a + 2 \in DOMAIN s
         /\ r.burst_duration > 0 => b + 1 \in DOMAIN s /\ b + 2 \in DOMAIN s /\ b + 2 <= c
         /\ r.enable_adapt > 0 => c + 1 \in DOMAIN s
         /\ 1 <= a /\ a <= b /\ b <= c
    BY <1>1, <1>8
  <1>11. \A j \in DOMAIN s : At(k, j) \in Expansion
    BY ExpansionIs DEF s
  <1>12. \A j : /\ At(k, j).act = s[j].act /\ At(k, j).time = s[j].time
                /\ At(k, j).q = s[j].q /\ At(k, j).arg = s[j].arg
    BY DEF At, s
  <1>13. ASSUME NEW j \in DOMAIN s, NEW act, NEW arg, NEW time, s[j] = Ev(time, act, r.q, arg)
         PROVE  Is(k, j, act, arg, time)
    <2>1. s[j].act = act /\ s[j].q = r.q /\ s[j].arg = arg /\ s[j].time = time
      BY <1>13 DEF Ev
    <2> QED BY <1>11, <1>12, <2>1 DEF Is
  <1>14. /\ Is(k, 1, "sol_update", r.mark, r.time)
         /\ r.enable_dedup > 0 => /\ Is(k, a + 1, "set_dedup", 1, Thawed(r))
                                  /\ Is(k, a + 2, "set_dedup", 0, Thawed(r) + r.smooth_ms)
         /\ r.burst_duration > 0 => /\ Is(k, b + 1, "set_burst", 1, Thawed(r))
                                    /\ Is(k, b + 2, "set_burst", 0, Done(r))
         /\ r.enable_adapt > 0 => Is(k, c + 1, "set_adapt", 1, Done(r))
    BY <1>9, <1>10, <1>13
  <1>15. ASSUME NEW j \in DOMAIN s
         PROVE  /\ At(k, j).act = "sol_update" => j = 1
                /\ At(k, j).act = "set_dedup" => r.enable_dedup > 0 /\ j \in {a + 1, a + 2}
                /\ At(k, j).act = "set_burst" => r.burst_duration > 0 /\ j \in {b + 1, b + 2}
                /\ At(k, j).act = "set_adapt" => r.enable_adapt > 0 /\ j = c + 1
    <2>1. \/ j = 1
          \/ j = 2 /\ r.enable_freeze > 0
          \/ j \in {a + 1, a + 2} /\ r.enable_dedup > 0
          \/ j \in {b + 1, b + 2} /\ r.burst_duration > 0
          \/ j = c + 1 /\ r.enable_adapt > 0
      <3>1. j \in Nat /\ 1 <= j /\ j <= Len(s)
        BY <1>1
      <3>2. j <= c + 1 /\ (j = c + 1 => r.enable_adapt > 0)
        BY <1>8, <3>1
      <3>3. j <= c => j <= b \/ (r.burst_duration > 0 /\ j \in {b + 1, b + 2})
        BY <1>8, <3>1
      <3>4. j <= b => j <= a \/ (r.enable_dedup > 0 /\ j \in {a + 1, a + 2})
        BY <1>8, <3>1
      <3>5. j <= a => j = 1 \/ (j = 2 /\ r.enable_freeze > 0)
        BY <1>8, <3>1
      <3> QED BY <3>1, <3>2, <3>3, <3>4, <3>5
    <2>2. /\ s[1].act = "sol_update"
          /\ r.enable_freeze > 0 => s[2].act = "set_rwnd"
          /\ r.enable_dedup > 0 => s[a + 1].act = "set_dedup" /\ s[a + 2].act = "set_dedup"
          /\ r.burst_duration > 0 => s[b + 1].act = "set_burst" /\ s[b + 2].act = "set_burst"
          /\ r.enable_adapt > 0 => s[c + 1].act = "set_adapt"
      BY <1>9 DEF Ev
    <2>3. At(k, j).act = s[j].act
      BY <1>12
    <2> QED BY <2>1, <2>2, <2>3
  <1>16. SolAt(k, a, b, c)
    BY <1>10, <1>14, <1>15 DEF SolAt, Places, s
  <1> QED BY <1>2, <1>7, <1>16

\* The row an event of the controller comes from, and when.
LEMMA FromSol ==
    ASSUME trace \in Traces, NEW e \in Expansion,
           e.act \in {"sol_update", "set_dedup", "set_burst", "set_adapt", "init_tcp_sched"}
    PROVE  \E k \in DOMAIN trace : \E j \in Places(k) :
              /\ e = At(k, j) /\ trace[k].q = e.q /\ trace[k].time <= e.time
              /\ \/ trace[k].ev = "SOL_HO" /\ e.act # "init_tcp_sched"
                 \/ trace[k].ev = "SOL_HANDLEDUP" /\ e.act = "set_dedup" /\ j = 1
                 \/ trace[k].ev = "SOL_INIT_SCHED" /\ e.act = "init_tcp_sched" /\ j = 1
  <1>1. PICK k \in DOMAIN trace : \E j \in DOMAIN parse_event(trace[k]) :
           /\ e = At(k, j) /\ trace[k] \in Row /\ e.time = parse_event(trace[k])[j].time
           /\ e.act = parse_event(trace[k])[j].act /\ e.q = parse_event(trace[k])[j].q
    BY EventFacts
  <1>2. PICK j \in DOMAIN parse_event(trace[k]) :
           /\ e = At(k, j) /\ trace[k] \in Row /\ e.time = parse_event(trace[k])[j].time
           /\ e.act = parse_event(trace[k])[j].act /\ e.q = parse_event(trace[k])[j].q
    BY <1>1
  <1> DEFINE r == trace[k]
  <1>3. /\ r.ev = "CMD" => e.act = "command"
        /\ r.ev # "CMD" => e.q = r.q
        /\ r.ev \in Users \cup {"INIT", "CMD"}
        /\ r.ev = "INIT" => e.act \in {"init_nfqueue", "teardown_nfqueue", "start_nfqueue", "set_mark"}
        /\ r.ev = "HO" => e.act \in {"stop_nfqueue", "start_nfqueue", "set_mark", "set_drop", "set_reorder"}
        /\ r.ev = "SOL_HO" =>
              e.act \in {"sol_update", "set_rwnd", "set_dedup", "set_burst", "set_adapt"}
        /\ r.ev = "SOL_HANDLEDUP" => e.act = "set_dedup"
        /\ r.ev = "SOL_INIT_SCHED" => e.act = "init_tcp_sched"
        /\ r.ev \in Users => r.time <= e.time
    BY <1>2, EventOfRow
  <1>4. r.ev \in {"SOL_HO", "SOL_HANDLEDUP", "SOL_INIT_SCHED"}
    BY <1>3 DEF Users
  <1>5. r.ev # "SOL_HO" => j = 1
    <2> SUFFICES ASSUME r.ev \in {"SOL_HANDLEDUP", "SOL_INIT_SCHED"} PROVE j = 1
      BY <1>4
    <2>1. r \in Row /\ r.ev \in {"SOL_HANDLEDUP", "SOL_INIT_SCHED", "CMD", "UNKNOWN"}
      BY <1>2
    <2>2. Len(parse_event(r)) = 1
      BY <2>1, OtherEvents
    <2>3. j \in 1 .. Len(parse_event(r))
      BY TraceRows
    <2> QED BY <2>2, <2>3
  <1> QED BY <1>2, <1>3, <1>4, <1>5 DEF Users, Places

\* The one event of the other controller rows.
LEMMA OtherPlaces ==
    ASSUME trace \in Traces, NEW k \in DOMAIN trace
    PROVE  /\ trace[k].ev = "SOL_HANDLEDUP" =>
                 Is(k, 1, "set_dedup", trace[k].enable, trace[k].time)
           /\ trace[k].ev = "SOL_INIT_SCHED" =>
                 /\ At(k, 1) \in Expansion /\ At(k, 1).act = "init_tcp_sched"
                 /\ At(k, 1).q = trace[k].q /\ At(k, 1).time = trace[k].time
  <1> DEFINE r == trace[k]
             s == parse_event(r)
  <1> SUFFICES ASSUME r.ev \in {"SOL_HANDLEDUP", "SOL_INIT_SCHED"}
               PROVE  /\ r.ev = "SOL_HANDLEDUP" => Is(k, 1, "set_dedup", r.enable, r.time)
                      /\ r.ev = "SOL_INIT_SCHED" =>
                           /\ At(k, 1) \in Expansion /\ At(k, 1).act = "init_tcp_sched"
                           /\ At(k, 1).q = r.q /\ At(k, 1).time = r.time
    OBVIOUS
  <1>1. r \in Row /\ DOMAIN s = 1 .. Len(s)
    BY TraceRows
  <1>2. /\ Len(s) = 1
        /\ r.ev = "SOL_HANDLEDUP" => s[1] = Ev(r.time, "set_dedup", r.q, r.enable)
        /\ r.ev = "SOL_INIT_SCHED" => s[1].act = "init_tcp_sched" /\ s[1].time = r.time /\ s[1].q = r.q
    BY <1>1, OtherEvents
  <1>3. At(k, 1) \in Expansion
    <2>1. 1 \in DOMAIN s
      BY <1>1, <1>2
    <2> QED BY <2>1, ExpansionIs
  <1>4. /\ At(k, 1).act = s[1].act /\ At(k, 1).time = s[1].time
        /\ At(k, 1).q = s[1].q /\ At(k, 1).arg = s[1].arg
    BY DEF At
  <1> HIDE DEF s
  <1>5. r.ev = "SOL_HANDLEDUP" =>
           s[1].act = "set_dedup" /\ s[1].time = r.time /\ s[1].q = r.q /\ s[1].arg = r.enable
    BY <1>2 DEF Ev
  <1> QED BY <1>2, <1>3, <1>4, <1>5 DEF Is

\* The events of a row lie between its time and its LastTime.
LEMMA RowSpan ==
    ASSUME trace \in Traces, NEW k \in DOMAIN trace, NEW j \in Places(k), trace[k].ev \in Users
    PROVE  /\ At(k, j) \in Expansion /\ At(k, j).time \in Nat /\ j \in Nat
           /\ At(k, j).q = trace[k].q
           /\ trace[k].time <= At(k, j).time /\ At(k, j).time <= LastTime(trace[k])
  <1>1. trace[k] \in Row /\ j \in DOMAIN parse_event(trace[k])
    BY TraceRows DEF Places
  <1>2. At(k, j) \in Expansion
    BY <1>1, ExpansionIs
  <1>3. At(k, j).time \in Nat
    BY <1>2, EventFacts
  <1>4. At(k, j).time = parse_event(trace[k])[j].time /\ At(k, j).q = parse_event(trace[k])[j].q
    BY DEF At
  <1>5. j \in Nat
    BY <1>1, EventOfRow
  <1>6. trace[k].ev # "CMD"
    BY DEF Users
  <1>7. /\ trace[k].time <= parse_event(trace[k])[j].time
        /\ parse_event(trace[k])[j].time <= LastTime(trace[k])
        /\ parse_event(trace[k])[j].q = trace[k].q
    BY <1>1, <1>6, EventOfRow
  <1> QED BY <1>2, <1>3, <1>4, <1>5, <1>7

\* Of two SOL_HO rows that do not overlap, all of the one runs before the other.
LEMMA Apart ==
    ASSUME trace \in Traces, NEW q, Disjoint("SOL_HO", q), NEW k \in Rows("SOL_HO", q),
           NEW l \in Rows("SOL_HO", q), k < l
    PROVE  /\ \A i \in Places(k), j \in Places(l) : Lt(At(k, i), At(l, j))
           /\ LastTime(trace[k]) <= trace[l].time
           /\ Before(k, l)
  <1>1. /\ k \in DOMAIN trace /\ trace[k].ev = "SOL_HO" /\ trace[k].ev \in Users
        /\ l \in DOMAIN trace /\ trace[l].ev = "SOL_HO" /\ trace[l].ev \in Users
    BY DEF Rows, Users
  <1>2. LastTime(trace[k]) <= trace[l].time
    BY DEF Disjoint
  <1>3. LastTime(trace[k]) \in Nat
    BY <1>1, SolHas
  <1>4. trace[k].time \in Nat /\ trace[l].time \in Nat
    BY <1>1, RowOrder
  <1>5. ASSUME NEW i \in Places(k), NEW j \in Places(l) PROVE Lt(At(k, i), At(l, j))
    <2>1. /\ At(k, i).time \in Nat /\ At(k, i).time <= LastTime(trace[k])
          /\ At(l, j).time \in Nat /\ trace[l].time <= At(l, j).time
      BY <1>1, RowSpan
    <2>2. At(k, i).time <= At(l, j).time
      BY <1>2, <1>3, <1>4, <2>1
    <2> QED BY <2>1, <2>2, AtOrder
  <1>6. trace[k].time <= LastTime(trace[k])
    <2>1. /\ trace[k].time <= Thawed(trace[k]) /\ Thawed(trace[k]) <= Done(trace[k])
          /\ Done(trace[k]) <= LastTime(trace[k])
          /\ Thawed(trace[k]) \in Nat /\ Done(trace[k]) \in Nat
      BY <1>1, SolHas
    <2> QED BY <1>3, <1>4, <2>1
  <1>7. Before(k, l)
    BY <1>2, <1>3, <1>4, <1>6 DEF Before
  <1> QED BY <1>2, <1>5, <1>7

\* The bind is before everything else of its queue.
LEMMA BindFirst ==
    ASSUME trace \in Traces, Lifetimes, NEW d \in Expansion, NEW e \in Expansion, d.q = e.q,
           d.act = "init_nfqueue", e.act \notin {"init_nfqueue", "command"}
    PROVE  Lt(d, e)
  <1>1. PICK i \in DOMAIN trace : trace[i].ev = "INIT" /\ trace[i].q = d.q /\ d = Opening(i)
    BY WithinLifetime
  <1>2. PICK l \in DOMAIN trace : trace[l].ev = "INIT" /\ trace[l].q = e.q /\ Lt(Opening(l), e)
    BY WithinLifetime
  <1> QED BY <1>1, <1>2, OneOpening

\* The last of a kind of handlers, and that nothing of the kind that has run is
\* after it.
LEMMA LastFacts ==
    ASSUME ContextInv, Settled, NEW A, NEW q, NEW d, Last(A, q, d)
    PROVE  /\ d \in Expansion /\ d.q = q /\ d.act \in A /\ d.time \in Nat /\ d.time <= now
           /\ \A f \in Expansion : f.q = q /\ f.act \in A /\ f.time <= now => f = d \/ Lt(f, d)
           /\ \A f \in Expansion : f.q = q /\ f.act \in A /\ f.time <= now => ~Lt(d, f)
  <1>1. trace \in Traces /\ phase = "run"
    BY DEF ContextInv, TypeInv, Settled
  <1>2. d \in Ran /\ d \in Expansion
    BY <1>1 DEF Last, Ran
  <1>3. \A e \in Expansion : e \in Ran <=> e.time <= now
    BY RanSettled
  <1>4. \A f \in Expansion : f.q = q /\ f.act \in A /\ f.time <= now => f = d \/ Lt(f, d)
    BY <1>3 DEF Last
  <1>5. d.time \in Nat
    BY <1>1, <1>2, EventFacts
  <1> QED BY <1>1, <1>2, <1>3, <1>4, <1>5, Order DEF Last

\* The SOL_HO rows that have started, and the numbers in them.
LEMMA StartedSol ==
    ASSUME trace \in Traces, now \in Nat, NEW q, NEW k
    PROVE  /\ k \in Started("SOL_HO", q, now) =>
                 k \in Rows("SOL_HO", q) /\ trace[k].time <= now
           /\ k \in DOMAIN trace /\ trace[k].ev = "SOL_HO" /\ trace[k].q = q /\ trace[k].time <= now
                 => k \in Started("SOL_HO", q, now)
           /\ k \in Rows("SOL_HO", q) =>
                 /\ k \in DOMAIN trace /\ trace[k].ev = "SOL_HO" /\ trace[k].q = q /\ k \in Nat
                 /\ trace[k].time \in Nat /\ trace[k].burst_duration \in Nat
                 /\ trace[k].smooth_ms \in Nat
                 /\ Thawed(trace[k]) \in Nat /\ Done(trace[k]) \in Nat /\ LastTime(trace[k]) \in Nat
                 /\ trace[k].time <= Thawed(trace[k]) /\ Thawed(trace[k]) <= Done(trace[k])
                 /\ Done(trace[k]) <= LastTime(trace[k])
                 /\ trace[k].burst_duration = 0 => Thawed(trace[k]) = Done(trace[k])
                 /\ trace[k].enable_dedup > 0 =>
                       Thawed(trace[k]) + trace[k].smooth_ms <= LastTime(trace[k])
  <1>1. /\ k \in Started("SOL_HO", q, now) => k \in Rows("SOL_HO", q) /\ trace[k].time <= now
        /\ k \in DOMAIN trace /\ trace[k].ev = "SOL_HO" /\ trace[k].q = q /\ trace[k].time <= now
              => k \in Started("SOL_HO", q, now)
    BY DEF Started, Rows
  <1>2. k \in Rows("SOL_HO", q) =>
           k \in DOMAIN trace /\ trace[k].ev = "SOL_HO" /\ trace[k].q = q
    BY DEF Rows
  <1>3. k \in Rows("SOL_HO", q) => k \in Nat /\ trace[k].time \in Nat
    BY <1>2, RowOrder
  <1>4. k \in Rows("SOL_HO", q) =>
           /\ trace[k] \in SolRows
           /\ Thawed(trace[k]) \in Nat /\ Done(trace[k]) \in Nat /\ LastTime(trace[k]) \in Nat
           /\ trace[k].time <= Thawed(trace[k]) /\ Thawed(trace[k]) <= Done(trace[k])
           /\ Done(trace[k]) <= LastTime(trace[k])
           /\ trace[k].burst_duration = 0 => Thawed(trace[k]) = Done(trace[k])
           /\ trace[k].enable_dedup > 0 =>
                 Thawed(trace[k]) + trace[k].smooth_ms <= LastTime(trace[k])
    BY <1>2, SolHas
  <1>5. k \in Rows("SOL_HO", q) => trace[k].burst_duration \in Nat /\ trace[k].smooth_ms \in Nat
    BY <1>4 DEF SolRows
  <1> QED BY <1>1, <1>2, <1>3, <1>4, <1>5

\* Burst estimation is on exactly in the windows of the rows.
LEMMA BurstWindow ==
    ASSUME ContextInv, ForceInv, Lifetimes, Settled, NEW q \in Used, queues[q] = "bound",
           Disjoint("SOL_HO", q)
    PROVE  q \in burst <=>
              \E k \in Started("SOL_HO", q, now) : Thawed(trace[k]) <= now /\ now < Done(trace[k])
  <1>1. trace \in Traces /\ now \in Nat /\ q \in Queues
    BY DEF ContextInv, TypeInv, Used
  <1>2. PICK d : Last(Bursting, q, d) /\ (q \in burst <=> BurstsOn(d))
    BY <1>1 DEF ForceInv, BurstInv
  <1>3. /\ d \in Expansion /\ d.q = q /\ d.act \in Bursting /\ d.time \in Nat /\ d.time <= now
        /\ \A f \in Expansion : f.q = q /\ f.act \in Bursting /\ f.time <= now => f = d \/ Lt(f, d)
        /\ \A f \in Expansion : f.q = q /\ f.act \in Bursting /\ f.time <= now => ~Lt(d, f)
    BY <1>2, LastFacts
  <1>4. ASSUME BurstsOn(d)
        PROVE  \E k \in Started("SOL_HO", q, now) :
                  Thawed(trace[k]) <= now /\ now < Done(trace[k])
    <2>1. PICK k \in DOMAIN trace : \E j \in Places(k) :
             /\ d = At(k, j) /\ trace[k].q = q /\ trace[k].time <= d.time /\ trace[k].ev = "SOL_HO"
      BY <1>1, <1>3, <1>4, FromSol DEF BurstsOn
    <2>2. PICK j \in Places(k) : d = At(k, j)
      BY <2>1
    <2>3. k \in Rows("SOL_HO", q)
      BY <2>1 DEF Rows
    <2>4. /\ trace[k].time \in Nat /\ Thawed(trace[k]) \in Nat /\ Done(trace[k]) \in Nat
          /\ Thawed(trace[k]) <= Done(trace[k])
      BY <1>1, <2>3, StartedSol
    <2>5. k \in Started("SOL_HO", q, now)
      <3>1. trace[k].time <= now
        BY <1>1, <1>3, <2>1, <2>4
      <3> QED BY <1>1, <2>1, <3>1, StartedSol
    <2>6. PICK a, b, c \in Nat : SolAt(k, a, b, c)
      BY <1>1, <2>1, SolHas
    <2>7. trace[k].burst_duration > 0 /\ j \in {b + 1, b + 2}
      BY <1>4, <2>2, <2>6 DEF SolAt, BurstsOn
    <2>8. Is(k, b + 1, "set_burst", 1, Thawed(trace[k])) /\ Is(k, b + 2, "set_burst", 0, Done(trace[k]))
      BY <2>6, <2>7 DEF SolAt
    <2>9. d = At(k, b + 1) /\ d.time = Thawed(trace[k])
      BY <1>4, <2>2, <2>7, <2>8 DEF Is, BurstsOn
    <2>10. ~(Done(trace[k]) <= now)
      <3>1. Lt(At(k, b + 1), At(k, b + 2))
        <4>1. At(k, b + 1).time <= At(k, b + 2).time
              /\ At(k, b + 1).time \in Nat /\ At(k, b + 2).time \in Nat
          BY <2>4, <2>8 DEF Is
        <4> QED BY <4>1, AtOrder
      <3> QED BY <1>3, <2>1, <2>8, <2>9, <3>1 DEF Is, Bursting
    <2> QED BY <1>1, <1>3, <2>4, <2>5, <2>9, <2>10
  <1>5. ASSUME NEW k \in Started("SOL_HO", q, now), Thawed(trace[k]) <= now, now < Done(trace[k])
        PROVE  BurstsOn(d)
    <2>1. k \in Rows("SOL_HO", q) /\ trace[k].time <= now
      BY <1>1, StartedSol
    <2>2. /\ k \in DOMAIN trace /\ trace[k].ev = "SOL_HO" /\ trace[k].q = q /\ k \in Nat
          /\ trace[k].time \in Nat /\ trace[k].burst_duration \in Nat
          /\ Thawed(trace[k]) \in Nat /\ Done(trace[k]) \in Nat /\ LastTime(trace[k]) \in Nat
          /\ trace[k].time <= Thawed(trace[k]) /\ Done(trace[k]) <= LastTime(trace[k])
          /\ trace[k].burst_duration = 0 => Thawed(trace[k]) = Done(trace[k])
      BY <1>1, <2>1, StartedSol
    <2>3. trace[k].burst_duration > 0
      BY <1>1, <1>5, <2>2
    <2>4. PICK a, b, c \in Nat : SolAt(k, a, b, c)
      BY <1>1, <2>2, SolHas
    <2>5. /\ Is(k, b + 1, "set_burst", 1, Thawed(trace[k]))
          /\ Is(k, b + 2, "set_burst", 0, Done(trace[k]))
          /\ Is(k, 1, "sol_update", trace[k].mark, trace[k].time)
          /\ 1 <= a /\ a <= b /\ b <= c
      BY <2>3, <2>4 DEF SolAt
    <2> DEFINE x == At(k, b + 1)
    <2>6. /\ x \in Expansion /\ x.act = "set_burst" /\ x.q = q /\ x.arg = 1
          /\ x.time = Thawed(trace[k]) /\ x.time <= now
      BY <1>5, <2>2, <2>5 DEF Is
    <2>7. ~Lt(d, x) /\ (x = d \/ Lt(x, d))
      BY <1>3, <2>6 DEF Bursting
    <2>8. d.act # "init_nfqueue"
      <3> SUFFICES ASSUME d.act = "init_nfqueue" PROVE FALSE
        OBVIOUS
      <3>1. x.act \notin {"init_nfqueue", "command"} /\ d.q = x.q
        BY <1>3, <2>6
      <3>2. Lt(d, x)
        BY <1>1, <1>3, <2>6, <3>1, BindFirst
      <3> QED BY <2>7, <3>2
    <2>9. PICK l \in DOMAIN trace : \E j \in Places(l) :
             d = At(l, j) /\ trace[l].q = q /\ trace[l].ev = "SOL_HO" /\ trace[l].time <= d.time
      BY <1>1, <1>3, <2>8, FromSol DEF Bursting
    <2>10. PICK j \in Places(l) : d = At(l, j)
      BY <2>9
    <2>11. l \in Rows("SOL_HO", q)
      BY <2>9 DEF Rows
    <2>12. l \in Nat /\ trace[l].time \in Nat
      BY <1>1, <2>11, StartedSol
    <2>13. b + 1 \in Places(k)
      <3>1. \E m \in DOMAIN trace : \E n \in Places(m) : x = At(m, n)
        BY <1>1, <2>6, FromSol
      <3>2. \A m, n : At(m, n).idx[1] = m /\ At(m, n).idx[2] = n
        BY DEF At
      <3> QED BY <3>1, <3>2
    <2>14. ~(l < k)
      BY <1>1, <2>1, <2>7, <2>10, <2>11, <2>13, Apart
    <2>15. ~(k < l)
      <3> SUFFICES ASSUME k < l PROVE FALSE
        OBVIOUS
      <3>1. LastTime(trace[k]) <= trace[l].time
        BY <1>1, <2>1, <2>11, Apart
      <3> QED BY <1>1, <1>3, <1>5, <2>2, <2>9, <2>12, <3>1
    <2>16. l = k
      BY <2>2, <2>12, <2>14, <2>15
    <2>17. \/ d.act = "sol_update" /\ j = 1
           \/ d.act = "set_burst" /\ j \in {b + 1, b + 2}
           \/ d.act = "set_adapt" /\ j = c + 1 /\ trace[k].enable_adapt > 0
      <3>1. /\ d.act = "sol_update" => j = 1
            /\ d.act = "set_burst" => j \in {b + 1, b + 2}
            /\ d.act = "set_adapt" => trace[k].enable_adapt > 0 /\ j = c + 1
        BY <2>4, <2>10, <2>16 DEF SolAt
      <3> QED BY <1>3, <2>8, <3>1 DEF Bursting
    <2>18. ~(d.act = "set_adapt")
      <3> SUFFICES ASSUME d.act = "set_adapt" PROVE FALSE
        OBVIOUS
      <3>1. d = At(k, c + 1) /\ trace[k].enable_adapt > 0
        BY <2>10, <2>16, <2>17
      <3>2. d.time = Done(trace[k])
        BY <2>4, <3>1 DEF SolAt, Is
      <3> QED BY <1>1, <1>3, <1>5, <2>2, <3>2
    <2>19. ~(d.act = "sol_update")
      <3> SUFFICES ASSUME d.act = "sol_update" PROVE FALSE
        OBVIOUS
      <3>1. d = At(k, 1) /\ d.time = trace[k].time
        BY <2>5, <2>10, <2>16, <2>17 DEF Is
      <3>2. Lt(At(k, 1), At(k, b + 1))
        BY <2>2, <2>5, <2>6, <3>1, AtOrder
      <3> QED BY <2>7, <3>1, <3>2
    <2>20. j # b + 2
      <3> SUFFICES ASSUME j = b + 2 PROVE FALSE
        OBVIOUS
      <3>1. d.time = Done(trace[k])
        BY <2>5, <2>10, <2>16 DEF Is
      <3> QED BY <1>1, <1>3, <1>5, <2>2, <3>1
    <2>21. d = x
      BY <2>10, <2>16, <2>17, <2>18, <2>19, <2>20
    <2> QED BY <2>6, <2>21 DEF BurstsOn
  <1> QED BY <1>2, <1>4, <1>5

\* Duplicate suppression is on exactly in the windows of the SOL_HO rows, if
\* no SOL_HANDLEDUP row interferes.
LEMMA DedupWindow ==
    ASSUME ContextInv, ForceInv, Lifetimes, Settled, NEW q \in Used, queues[q] = "bound",
           Disjoint("SOL_HO", q), Rows("SOL_HANDLEDUP", q) = {}
    PROVE  q \in dedup <=>
              \E k \in Started("SOL_HO", q, now) :
                 /\ trace[k].enable_dedup > 0
                 /\ Thawed(trace[k]) <= now /\ now < Thawed(trace[k]) + trace[k].smooth_ms
  <1>1. trace \in Traces /\ now \in Nat /\ q \in Queues
    BY DEF ContextInv, TypeInv, Used
  <1>2. PICK d : Last(Deduping, q, d) /\ (q \in dedup <=> d.act = "set_dedup" /\ d.arg = 1)
    BY <1>1 DEF ForceInv, DedupInv
  <1>3. /\ d \in Expansion /\ d.q = q /\ d.act \in Deduping /\ d.time \in Nat /\ d.time <= now
        /\ \A f \in Expansion : f.q = q /\ f.act \in Deduping /\ f.time <= now => f = d \/ Lt(f, d)
        /\ \A f \in Expansion : f.q = q /\ f.act \in Deduping /\ f.time <= now => ~Lt(d, f)
    BY <1>2, LastFacts
  \* the row of a set_dedup is a SOL_HO row
  <1>4. d.act = "set_dedup" =>
           \E k \in Rows("SOL_HO", q) : \E j \in Places(k) : d = At(k, j) /\ trace[k].time <= d.time
    <2> SUFFICES ASSUME d.act = "set_dedup"
                 PROVE  \E k \in Rows("SOL_HO", q) : \E j \in Places(k) :
                           d = At(k, j) /\ trace[k].time <= d.time
      OBVIOUS
    <2>1. PICK k \in DOMAIN trace : \E j \in Places(k) :
             /\ d = At(k, j) /\ trace[k].q = q /\ trace[k].time <= d.time
             /\ trace[k].ev \in {"SOL_HO", "SOL_HANDLEDUP"}
      BY <1>1, <1>3, FromSol
    <2>2. k \in Rows("SOL_HO", q)
      BY <2>1 DEF Rows
    <2> QED BY <2>1, <2>2
  <1>5. ASSUME d.act = "set_dedup", d.arg = 1
        PROVE  \E k \in Started("SOL_HO", q, now) :
                  /\ trace[k].enable_dedup > 0
                  /\ Thawed(trace[k]) <= now /\ now < Thawed(trace[k]) + trace[k].smooth_ms
    <2>1. PICK k \in Rows("SOL_HO", q) : \E j \in Places(k) : d = At(k, j) /\ trace[k].time <= d.time
      BY <1>4, <1>5
    <2>2. PICK j \in Places(k) : d = At(k, j) /\ trace[k].time <= d.time
      BY <2>1
    <2>3. /\ k \in DOMAIN trace /\ trace[k].ev = "SOL_HO" /\ trace[k].q = q
          /\ trace[k].time \in Nat /\ Thawed(trace[k]) \in Nat /\ trace[k].smooth_ms \in Nat
      BY <1>1, StartedSol
    <2>4. k \in Started("SOL_HO", q, now)
      <3>1. trace[k].time <= now
        BY <1>1, <1>3, <2>2, <2>3
      <3> QED BY <1>1, <2>3, <3>1, StartedSol
    <2>5. PICK a, b, c \in Nat : SolAt(k, a, b, c)
      BY <1>1, <2>3, SolHas
    <2>6. trace[k].enable_dedup > 0 /\ j \in {a + 1, a + 2}
      BY <1>5, <2>2, <2>5 DEF SolAt
    <2>7. /\ Is(k, a + 1, "set_dedup", 1, Thawed(trace[k]))
          /\ Is(k, a + 2, "set_dedup", 0, Thawed(trace[k]) + trace[k].smooth_ms)
      BY <2>5, <2>6 DEF SolAt
    <2>8. d = At(k, a + 1) /\ d.time = Thawed(trace[k])
      BY <1>5, <2>2, <2>6, <2>7 DEF Is
    <2>9. ~(Thawed(trace[k]) + trace[k].smooth_ms <= now)
      <3>1. Lt(At(k, a + 1), At(k, a + 2))
        <4>1. At(k, a + 1).time <= At(k, a + 2).time
              /\ At(k, a + 1).time \in Nat /\ At(k, a + 2).time \in Nat
          BY <2>3, <2>7 DEF Is
        <4> QED BY <4>1, AtOrder
      <3> QED BY <1>3, <2>3, <2>7, <2>8, <3>1 DEF Is, Deduping
    <2> QED BY <1>1, <1>3, <2>3, <2>4, <2>6, <2>8, <2>9
  <1>6. ASSUME NEW k \in Started("SOL_HO", q, now), trace[k].enable_dedup > 0,
               Thawed(trace[k]) <= now, now < Thawed(trace[k]) + trace[k].smooth_ms
        PROVE  d.act = "set_dedup" /\ d.arg = 1
    <2>1. k \in Rows("SOL_HO", q) /\ trace[k].time <= now
      BY <1>1, StartedSol
    <2>2. /\ k \in DOMAIN trace /\ trace[k].ev = "SOL_HO" /\ trace[k].q = q /\ k \in Nat
          /\ trace[k].smooth_ms \in Nat /\ Thawed(trace[k]) \in Nat /\ LastTime(trace[k]) \in Nat
          /\ Thawed(trace[k]) + trace[k].smooth_ms <= LastTime(trace[k])
      BY <1>1, <1>6, <2>1, StartedSol
    <2>3. PICK a, b, c \in Nat : SolAt(k, a, b, c)
      BY <1>1, <2>2, SolHas
    <2>4. /\ Is(k, a + 1, "set_dedup", 1, Thawed(trace[k]))
          /\ Is(k, a + 2, "set_dedup", 0, Thawed(trace[k]) + trace[k].smooth_ms)
      BY <1>6, <2>3 DEF SolAt
    <2> DEFINE x == At(k, a + 1)
    <2>5. /\ x \in Expansion /\ x.act = "set_dedup" /\ x.q = q /\ x.arg = 1
          /\ x.time = Thawed(trace[k]) /\ x.time <= now
      BY <1>6, <2>2, <2>4 DEF Is
    <2>6. ~Lt(d, x) /\ (x = d \/ Lt(x, d))
      BY <1>3, <2>5 DEF Deduping
    <2>7. d.act = "set_dedup"
      <3> SUFFICES ASSUME d.act = "init_nfqueue" PROVE FALSE
        BY <1>3 DEF Deduping
      <3>1. x.act \notin {"init_nfqueue", "command"} /\ d.q = x.q
        BY <1>3, <2>5
      <3>2. Lt(d, x)
        BY <1>1, <1>3, <2>5, <3>1, BindFirst
      <3> QED BY <2>6, <3>2
    <2>8. PICK l \in Rows("SOL_HO", q) : \E j \in Places(l) : d = At(l, j) /\ trace[l].time <= d.time
      BY <1>4, <2>7
    <2>9. PICK j \in Places(l) : d = At(l, j) /\ trace[l].time <= d.time
      BY <2>8
    <2>10. l \in Nat /\ trace[l].time \in Nat
      BY <1>1, StartedSol
    <2>11. a + 1 \in Places(k)
      <3>1. \E m \in DOMAIN trace : \E n \in Places(m) : x = At(m, n)
        BY <1>1, <2>5, FromSol
      <3>2. \A m, n : At(m, n).idx[1] = m /\ At(m, n).idx[2] = n
        BY DEF At
      <3> QED BY <3>1, <3>2
    <2>12. ~(l < k)
      BY <1>1, <2>1, <2>6, <2>9, <2>11, Apart
    <2>13. ~(k < l)
      <3> SUFFICES ASSUME k < l PROVE FALSE
        OBVIOUS
      <3>1. LastTime(trace[k]) <= trace[l].time
        BY <1>1, <2>1, Apart
      <3> QED BY <1>1, <1>3, <1>6, <2>2, <2>9, <2>10, <3>1
    <2>14. l = k
      BY <2>2, <2>10, <2>12, <2>13
    <2>15. j \in {a + 1, a + 2}
      BY <2>3, <2>7, <2>9, <2>14 DEF SolAt
    <2>16. j # a + 2
      <3> SUFFICES ASSUME j = a + 2 PROVE FALSE
        OBVIOUS
      <3>1. d.time = Thawed(trace[k]) + trace[k].smooth_ms
        BY <2>4, <2>9, <2>14 DEF Is
      <3> QED BY <1>1, <1>3, <1>6, <2>2, <3>1
    <2> QED BY <2>5, <2>7, <2>9, <2>14, <2>15, <2>16
  <1> QED BY <1>2, <1>5, <1>6

\* Without SOL_HO rows the last SOL_HANDLEDUP row decides.
LEMMA DupInForce ==
    ASSUME ContextInv, ForceInv, Lifetimes, Settled, NEW q \in Used, queues[q] = "bound",
           Rows("SOL_HO", q) = {}
    PROVE  LET dups == Started("SOL_HANDLEDUP", q, now)
           IN  q \in dedup <=> dups # {} /\ trace[LastOf(dups)].enable = 1
  <1> DEFINE dups == Started("SOL_HANDLEDUP", q, now)
  <1>1. trace \in Traces /\ now \in Nat /\ q \in Queues
    BY DEF ContextInv, TypeInv, Used
  <1>2. PICK d : Last(Deduping, q, d) /\ (q \in dedup <=> d.act = "set_dedup" /\ d.arg = 1)
    BY <1>1 DEF ForceInv, DedupInv
  <1>3. \A k : k \in dups <=>
           /\ k \in DOMAIN trace /\ trace[k].ev = "SOL_HANDLEDUP" /\ trace[k].q = q
           /\ trace[k].time <= now
    BY DEF Started, Rows
  <1> HIDE DEF dups
  <1>4. \A k \in dups : Is(k, 1, "set_dedup", trace[k].enable, trace[k].time)
    BY <1>1, <1>3, OtherPlaces
  <1>5. ASSUME NEW e \in Expansion, e.q = q, e.act = "set_dedup", e.time <= now
        PROVE  \E k \in dups : e = At(k, 1)
    <2>1. PICK k \in DOMAIN trace : \E j \in Places(k) :
             /\ e = At(k, j) /\ trace[k].q = q
             /\ \/ trace[k].ev = "SOL_HO"
                \/ trace[k].ev = "SOL_HANDLEDUP" /\ j = 1
      BY <1>1, <1>5, FromSol
    <2>2. trace[k].ev # "SOL_HO"
      BY <2>1 DEF Rows
    <2>3. e = At(k, 1) /\ trace[k].ev = "SOL_HANDLEDUP"
      BY <2>1, <2>2
    <2>4. e.time = trace[k].time
      BY <1>1, <2>3, OtherPlaces DEF Is
    <2> QED BY <1>3, <1>5, <2>1, <2>3, <2>4
  <1>6. Arms(q, "set_dedup", 1, dups)
    BY <1>3, <1>4, <1>5 DEF Arms, Is
  <1>7. Last({"init_nfqueue", "set_dedup"}, q, d) /\ "set_dedup" \notin {"init_nfqueue", "command"}
    BY <1>2 DEF Deduping
  <1>8. /\ dups = {} => d.act = "init_nfqueue"
        /\ dups # {} => LastOf(dups) \in dups /\ d = At(LastOf(dups), 1)
    BY <1>6, <1>7, ArmedBy
  <1>9. CASE dups = {}
    BY <1>2, <1>8, <1>9 DEF dups
  <1>10. CASE dups # {}
    <2>1. d.act = "set_dedup" /\ d.arg = trace[LastOf(dups)].enable
      BY <1>4, <1>8, <1>10 DEF Is
    <2> QED BY <1>2, <1>10, <2>1 DEF dups
  <1> QED BY <1>9, <1>10

\* Before any SOL_HO row of the queue, adaptation is on once it is configured.
LEMMA AdaptAtFirst ==
    ASSUME ContextInv, ForceInv, Lifetimes, Settled, NEW q \in Used, queues[q] = "bound",
           Started("SOL_HO", q, now) = {}
    PROVE  q \in adapt <=> Started("SOL_INIT_SCHED", q, now) # {}
  <1>1. trace \in Traces /\ now \in Nat /\ q \in Queues /\ phase = "run"
    BY DEF ContextInv, TypeInv, Used, Settled
  <1>2. PICK d : /\ Last(Adapting, q, d)
                 /\ q \in adapt => Adapts(d)
                 /\ q \notin adapt =>
                       ~Adapts(d) \/ \E b \in Ran : b.q = q /\ BurstsOn(b) /\ Lt(d, b)
    BY <1>1 DEF ForceInv, AdaptInv
  <1>3. /\ d \in Expansion /\ d.q = q /\ d.act \in Adapting /\ d.time \in Nat /\ d.time <= now
        /\ \A f \in Expansion : f.q = q /\ f.act \in Adapting /\ f.time <= now => ~Lt(d, f)
    BY <1>2, LastFacts
  <1>4. ASSUME NEW e \in Expansion, e.q = q, e.time <= now,
               e.act \in {"sol_update", "set_burst", "set_adapt"}
        PROVE  FALSE
    <2>1. PICK k \in DOMAIN trace :
             trace[k].ev = "SOL_HO" /\ trace[k].q = q /\ trace[k].time <= e.time
      BY <1>1, <1>4, FromSol
    <2>2. trace[k].time \in Nat /\ e.time \in Nat
      BY <1>1, <2>1, RowOrder, EventFacts
    <2>3. trace[k].time <= now
      BY <1>1, <1>4, <2>1, <2>2
    <2> QED BY <1>1, <2>1, <2>3, StartedSol
  <1>5. d.act \in {"init_nfqueue", "init_tcp_sched"}
    BY <1>3, <1>4 DEF Adapting
  <1>6. \A b \in Ran : ~(b.q = q /\ BurstsOn(b))
    <2>1. \A e \in Ran : e \in Expansion /\ e.time <= now
      BY <1>1, RanSettled DEF Ran
    <2> QED BY <1>4, <2>1 DEF BurstsOn
  <1>7. q \in adapt <=> d.act = "init_tcp_sched"
    BY <1>2, <1>5, <1>6 DEF Adapts
  <1>8. d.act = "init_tcp_sched" => Started("SOL_INIT_SCHED", q, now) # {}
    <2> SUFFICES ASSUME d.act = "init_tcp_sched" PROVE Started("SOL_INIT_SCHED", q, now) # {}
      OBVIOUS
    <2>1. PICK k \in DOMAIN trace :
             trace[k].ev = "SOL_INIT_SCHED" /\ trace[k].q = q /\ trace[k].time <= d.time
      BY <1>1, <1>3, FromSol
    <2>2. trace[k].time \in Nat
      BY <1>1, RowOrder
    <2>3. k \in Started("SOL_INIT_SCHED", q, now)
      BY <1>1, <1>3, <2>1, <2>2 DEF Started, Rows
    <2> QED BY <2>3
  <1>9. ASSUME NEW k \in Started("SOL_INIT_SCHED", q, now) PROVE d.act = "init_tcp_sched"
    <2> SUFFICES ASSUME d.act = "init_nfqueue" PROVE FALSE
      BY <1>5
    <2>1. /\ k \in DOMAIN trace /\ trace[k].ev = "SOL_INIT_SCHED" /\ trace[k].q = q
          /\ trace[k].time <= now
      BY DEF Started, Rows
    <2> DEFINE x == At(k, 1)
    <2>2. x \in Expansion /\ x.act = "init_tcp_sched" /\ x.q = q /\ x.time <= now
      BY <1>1, <2>1, OtherPlaces
    <2>3. x.act \notin {"init_nfqueue", "command"} /\ d.q = x.q
      BY <1>3, <2>2
    <2>4. Lt(d, x)
      BY <1>1, <1>3, <2>2, <2>3, BindFirst
    <2> QED BY <1>3, <2>2, <2>4 DEF Adapting
  <1> QED BY <1>7, <1>8, <1>9

\* Afterwards it is on exactly from the end of the last row's burst on.
LEMMA AdaptAfterLast ==
    ASSUME ContextInv, ForceInv, Lifetimes, Settled, NEW q \in Used, queues[q] = "bound",
           Disjoint("SOL_HO", q),
           \A k \in Rows("SOL_HO", q), i \in Rows("SOL_INIT_SCHED", q) : Before(i, k),
           Started("SOL_HO", q, now) # {}
    PROVE  LET last == trace[LastOf(Started("SOL_HO", q, now))]
           IN  q \in adapt <=> last.enable_adapt > 0 /\ Done(last) <= now
  <1> DEFINE hos == Started("SOL_HO", q, now)
  <1>1. trace \in Traces /\ now \in Nat /\ q \in Queues /\ phase = "run"
    BY DEF ContextInv, TypeInv, Used, Settled
  <1>2. PICK d : /\ Last(Adapting, q, d)
                 /\ q \in adapt => Adapts(d)
                 /\ q \notin adapt =>
                       ~Adapts(d) \/ \E b \in Ran : b.q = q /\ BurstsOn(b) /\ Lt(d, b)
    BY <1>1 DEF ForceInv, AdaptInv
  <1>3. /\ d \in Expansion /\ d.q = q /\ d.act \in Adapting /\ d.time \in Nat /\ d.time <= now
        /\ \A f \in Expansion : f.q = q /\ f.act \in Adapting /\ f.time <= now => ~Lt(d, f)
    BY <1>2, LastFacts
  <1>4. \A k \in hos : /\ k \in Rows("SOL_HO", q) /\ k \in DOMAIN trace /\ trace[k].ev = "SOL_HO"
                       /\ trace[k].q = q /\ trace[k].time <= now /\ k \in Nat
    BY <1>1, StartedSol
  <1>5. \A k \in hos : /\ At(k, 1) \in Expansion /\ At(k, 1).act = "sol_update" /\ At(k, 1).q = q
                       /\ At(k, 1).time = trace[k].time /\ At(k, 1).time <= now
                       /\ ~Lt(d, At(k, 1))
    <2> SUFFICES ASSUME NEW k \in hos
                 PROVE  /\ At(k, 1) \in Expansion /\ At(k, 1).act = "sol_update" /\ At(k, 1).q = q
                        /\ At(k, 1).time = trace[k].time /\ At(k, 1).time <= now
                        /\ ~Lt(d, At(k, 1))
      OBVIOUS
    <2>1. \E a, b, c \in Nat : SolAt(k, a, b, c)
      BY <1>1, <1>4, SolHas
    <2>2. Is(k, 1, "sol_update", trace[k].mark, trace[k].time)
      BY <2>1 DEF SolAt
    <2>3. /\ At(k, 1) \in Expansion /\ At(k, 1).act = "sol_update" /\ At(k, 1).q = q
          /\ At(k, 1).time = trace[k].time /\ At(k, 1).time <= now
      BY <1>4, <2>2 DEF Is
    <2> QED BY <1>3, <2>3 DEF Adapting
  <1>6. PICK h \in hos : TRUE
    OBVIOUS
  <1>7. d.act # "init_nfqueue"
    <2> SUFFICES ASSUME d.act = "init_nfqueue" PROVE FALSE
      OBVIOUS
    <2>1. At(h, 1) \in Expansion /\ At(h, 1).act \notin {"init_nfqueue", "command"} /\ d.q = At(h, 1).q
      BY <1>3, <1>5
    <2>2. Lt(d, At(h, 1))
      BY <1>1, <1>3, <2>1, BindFirst
    <2> QED BY <1>5, <2>2
  <1>8. PICK l \in DOMAIN trace : \E j \in Places(l) :
           /\ d = At(l, j) /\ trace[l].q = q /\ trace[l].time <= d.time
           /\ \/ trace[l].ev = "SOL_HO" /\ d.act # "init_tcp_sched"
              \/ trace[l].ev = "SOL_INIT_SCHED" /\ d.act = "init_tcp_sched" /\ j = 1
    BY <1>1, <1>3, <1>7, FromSol DEF Adapting
  <1>9. PICK j \in Places(l) :
           /\ d = At(l, j) /\ trace[l].q = q /\ trace[l].time <= d.time
           /\ \/ trace[l].ev = "SOL_HO" /\ d.act # "init_tcp_sched"
              \/ trace[l].ev = "SOL_INIT_SCHED" /\ d.act = "init_tcp_sched" /\ j = 1
    BY <1>8
  <1>10. trace[l].ev = "SOL_HO"
    <2> SUFFICES ASSUME trace[l].ev = "SOL_INIT_SCHED", d = At(l, 1) PROVE FALSE
      BY <1>9
    <2>1. Before(l, h)
      BY <1>4, <1>9 DEF Rows
    <2>2. At(l, 1).time = trace[l].time
      BY <1>1, OtherPlaces
    <2>3. Lt(At(l, 1), At(h, 1))
      BY <1>5, <2>1, <2>2, AtOrder DEF Before
    <2> QED BY <1>5, <2>3
  <1>11. l \in hos
    <2>1. trace[l].time \in Nat
      BY <1>1, RowOrder
    <2>2. trace[l].time <= now
      BY <1>1, <1>3, <1>9, <2>1
    <2> QED BY <1>1, <1>9, <1>10, <2>2, StartedSol
  <1>12. ASSUME NEW m \in hos \ {l} PROVE m < l /\ Before(m, l)
    <2>1. ~(l < m)
      <3> SUFFICES ASSUME l < m PROVE FALSE
        OBVIOUS
      <3>1. 1 \in Places(m)
        <4>1. \E n \in DOMAIN trace : \E i \in Places(n) : At(m, 1) = At(n, i)
          BY <1>1, <1>5, FromSol
        <4>2. \A n, i : At(n, i).idx[1] = n /\ At(n, i).idx[2] = i
          BY DEF At
        <4> QED BY <4>1, <4>2
      <3>2. Lt(At(l, j), At(m, 1))
        BY <1>1, <1>4, <1>11, <3>1, Apart
      <3> QED BY <1>5, <1>9, <3>2
    <2>2. m < l
      BY <1>4, <1>11, <2>1
    <2> QED BY <1>1, <1>4, <1>11, <2>2, Apart
  <1>13. LastOf(hos) = l
    <2>1. hos \in SUBSET DOMAIN trace
      BY <1>4
    <2> HIDE DEF hos
    <2> QED BY <1>1, <1>11, <1>12, <2>1, LastOfIs
  <1>14. PICK a, b, c \in Nat : SolAt(l, a, b, c)
    BY <1>1, <1>10, SolHas
  <1>15. /\ 1 <= a /\ a <= b /\ b <= c
         /\ trace[l].enable_adapt > 0 => Is(l, c + 1, "set_adapt", 1, Done(trace[l]))
         /\ d.act = "sol_update" => j = 1
         /\ d.act = "set_adapt" => trace[l].enable_adapt > 0 /\ j = c + 1
    BY <1>9, <1>14 DEF SolAt
  <1>16. d.act \in {"sol_update", "set_adapt"}
    BY <1>3, <1>7, <1>9, <1>10 DEF Adapting
  <1>17. ASSUME q \in adapt
         PROVE  trace[l].enable_adapt > 0 /\ Done(trace[l]) <= now
    <2>1. d.act = "set_adapt"
      BY <1>2, <1>16, <1>17 DEF Adapts
    <2>2. trace[l].enable_adapt > 0 /\ d = At(l, c + 1)
      BY <1>9, <1>15, <2>1
    <2> QED BY <1>3, <1>15, <2>2 DEF Is
  <1>18. ASSUME trace[l].enable_adapt > 0, Done(trace[l]) <= now
         PROVE  q \in adapt
    <2> DEFINE z == At(l, c + 1)
    <2>1. Is(l, c + 1, "set_adapt", 1, Done(trace[l]))
      BY <1>15, <1>18
    <2>2. /\ z \in Expansion /\ z.act = "set_adapt" /\ z.q = q /\ z.arg = 1
          /\ z.time = Done(trace[l]) /\ ~Lt(d, z)
      BY <1>3, <1>9, <1>18, <2>1 DEF Is, Adapting
    <2>3. /\ trace[l].time \in Nat /\ Thawed(trace[l]) \in Nat /\ Done(trace[l]) \in Nat
          /\ trace[l].time <= Thawed(trace[l]) /\ Thawed(trace[l]) <= Done(trace[l])
      BY <1>1, <1>4, <1>11, StartedSol
    <2>4. d.act # "sol_update"
      <3> SUFFICES ASSUME d.act = "sol_update" PROVE FALSE
        OBVIOUS
      <3>1. d = At(l, 1)
        BY <1>9, <1>15
      <3>2. At(l, 1).time = trace[l].time
        BY <1>5, <1>11
      <3>3. Lt(At(l, 1), At(l, c + 1))
        BY <1>15, <2>2, <2>3, <3>2, AtOrder
      <3> QED BY <2>2, <3>1, <3>3
    <2>5. d = z
      BY <1>9, <1>15, <1>16, <2>4
    <2>6. ASSUME NEW x \in Ran, x.q = q, BurstsOn(x), Lt(d, x) PROVE FALSE
      <3>1. x \in Expansion /\ x.time <= now
        BY <1>1, RanSettled DEF Ran
      <3>2. PICK m \in DOMAIN trace : \E n \in Places(m) :
               x = At(m, n) /\ trace[m].q = q /\ trace[m].ev = "SOL_HO" /\ trace[m].time <= x.time
        BY <1>1, <2>6, <3>1, FromSol DEF BurstsOn
      <3>3. PICK n \in Places(m) : x = At(m, n)
        BY <3>2
      <3>4. m \in hos
        <4>1. trace[m].time \in Nat /\ x.time \in Nat
          BY <1>1, <3>1, RowOrder, EventFacts
        <4>2. trace[m].time <= now
          BY <1>1, <3>1, <3>2, <4>1
        <4> QED BY <1>1, <3>2, <4>2, StartedSol
      <3>5. Lt(x, d)
        <4>1. CASE m # l
          <5>1. m < l /\ m \in Rows("SOL_HO", q) /\ l \in Rows("SOL_HO", q)
            BY <1>4, <1>11, <1>12, <3>4, <4>1
          <5> QED BY <1>1, <1>9, <3>3, <5>1, Apart
        <4>2. CASE m = l
          <5>1. trace[l].burst_duration > 0 /\ n \in {b + 1, b + 2}
            BY <1>14, <2>6, <3>3, <4>2 DEF SolAt, BurstsOn
          <5>2. /\ Is(l, b + 1, "set_burst", 1, Thawed(trace[l]))
                /\ Is(l, b + 2, "set_burst", 0, Done(trace[l])) /\ b + 2 <= c
            BY <1>14, <5>1 DEF SolAt
          <5>3. x.time <= Done(trace[l]) /\ x.time \in Nat
            BY <2>3, <3>3, <4>2, <5>1, <5>2 DEF Is
          <5>4. n \in Nat /\ n < c + 1
            BY <5>1, <5>2
          <5>5. Lt(At(l, n), At(l, c + 1))
            BY <2>2, <2>3, <3>3, <4>2, <5>3, <5>4, AtOrder
          <5> QED BY <2>5, <3>3, <4>2, <5>5
        <4> QED BY <4>1, <4>2
      <3> QED BY <1>1, <1>3, <2>6, <3>1, <3>5, Order
    <2>7. Adapts(d)
      BY <2>2, <2>5 DEF Adapts
    <2> QED BY <1>2, <2>6, <2>7
  <1> QED BY <1>13, <1>17, <1>18

\* PhasesHonoured for every trace: burst estimation, adaptation and duplicate
\* suppression are what the last of the handlers that touch them left, and that
\* handler is the one of the phase the row prescribes for this moment.
THEOREM PhasesInForce == Spec => []PhasesHonoured
  <1>1. (Lifetimes => ContextInv /\ ForceInv) => PhasesHonoured
    <2> SUFFICES ASSUME ContextInv, ForceInv, Lifetimes, Settled, NEW q \in Used,
                        queues[q] = "bound", Disjoint("SOL_HO", q),
                        \A k \in Rows("SOL_HO", q), i \in Rows("SOL_INIT_SCHED", q) : Before(i, k)
                 PROVE  LET hos  == Started("SOL_HO", q, now)
                            dups == Started("SOL_HANDLEDUP", q, now)
                            last == trace[LastOf(hos)]
                        IN  /\ q \in burst <=> \E k \in hos : Thawed(trace[k]) <= now /\ now < Done(trace[k])
                            /\ q \in adapt <=> IF hos = {} THEN Started("SOL_INIT_SCHED", q, now) # {}
                                               ELSE last.enable_adapt > 0 /\ Done(last) <= now
                            /\ Rows("SOL_HO", q) = {} =>
                                  (q \in dedup <=> dups # {} /\ trace[LastOf(dups)].enable = 1)
                            /\ Rows("SOL_HANDLEDUP", q) = {} =>
                                  (q \in dedup <=>
                                     \E k \in hos : /\ trace[k].enable_dedup > 0
                                                    /\ Thawed(trace[k]) <= now
                                                    /\ now < Thawed(trace[k]) + trace[k].smooth_ms)
      BY DEF PhasesHonoured
    <2>1. q \in burst <=> \E k \in Started("SOL_HO", q, now) :
                             Thawed(trace[k]) <= now /\ now < Done(trace[k])
      BY BurstWindow
    <2>2. CASE Started("SOL_HO", q, now) = {}
      BY <2>1, <2>2, AdaptAtFirst, DupInForce, DedupWindow
    <2>3. CASE Started("SOL_HO", q, now) # {}
      BY <2>1, <2>3, AdaptAfterLast, DupInForce, DedupWindow
    <2> QED BY <2>2, <2>3
  <1> QED BY <1>1, ForceKept, PTL

=============================================================================
