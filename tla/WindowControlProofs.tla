------------------------ MODULE WindowControlProofs -------------------------
(* The 16-bit window and the windows of the two links, for every trace, every *)
(* width and every sequence of samples.                                      *)
EXTENDS WindowControl, SequenceTheorems, TLAPS

Actions == {"sol_update", "set_rwnd", "burst_on", "burst_off", "adapt"}

-----------------------------------------------------------------------------
(* Arithmetic. *)

\* A value cut to 16 bits fits the field.
LEMMA Uint16Type ==
    ASSUME NEW x \in Nat
    PROVE  uint16(x) \in 0 .. U16 - 1
  BY ControlAssumption DEF uint16

LEMMA DivType ==
    ASSUME NEW a \in Nat, NEW b \in Nat \ {0}
    PROVE  a \div b \in Nat
  OBVIOUS

LEMMA ProductType ==
    ASSUME NEW a \in Nat, NEW b \in Nat
    PROVE  a * b \in Nat
  OBVIOUS

\* Less than the whole of a window is not more than the window.
LEMMA ShareBound ==
    ASSUME NEW w \in Nat, NEW p \in 0 .. 400
    PROVE  (w * (400 - p)) \div 400 \in 0 .. w
  <1>1. 400 - p \in Nat /\ 400 - p <= 400
    OBVIOUS
  <1>2. w * (400 - p) \in Nat
    BY <1>1, ProductType
  <1>3. w * (400 - p) <= w * 400
    <2>1. \A x, y, z \in Nat : x <= y => z * x <= z * y
      OBVIOUS
    <2> QED BY <1>1, <2>1
  <1> HIDE <1>1
  <1>4. \A x \in Nat : x <= w * 400 => x \div 400 \in 0 .. w
    OBVIOUS
  <1> QED BY <1>2, <1>3, <1>4

-----------------------------------------------------------------------------
(* Types. *)

LEMMA PlanType ==
    ASSUME NEW r \in Rows
    PROVE  parse_handle_solution(r) \in Seq(Actions)
  <1>1. <<"sol_update">> \in Seq(Actions) /\ <<"set_rwnd">> \in Seq(Actions)
        /\ <<"burst_on", "burst_off">> \in Seq(Actions) /\ <<"adapt">> \in Seq(Actions)
        /\ <<>> \in Seq(Actions)
    BY DEF Actions
  <1>2. (IF r.freeze THEN <<"set_rwnd">> ELSE <<>>) \in Seq(Actions)
    BY <1>1
  <1>3. (IF r.burst THEN <<"burst_on", "burst_off">> ELSE <<>>) \in Seq(Actions)
    BY <1>1
  <1>4. (IF r.adapt THEN <<"adapt">> ELSE <<>>) \in Seq(Actions)
    BY <1>1
  <1>5. \A s, t \in Seq(Actions) : s \o t \in Seq(Actions)
    BY ConcatProperties
  <1> QED BY <1>1, <1>2, <1>3, <1>4, <1>5, Zenon DEF parse_handle_solution

LEMMA InitType == Init => TypeOK
  <1> SUFFICES ASSUME Init PROVE TypeOK
    OBVIOUS
  <1>1. plan \in Seq(Actions)
    BY EmptySeq DEF Init
  <1>2. row \in Rows
    BY DEF Init, Rows, Links
  <1>3. link \in Links /\ target \in Links /\ hist \in [Links -> Nat] /\ memory \in [Links -> Nat]
    BY DEF Init, Links
  <1>4. tune_rwnd \in 0 .. U16 - 1
    BY ControlAssumption DEF Init
  <1> QED
    BY <1>1, <1>2, <1>3, <1>4 DEF Init, TypeOK, Actions

\* An action of a row leaves the rest of its plan.
LEMMA RunType ==
    ASSUME TypeOK, NEW a, Run(a)
    PROVE  plan' \in Seq(Actions)
  <1>1. plan \in Seq(Actions) /\ plan # <<>>
    BY DEF TypeOK, Run, Actions
  <1> QED BY <1>1, HeadTailProperties DEF Run

\* The sampler leaves a window that fits.
LEMMA SampleType ==
    ASSUME TypeOK, tcp_schedule
    PROVE  tune_rwnd' \in 0 .. U16 - 1 /\ wrapped' \in BOOLEAN
  <1> USE ControlAssumption
  <1>0. tune_rwnd \in Nat /\ data_rcvd \in Nat /\ Rtt[link] \in Nat
        /\ tune_rwnd \in 0 .. U16 - 1 /\ wrapped \in BOOLEAN
        /\ sample_interval \in Nat \ {0}
    BY DEF TypeOK, tcp_schedule
  <1>1. CASE tcp_schedule_burst
    <2>1. (data_rcvd * Rtt[link]) \div sample_interval \in Nat
      BY <1>0, ProductType, DivType
    <2>2. burst_estimates \subseteq Nat
      BY <2>1, DivType DEF burst_estimates
    <2>3. PICK est \in burst_estimates :
            /\ tune_rwnd' = IF better_estimate(est) THEN uint16(est) ELSE tune_rwnd
            /\ wrapped' = (wrapped \/ est >= U16
                           \/ (data_rcvd * Rtt[link]) \div sample_interval >= I31)
      BY <1>1 DEF tcp_schedule_burst
    <2>4. tune_rwnd' \in 0 .. U16 - 1
      BY <1>0, <2>2, <2>3, Uint16Type
    <2>5. wrapped' \in BOOLEAN
      BY <2>3
    <2> QED BY <2>4, <2>5
  <1>2. CASE tcp_schedule_adapt
    <2>1. grown \in Nat
      <3>1. 100 + Pace \in Nat /\ 100 \in Nat \ {0}
        OBVIOUS
      <3> QED BY <1>0, <3>1, ProductType, DivType DEF grown
    <2>2. shrunk \in 0 .. tune_rwnd
      BY <1>0, ShareBound DEF shrunk
    <2>3. shrunk \in 0 .. U16 - 1
      BY <1>0, <2>2
    <2>4. uint16(grown) \in 0 .. U16 - 1
      BY <2>1, Uint16Type
    <2>5. tune_rwnd' \in {tune_rwnd, uint16(grown), shrunk}
      BY <1>2 DEF tcp_schedule_adapt
    <2> QED BY <1>0, <1>2, <2>3, <2>4, <2>5 DEF tcp_schedule_adapt
  <1> QED BY <1>1, <1>2 DEF tcp_schedule

LEMMA NextType == TypeOK /\ [Next]_vars => TypeOK'
  <1> SUFFICES ASSUME TypeOK, [Next]_vars PROVE TypeOK'
    OBVIOUS
  <1> USE ControlAssumption
  <1>0. plan \in Seq(Actions) /\ 1 \in Links /\ row.mark \in Links
    BY DEF TypeOK, Actions, Links, Rows
  <1>1. ASSUME NEW enable \in BOOLEAN, NEW h \in [Links -> HistWindows],
               action_init_tcp_sched(enable, h)
        PROVE  TypeOK'
    <2>1. h \in [Links -> Nat] /\ h[1] \in Nat /\ Rtt[1] \in Nat
      BY <1>0
    <2>2. uint16(h[1]) \in 0 .. U16 - 1
      BY <2>1, Uint16Type
    <2> QED BY <1>0, <1>1, <2>1, <2>2 DEF action_init_tcp_sched, TypeOK
  <1>2. ASSUME NEW r \in Rows, SOL_HO(r)
        PROVE  TypeOK'
    <2>1. plan' \in Seq(Actions)
      BY <1>2, PlanType DEF SOL_HO
    <2> QED BY <1>2, <2>1 DEF SOL_HO, TypeOK, worker_vars, tcp_vars, ghosts, Actions
  <1>3. CASE action_sol_update
    <2>1. plan' \in Seq(Actions)
      BY <1>3, RunType DEF action_sol_update
    <2>2. hist' \in [Links -> Nat] /\ link' \in Links
      <3>1. tune_rwnd \in Nat
        BY DEF TypeOK
      <3> QED BY <1>0, <1>3, <3>1 DEF action_sol_update, TypeOK, saved_under
    <2>3. tune_rwnd' \in 0 .. U16 - 1
      BY <1>0, <1>3, <2>2, Uint16Type DEF action_sol_update
    <2>4. memory' \in [Links -> Nat]
      BY <1>3 DEF action_sol_update, TypeOK
    <2>5. zero_at_ho' \in BOOLEAN /\ clamped' \in BOOLEAN
          /\ do_adapt' \in BOOLEAN /\ do_burst' \in BOOLEAN
      BY <1>3 DEF action_sol_update, adapt_cleared
    <2> QED BY <1>0, <1>3, <2>1, <2>2, <2>3, <2>4, <2>5
            DEF action_sol_update, Run, TypeOK, Actions
  <1>4. CASE action_set_rwnd
    <2>1. plan' \in Seq(Actions)
      BY <1>4, RunType DEF action_set_rwnd
    <2>2. tune_rwnd' \in 0 .. U16 - 1
      <3>1. row.mark \in Nat
        BY <1>0 DEF Links
      <3>2. uint16(row.mark) \in 0 .. U16 - 1
        BY <3>1, Uint16Type
      <3> QED BY <1>4, <3>2 DEF action_set_rwnd
    <2> QED BY <1>4, <2>1, <2>2 DEF action_set_rwnd, Run, TypeOK, Actions
  <1>5. CASE action_set_burst_on
    <2>1. plan' \in Seq(Actions)
      BY <1>5, RunType DEF action_set_burst_on
    <2>2. tune_rwnd' \in 0 .. U16 - 1
      <3>1. hist[link] \in Nat
        BY DEF TypeOK
      <3>2. uint16(hist[link]) \in 0 .. U16 - 1
        BY <3>1, Uint16Type
      <3> QED BY <1>5, <3>2 DEF action_set_burst_on
    <2> QED BY <1>5, <2>1, <2>2 DEF action_set_burst_on, Run, TypeOK, Actions
  <1>6. CASE action_set_burst_off
    <2>1. plan' \in Seq(Actions)
      BY <1>6, RunType DEF action_set_burst_off
    <2>2. hist' \in [Links -> Nat]
      BY <1>6 DEF action_set_burst_off, TypeOK
    <2> QED BY <1>6, <2>1, <2>2 DEF action_set_burst_off, Run, TypeOK, Actions
  <1>7. CASE action_set_adapt
    <2>1. plan' \in Seq(Actions)
      BY <1>7, RunType DEF action_set_adapt
    <2>2. tune_rwnd' \in 0 .. U16 - 1 /\ sample_interval' \in Nat
      BY <1>7, Uint16Type DEF action_set_adapt, TypeOK
    <2> QED BY <1>7, <2>1, <2>2 DEF action_set_adapt, Run, TypeOK, Actions
  <1>8. CASE tcp_schedule
    <2>1. tune_rwnd' \in 0 .. U16 - 1 /\ wrapped' \in BOOLEAN
      BY <1>8, SampleType
    <2> QED BY <1>8, <2>1 DEF tcp_schedule, tcp_vars, TypeOK
  <1>9. CASE worker_handle_rwnd
    <2>1. data_rcvd' \in Nat
      BY <1>9 DEF worker_handle_rwnd, TypeOK
    <2> QED BY <1>9, <2>1 DEF worker_handle_rwnd, tcp_vars, ghosts, TypeOK
  <1>10. CASE UNCHANGED vars
    BY <1>10 DEF vars, worker_vars, tcp_vars, ghosts, TypeOK
  <1> QED
    BY <1>1, <1>2, <1>3, <1>4, <1>5, <1>6, <1>7, <1>8, <1>9, <1>10 DEF Next, RunPlan

\* The window always fits the 16 bits of the TCP header field, through every
\* clamp, restore, estimate and adaptation, for every width and percentage.
THEOREM TypeCorrect == Spec => []TypeOK
  <1> QED BY InitType, NextType, PTL DEF Spec

-----------------------------------------------------------------------------
(* The memory of the link that is not in use. *)

LEMMA NextRemembered ==
    TypeOK /\ OtherLinkRemembered /\ [Next]_vars => OtherLinkRemembered'
  <1> SUFFICES ASSUME TypeOK, OtherLinkRemembered, [Next]_vars, ~zero_at_ho'
               PROVE  link' = target' /\ \A l \in Links \ {link'} : hist'[l] = memory'[l]
    BY DEF OtherLinkRemembered
  <1> USE DEF OtherLinkRemembered
  <1>0. hist \in [Links -> Nat] /\ memory \in [Links -> Nat] /\ link \in Links
        /\ tune_rwnd \in Nat
    BY DEF TypeOK
  <1>1. ASSUME NEW enable \in BOOLEAN, NEW h \in [Links -> HistWindows],
               action_init_tcp_sched(enable, h)
        PROVE  link' = target' /\ hist' = memory'
    BY <1>1 DEF action_init_tcp_sched
  <1>2. CASE action_sol_update
    <2>0. zero_at_ho' = (zero_at_ho \/ tune_rwnd = 0)
      BY <1>2 DEF action_sol_update
    <2>1. ~zero_at_ho /\ tune_rwnd > 0
      <3>1. ~zero_at_ho /\ tune_rwnd # 0
        BY <2>0, Zenon
      <3> QED BY <1>0, <3>1
    <2>2. hist' = [hist EXCEPT ![link] = tune_rwnd] /\ link' = row.mark
          /\ memory' = [memory EXCEPT ![link] = tune_rwnd] /\ target' = row.mark
      BY <1>2, <2>1 DEF action_sol_update, saved_under
    <2>3. \A l \in Links : hist'[l] = memory'[l] \/ l # link
      BY <1>0, <2>2
    <2>4. \A l \in Links \ {link} : hist'[l] = memory'[l]
      BY <1>0, <2>1, <2>2
    <2> QED BY <2>2, <2>3, <2>4
  <1>3. CASE action_set_burst_off
    <2>1. \A l \in Links \ {link} : hist'[l] = hist[l]
      BY <1>0, <1>3 DEF action_set_burst_off
    <2> QED BY <1>3, <2>1 DEF action_set_burst_off
  <1>4. CASE UNCHANGED <<link, target, hist, memory, zero_at_ho>>
    BY <1>4
  <1>5. ASSUME NEW r \in Rows, SOL_HO(r)
        PROVE  UNCHANGED <<link, target, hist, memory, zero_at_ho>>
    BY <1>5 DEF SOL_HO, tcp_vars, ghosts
  <1>6. ASSUME action_set_rwnd \/ action_set_burst_on \/ action_set_adapt \/ tcp_schedule
               \/ worker_handle_rwnd \/ UNCHANGED vars
        PROVE  UNCHANGED <<link, target, hist, memory, zero_at_ho>>
    BY <1>6 DEF action_set_rwnd, action_set_burst_on, action_set_adapt, tcp_schedule,
                worker_handle_rwnd, vars, tcp_vars, ghosts
  <1> QED BY <1>1, <1>2, <1>3, <1>4, <1>5, <1>6 DEF Next, RunPlan

\* Until a handover meets a window of 0, the controller is on the link of the
\* last SOL_HO row and the other link's remembered window is the one that was in
\* force when it was left, for every trace of rows and every sequence of
\* samples and acknowledgements between them.
THEOREM LinksKeepTheirWindows == Spec => []OtherLinkRemembered
  <1>1. Init => OtherLinkRemembered
    BY DEF Init, OtherLinkRemembered, Links
  <1> QED BY <1>1, NextRemembered, TypeCorrect, PTL DEF Spec

-----------------------------------------------------------------------------
(* The phases of a row. *)

\* The actions that are left of a row: burst_off follows burst_on, adapt comes last
\* and sol_update first.
PlanShape ==
    /\ \A i \in 1 .. Len(plan) :
          plan[i] = "burst_on" => i < Len(plan) /\ plan[i + 1] = "burst_off"
    /\ \A i \in 1 .. Len(plan) : plan[i] = "adapt" => i = Len(plan)
    /\ \A i \in 1 .. Len(plan) : plan[i] = "sol_update" => i = 1

\* What the flags and the actions that are left say of the row: the phase it asks
\* for is in force or still to come, and that of an earlier row is about to end.
PhaseInv ==
    /\ do_burst => plan # <<>> /\ plan[1] = "burst_off"
    /\ armed /\ row.adapt => IF plan = <<>> THEN do_adapt ELSE plan[Len(plan)] = "adapt"
    /\ armed /\ ~row.adapt =>
          /\ \A i \in 1 .. Len(plan) : plan[i] # "adapt"
          /\ do_adapt => plan # <<>> /\ plan[1] = "sol_update"
    /\ ~armed => plan = <<>> /\ row.adapt

\* The part of a row's plan before adapt.
Unfinished(s) ==
    /\ s \in Seq(Actions) /\ Len(s) \in Nat \ {0} /\ s[1] = "sol_update"
    /\ \A i \in 1 .. Len(s) :
          /\ s[i] = "sol_update" => i = 1
          /\ s[i] # "adapt"
          /\ s[i] = "burst_on" => i < Len(s) /\ s[i + 1] = "burst_off"

Middle(t) ==
    /\ t \in Seq(Actions)
    /\ \A i \in 1 .. Len(t) :
          /\ t[i] \notin {"sol_update", "adapt"}
          /\ t[i] = "burst_on" => i < Len(t) /\ t[i + 1] = "burst_off"

\* The elements of a concatenation.
LEMMA Joined ==
    ASSUME NEW s \in Seq(Actions), NEW t \in Seq(Actions)
    PROVE  /\ s \o t \in Seq(Actions) /\ Len(s) \in Nat /\ Len(t) \in Nat
           /\ Len(s \o t) = Len(s) + Len(t)
           /\ \A i \in 1 .. Len(s) : (s \o t)[i] = s[i]
           /\ \A i \in 1 .. Len(t) : (s \o t)[Len(s) + i] = t[i]
  <1>1. /\ s \o t \in Seq(Actions) /\ Len(s) \in Nat /\ Len(t) \in Nat
        /\ Len(s \o t) = Len(s) + Len(t)
    BY ConcatProperties
  <1>2. \A i \in 1 .. Len(s) + Len(t) : (s \o t)[i] = IF i <= Len(s) THEN s[i] ELSE t[i - Len(s)]
    BY ConcatProperties
  <1>3. ASSUME NEW i \in 1 .. Len(t) PROVE (s \o t)[Len(s) + i] = t[i]
    <2>1. /\ Len(s) + i \in 1 .. Len(s) + Len(t) /\ ~(Len(s) + i <= Len(s))
          /\ (Len(s) + i) - Len(s) = i
      BY <1>1
    <2> QED BY <1>2, <2>1
  <1> QED BY <1>1, <1>2, <1>3

LEMMA UnfinishedGrows ==
    ASSUME NEW s, NEW t, Unfinished(s), Middle(t)
    PROVE  Unfinished(s \o t)
  <1> DEFINE u == s \o t
  <1>1. s \in Seq(Actions) /\ t \in Seq(Actions) /\ Len(s) \in Nat \ {0}
    BY DEF Unfinished, Middle
  <1>2. /\ u \in Seq(Actions) /\ Len(t) \in Nat
        /\ Len(u) = Len(s) + Len(t)
        /\ \A i \in 1 .. Len(s) : u[i] = s[i]
        /\ \A i \in 1 .. Len(t) : u[Len(s) + i] = t[i]
    BY <1>1, Joined
  <1> HIDE DEF u
  <1>3. u[1] = "sol_update"
    BY <1>1, <1>2 DEF Unfinished
  <1>4. ASSUME NEW i \in 1 .. Len(u)
        PROVE  /\ u[i] = "sol_update" => i = 1
               /\ u[i] # "adapt"
               /\ u[i] = "burst_on" => i < Len(u) /\ u[i + 1] = "burst_off"
    <2>1. CASE i <= Len(s)
      <3>1. i \in 1 .. Len(s) /\ u[i] = s[i]
        BY <1>1, <1>2, <2>1
      <3>2. i < Len(s) => u[i + 1] = s[i + 1]
        BY <1>1, <1>2, <3>1
      <3> QED BY <1>1, <1>2, <3>1, <3>2 DEF Unfinished
    <2>2. CASE ~(i <= Len(s))
      <3> DEFINE j == i - Len(s)
      <3>1. j \in 1 .. Len(t) /\ Len(s) + j = i
        BY <1>1, <1>2, <2>2
      <3> HIDE DEF j
      <3>2. u[i] = t[j]
        BY <1>2, <3>1
      <3>3. j < Len(t) => j + 1 \in 1 .. Len(t) /\ Len(s) + (j + 1) = i + 1 /\ i < Len(u)
        <4>1. \A a, b, c \in Nat : c >= 1 /\ c < b =>
                 c + 1 \in 1 .. b /\ a + (c + 1) = (a + c) + 1 /\ a + c < a + b
          OBVIOUS
        <4>2. Len(s) \in Nat /\ Len(t) \in Nat /\ j \in Nat /\ j >= 1
          BY <1>1, <1>2, <3>1
        <4>3. j < Len(t) => j + 1 \in 1 .. Len(t) /\ Len(s) + (j + 1) = (Len(s) + j) + 1
                            /\ Len(s) + j < Len(s) + Len(t)
          BY <4>1, <4>2
        <4> QED BY <1>2, <3>1, <4>3
      <3>4. j < Len(t) => u[i + 1] = t[j + 1]
        BY <1>2, <3>3
      <3> QED BY <3>1, <3>2, <3>3, <3>4 DEF Middle
    <2> QED BY <2>1, <2>2
  <1>5. Len(u) \in Nat \ {0}
    BY <1>1, <1>2
  <1> QED BY <1>2, <1>3, <1>4, <1>5 DEF Unfinished, u

LEMMA MiddleParts ==
    Middle(<<>>) /\ Middle(<<"set_rwnd">>) /\ Middle(<<"burst_on", "burst_off">>)
  <1>1. Middle(<<>>)
    BY DEF Middle
  <1>2. Middle(<<"set_rwnd">>)
    <2> DEFINE t == <<"set_rwnd">>
    <2>1. t \in Seq(Actions) /\ Len(t) = 1 /\ t[1] = "set_rwnd"
      BY DEF Actions
    <2> HIDE DEF t
    <2>2. \A i \in 1 .. 1 : i = 1
      OBVIOUS
    <2>3. Middle(t)
      BY <2>1, <2>2 DEF Middle
    <2> QED BY <2>3 DEF t
  <1>3. Middle(<<"burst_on", "burst_off">>)
    <2> DEFINE t == <<"burst_on", "burst_off">>
    <2>1. t \in Seq(Actions) /\ Len(t) = 2 /\ t[1] = "burst_on" /\ t[2] = "burst_off"
      BY DEF Actions
    <2> HIDE DEF t
    <2>2. 1 + 1 = 2 /\ 1 < 2 /\ \A i \in 1 .. 2 : i = 1 \/ i = 2
      OBVIOUS
    <2>3. Middle(t)
      BY <2>1, <2>2 DEF Middle
    <2> QED BY <2>3 DEF t
  <1> QED BY <1>1, <1>2, <1>3

\* The plan of a row: sol_update first, adapt last if the row asks for it.
LEMMA PlanOfRow ==
    ASSUME NEW r \in Rows
    PROVE  LET s == parse_handle_solution(r)
           IN  /\ s \in Seq(Actions) /\ Len(s) \in Nat \ {0} /\ s[1] = "sol_update"
               /\ \A i \in 1 .. Len(s) :
                     /\ s[i] = "burst_on" => i < Len(s) /\ s[i + 1] = "burst_off"
                     /\ s[i] = "sol_update" => i = 1
                     /\ s[i] = "adapt" => i = Len(s) /\ r.adapt
               /\ r.adapt => s[Len(s)] = "adapt"
  <1> DEFINE s1 == <<"sol_update">>
             t1 == IF r.freeze THEN <<"set_rwnd">> ELSE <<>>
             t2 == IF r.burst THEN <<"burst_on", "burst_off">> ELSE <<>>
             t3 == IF r.adapt THEN <<"adapt">> ELSE <<>>
             s3 == (s1 \o t1) \o t2
             s4 == s3 \o t3
  <1>0. parse_handle_solution(r) = s4
    BY DEF parse_handle_solution
  <1>1. Unfinished(s1)
    BY DEF Unfinished, Actions
  <1>2. Middle(t1)
    <2>1. Middle(<<"set_rwnd">>) /\ Middle(<<>>)
      BY MiddleParts
    <2> QED BY <2>1, Zenon
  <1>3. Middle(t2)
    <2>1. Middle(<<"burst_on", "burst_off">>) /\ Middle(<<>>)
      BY MiddleParts
    <2> QED BY <2>1, Zenon
  <1>4. /\ r.adapt => t3 \in Seq(Actions) /\ Len(t3) = 1 /\ t3[1] = "adapt"
        /\ ~r.adapt => t3 = <<>>
    <2>1. <<"adapt">> \in Seq(Actions) /\ Len(<<"adapt">>) = 1 /\ <<"adapt">>[1] = "adapt"
      BY DEF Actions
    <2> QED BY <2>1, Zenon
  <1> HIDE DEF s1, t1, t2, t3
  <1>5. Unfinished(s3)
    BY <1>1, <1>2, <1>3, UnfinishedGrows
  <1> HIDE DEF s3
  <1>6. CASE r.adapt
    <2>1. /\ s3 \in Seq(Actions) /\ Len(s3) \in Nat \ {0} /\ t3 \in Seq(Actions)
          /\ Len(t3) = 1 /\ t3[1] = "adapt"
      BY <1>4, <1>5, <1>6 DEF Unfinished
    <2>2. /\ s4 \in Seq(Actions) /\ Len(s4) = Len(s3) + 1
          /\ \A i \in 1 .. Len(s3) : s4[i] = s3[i]
          /\ s4[Len(s3) + 1] = "adapt"
      <3>1. /\ s4 \in Seq(Actions) /\ Len(s4) = Len(s3) + Len(t3)
            /\ \A i \in 1 .. Len(s3) : s4[i] = s3[i]
            /\ \A i \in 1 .. Len(t3) : s4[Len(s3) + i] = t3[i]
        BY <2>1, Joined
      <3>2. 1 \in 1 .. Len(t3)
        BY <2>1
      <3> QED BY <2>1, <3>1, <3>2
    <2> HIDE DEF s4
    <2>3. /\ Len(s4) \in Nat \ {0} /\ s4[1] = "sol_update" /\ s4[Len(s4)] = "adapt"
      BY <1>5, <2>1, <2>2 DEF Unfinished
    <2>4. ASSUME NEW i \in 1 .. Len(s4)
          PROVE  /\ s4[i] = "burst_on" => i < Len(s4) /\ s4[i + 1] = "burst_off"
                 /\ s4[i] = "sol_update" => i = 1
                 /\ s4[i] = "adapt" => i = Len(s4)
      <3>1. CASE i = Len(s4)
        BY <2>3, <3>1
      <3>2. CASE i # Len(s4)
        <4>1. i \in 1 .. Len(s3) /\ s4[i] = s3[i] /\ i < Len(s4)
          BY <2>1, <2>2, <3>2
        <4>2. i < Len(s3) => s4[i + 1] = s3[i + 1]
          BY <2>1, <2>2, <4>1
        <4> QED BY <1>5, <4>1, <4>2 DEF Unfinished
      <3> QED BY <3>1, <3>2
    <2> QED BY <1>0, <1>6, <2>2, <2>3, <2>4
  <1>7. CASE ~r.adapt
    <2>1. s4 = s3
      BY <1>4, <1>5, <1>7, ConcatEmptySeq DEF Unfinished
    <2> QED BY <1>0, <1>5, <1>7, <2>1 DEF Unfinished
  <1> QED BY <1>6, <1>7

\* What an action leaves of the plan.
LEMMA RunPlanStep ==
    ASSUME TypeOK, PlanShape, NEW a, Run(a)
    PROVE  /\ plan # <<>> /\ Len(plan) \in Nat \ {0} /\ plan[1] = a
           /\ UNCHANGED <<armed, row>>
           /\ \A i \in 1 .. Len(plan') : plan'[i] = plan[i + 1] /\ i + 1 \in 1 .. Len(plan)
           /\ (plan' = <<>>) <=> (Len(plan) = 1)
           /\ plan' # <<>> => plan'[Len(plan')] = plan[Len(plan)] /\ plan'[1] = plan[2]
           /\ PlanShape'
  <1>1. plan \in Seq(Actions) /\ plan # <<>> /\ Head(plan) = a /\ plan' = Tail(plan)
    BY DEF TypeOK, Actions, Run
  <1>2. /\ Len(plan) \in Nat \ {0} /\ plan[1] = a /\ plan' \in Seq(Actions)
        /\ Len(plan') = Len(plan) - 1
        /\ \A i \in 1 .. Len(plan') : plan'[i] = plan[i + 1]
    BY <1>1, EmptySeq, HeadTailProperties
  <1>3. (plan' = <<>>) <=> (Len(plan) = 1)
    <2>1. (plan' = <<>>) <=> (Len(plan') = 0)
      BY <1>2, EmptySeq
    <2> QED BY <1>2, <2>1
  <1>4. \A i \in 1 .. Len(plan') : i + 1 \in 1 .. Len(plan) /\ i + 1 # 1
    BY <1>2
  <1>5. plan' # <<>> => plan'[Len(plan')] = plan[Len(plan)] /\ plan'[1] = plan[2]
    <2> SUFFICES ASSUME plan' # <<>> PROVE plan'[Len(plan')] = plan[Len(plan)] /\ plan'[1] = plan[2]
      OBVIOUS
    <2>1. Len(plan') \in 1 .. Len(plan') /\ 1 \in 1 .. Len(plan') /\ Len(plan') + 1 = Len(plan)
      BY <1>2, <1>3
    <2> QED BY <1>2, <2>1
  <1>6. PlanShape'
    <2> SUFFICES ASSUME NEW i \in 1 .. Len(plan')
                 PROVE  /\ plan'[i] = "burst_on" => i < Len(plan') /\ plan'[i + 1] = "burst_off"
                        /\ plan'[i] = "adapt" => i = Len(plan')
                        /\ plan'[i] = "sol_update" => i = 1
      BY DEF PlanShape
    <2>1. plan'[i] = plan[i + 1] /\ i + 1 \in 1 .. Len(plan) /\ i + 1 # 1 /\ i \in Nat
      BY <1>2, <1>4
    <2>2. plan'[i] = "burst_on" => i + 1 < Len(plan) /\ plan[(i + 1) + 1] = "burst_off"
      BY <2>1 DEF PlanShape
    <2>3. plan'[i] = "burst_on" => i < Len(plan') /\ plan'[i + 1] = "burst_off"
      <3> SUFFICES ASSUME plan'[i] = "burst_on" PROVE i < Len(plan') /\ plan'[i + 1] = "burst_off"
        OBVIOUS
      <3>1. i < Len(plan') /\ i + 1 \in 1 .. Len(plan')
        BY <1>2, <2>1, <2>2
      <3> QED BY <1>2, <2>2, <3>1
    <2>4. plan'[i] = "adapt" => i = Len(plan')
      BY <1>2, <2>1 DEF PlanShape
    <2>5. plan'[i] # "sol_update"
      BY <2>1 DEF PlanShape
    <2> QED BY <2>3, <2>4, <2>5
  <1> QED BY <1>1, <1>2, <1>3, <1>4, <1>5, <1>6 DEF Run

LEMMA NextPhase ==
    TypeOK /\ PlanShape /\ PhaseInv /\ [Next]_vars => PlanShape' /\ PhaseInv'
  <1> SUFFICES ASSUME TypeOK, PlanShape, PhaseInv, [Next]_vars PROVE PlanShape' /\ PhaseInv'
    OBVIOUS
  <1>0. plan \in Seq(Actions) /\ row.adapt \in BOOLEAN /\ do_adapt \in BOOLEAN /\ do_burst \in BOOLEAN
        /\ Len(<<>>) = 0
    BY DEF TypeOK, Actions, Rows
  <1>1. ASSUME NEW enable \in BOOLEAN, NEW h \in [Links -> HistWindows],
               action_init_tcp_sched(enable, h)
        PROVE  PlanShape' /\ PhaseInv'
    <2>1. ~armed /\ armed' /\ do_adapt' /\ UNCHANGED <<do_burst, row, plan>>
      BY <1>1 DEF action_init_tcp_sched
    <2>2. plan = <<>> /\ row.adapt
      BY <2>1 DEF PhaseInv
    <2> QED BY <2>1, <2>2 DEF PlanShape, PhaseInv
  <1>2. ASSUME NEW r \in Rows, SOL_HO(r)
        PROVE  PlanShape' /\ PhaseInv'
    <2>1. /\ armed /\ plan = <<>> /\ row' = r /\ plan' = parse_handle_solution(r)
          /\ UNCHANGED <<armed, do_burst, do_adapt>>
      BY <1>2 DEF SOL_HO, worker_vars, tcp_vars
    <2>2. /\ plan' \in Seq(Actions) /\ Len(plan') \in Nat \ {0} /\ plan'[1] = "sol_update"
          /\ \A i \in 1 .. Len(plan') :
                /\ plan'[i] = "burst_on" => i < Len(plan') /\ plan'[i + 1] = "burst_off"
                /\ plan'[i] = "sol_update" => i = 1
                /\ plan'[i] = "adapt" => i = Len(plan') /\ r.adapt
          /\ r.adapt => plan'[Len(plan')] = "adapt"
      BY <2>1, PlanOfRow
    <2>3. plan' # <<>> /\ ~do_burst
      BY <1>0, <2>1, <2>2, EmptySeq DEF PhaseInv
    <2>4. PlanShape'
      BY <2>2 DEF PlanShape
    <2> QED BY <2>1, <2>2, <2>3, <2>4 DEF PhaseInv
  <1>3. CASE RunPlan
    <2>1. PICK a \in Actions : Run(a)
      BY <1>3 DEF RunPlan, action_sol_update, action_set_rwnd, action_set_burst_on,
                  action_set_burst_off, action_set_adapt, Actions
    <2>2. /\ plan # <<>> /\ Len(plan) \in Nat \ {0} /\ plan[1] = a
          /\ UNCHANGED <<armed, row>> /\ Head(plan) = a
          /\ \A i \in 1 .. Len(plan') : plan'[i] = plan[i + 1] /\ i + 1 \in 1 .. Len(plan)
          /\ (plan' = <<>>) <=> (Len(plan) = 1)
          /\ plan' # <<>> => plan'[Len(plan')] = plan[Len(plan)] /\ plan'[1] = plan[2]
          /\ PlanShape'
      BY <2>1, RunPlanStep DEF Run
    <2>3. armed /\ 1 \in 1 .. Len(plan)
      BY <2>2 DEF PhaseInv
    <2>4. ~row.adapt => \A i \in 1 .. Len(plan') : plan'[i] # "adapt"
      BY <2>2, <2>3 DEF PhaseInv
    <2>5. row.adapt => (IF plan' = <<>> THEN a = "adapt" ELSE plan'[Len(plan')] = "adapt")
      BY <2>2, <2>3 DEF PhaseInv
    <2>6. /\ do_burst' => a = "burst_on"
          /\ a = "burst_on" => ~do_adapt'
          /\ a = "sol_update" => ~do_adapt'
          /\ a = "adapt" => do_adapt'
          /\ a \in {"set_rwnd", "burst_off"} => do_adapt' = do_adapt
      <3>1. do_burst => a = "burst_off"
        BY <2>2 DEF PhaseInv
      <3>2. CASE action_sol_update
        BY <2>2, <3>2 DEF action_sol_update, Run, adapt_cleared
      <3>3. CASE action_set_rwnd
        BY <2>2, <3>1, <3>3 DEF action_set_rwnd, Run
      <3>4. CASE action_set_burst_on
        BY <2>2, <3>4 DEF action_set_burst_on, Run
      <3>5. CASE action_set_burst_off
        BY <2>2, <3>5 DEF action_set_burst_off, Run
      <3>6. CASE action_set_adapt
        BY <2>2, <3>6 DEF action_set_adapt, Run
      <3> QED BY <1>3, <3>2, <3>3, <3>4, <3>5, <3>6 DEF RunPlan
    <2>7. do_burst' => plan' # <<>> /\ plan'[1] = "burst_off"
      <3> SUFFICES ASSUME a = "burst_on" PROVE plan' # <<>> /\ plan'[1] = "burst_off"
        BY <2>6
      <3>1. 1 < Len(plan) /\ plan[1 + 1] = "burst_off"
        BY <2>2, <2>3 DEF PlanShape
      <3>2. plan' # <<>>
        BY <2>2, <3>1
      <3> QED BY <2>2, <3>1, <3>2
    <2>8. row.adapt /\ plan' = <<>> => do_adapt'
      BY <2>5, <2>6
    <2>9. ~row.adapt => ~do_adapt'
      <3> SUFFICES ASSUME ~row.adapt PROVE ~do_adapt'
        OBVIOUS
      <3>1. a # "adapt"
        BY <2>2, <2>3 DEF PhaseInv
      <3>2. a # "sol_update" => ~do_adapt
        BY <2>2, <2>3 DEF PhaseInv
      <3> QED BY <2>1, <2>6, <3>1, <3>2 DEF Actions
    <2> QED BY <2>2, <2>3, <2>4, <2>5, <2>7, <2>8, <2>9 DEF PhaseInv
  <1>4. CASE tcp_schedule \/ worker_handle_rwnd \/ UNCHANGED vars
    <2>1. UNCHANGED <<do_burst, do_adapt, armed, row, plan>>
      BY <1>4 DEF tcp_schedule, worker_handle_rwnd, vars, worker_vars, tcp_vars
    <2> QED BY <2>1 DEF PlanShape, PhaseInv
  <1> QED BY <1>1, <1>2, <1>3, <1>4 DEF Next

LEMMA PhasesInvariant == Spec => [](TypeOK /\ PlanShape /\ PhaseInv)
  <1>1. Init => PlanShape /\ PhaseInv
    BY EmptySeq DEF Init, PlanShape, PhaseInv
  <1> QED BY <1>1, InitType, NextType, NextPhase, PTL DEF Spec

\* Once the actions of a SOL_HO row have run, passive adaptation is on exactly if
\* the row asked for it and no burst is left running, for every trace: sol_update
\* clears the mode of the earlier row and parse_handle_solution lists burst_off
\* after burst_on and adapt last.
THEOREM RowsSettle == Spec => []PhasesSettle
  <1>1. TypeOK /\ PhaseInv => PhasesSettle
    BY DEF PhaseInv, PhasesSettle, TypeOK, Rows
  <1> QED BY <1>1, PhasesInvariant, PTL

-----------------------------------------------------------------------------
(* The window during a burst. *)

LEMMA SmallUint16 ==
    ASSUME NEW x \in Nat, x < U16
    PROVE  uint16(x) = x
  BY ControlAssumption DEF uint16

LEMMA NextBurst ==
    TypeOK /\ PhaseInv /\ BurstOnlyRaises /\ [Next]_vars => BurstOnlyRaises'
  <1> SUFFICES ASSUME TypeOK, PhaseInv, BurstOnlyRaises, [Next]_vars,
                      do_burst', ~wrapped', hist'[link'] < U16
               PROVE  tune_rwnd' >= hist'[link']
    BY DEF BurstOnlyRaises
  <1>0. tune_rwnd \in Nat /\ hist[link] \in Nat /\ U16 \in Nat
    BY ControlAssumption DEF TypeOK
  <1>1. ASSUME NEW enable \in BOOLEAN, NEW h \in [Links -> HistWindows],
               action_init_tcp_sched(enable, h)
        PROVE  FALSE
    BY <1>1 DEF action_init_tcp_sched, PhaseInv
  <1>2. CASE action_sol_update \/ action_set_burst_off \/ action_set_adapt
    BY <1>2 DEF action_sol_update, action_set_burst_off, action_set_adapt
  <1>3. CASE action_set_rwnd
    <2>1. do_burst /\ Head(plan) = "set_rwnd" /\ plan # <<>>
      BY <1>3 DEF action_set_rwnd, Run
    <2>2. Head(plan) = plan[1]
      OBVIOUS
    <2> QED BY <2>1, <2>2 DEF PhaseInv
  <1>4. CASE action_set_burst_on
    <2>1. tune_rwnd' = uint16(hist[link]) /\ UNCHANGED <<hist, link>>
      BY <1>4 DEF action_set_burst_on
    <2> QED BY <1>0, <2>1, SmallUint16
  <1>5. CASE tcp_schedule
    <2>1. UNCHANGED <<do_burst, hist, link>>
      BY <1>5 DEF tcp_schedule, tcp_vars
    <2>2. tcp_schedule_burst
      BY <1>5, <2>1 DEF tcp_schedule, tcp_schedule_adapt
    <2>3. PICK est \in burst_estimates :
            /\ tune_rwnd' = IF better_estimate(est) THEN uint16(est) ELSE tune_rwnd
            /\ wrapped' = (wrapped \/ est >= U16
                           \/ (data_rcvd * Rtt[link]) \div sample_interval >= I31)
      BY <2>2 DEF tcp_schedule_burst
    <2>4. ~wrapped /\ ~(est >= U16)
      BY <2>3, Zenon
    <2>5. est \in Nat
      <3>1. data_rcvd \in Nat /\ Rtt[link] \in Nat /\ sample_interval \in Nat \ {0}
        BY <1>5, ControlAssumption DEF TypeOK, tcp_schedule
      <3>2. (data_rcvd * Rtt[link]) \div sample_interval \in Nat
        BY <3>1, ProductType, DivType
      <3> QED BY <3>2, DivType, ControlAssumption DEF burst_estimates
    <2>6. tune_rwnd >= hist[link]
      BY <2>1, <2>4 DEF BurstOnlyRaises
    <2>7. est < U16 /\ uint16(est) = est
      BY <1>0, <2>4, <2>5, SmallUint16
    <2> QED BY <1>0, <2>1, <2>3, <2>5, <2>6, <2>7 DEF better_estimate
  <1>6. CASE (\E r \in Rows : SOL_HO(r)) \/ worker_handle_rwnd \/ UNCHANGED vars
    <2>1. UNCHANGED <<do_burst, hist, link, tune_rwnd, wrapped>>
      BY <1>6 DEF SOL_HO, worker_handle_rwnd, vars, worker_vars, tcp_vars, ghosts
    <2> QED BY <2>1 DEF BurstOnlyRaises
  <1> QED BY <1>1, <1>2, <1>3, <1>4, <1>5, <1>6 DEF Next, RunPlan

\* While a burst is estimated the window stays at or above the remembered one it
\* started from, whatever is sampled and however often, as long as both fit the
\* integers they are kept in: no clamp can come between burst_on and burst_off.
THEOREM BurstsRaise == Spec => []BurstOnlyRaises
  <1>1. Init => BurstOnlyRaises
    BY DEF Init, BurstOnlyRaises
  <1> QED BY <1>1, NextBurst, PhasesInvariant, PTL DEF Spec

=============================================================================
