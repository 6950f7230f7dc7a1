----------------------------- MODULE MCEmulator -----------------------------
(* Instances of Emulator for TLC. *)
EXTENDS Emulator

InitRow(q, m, end) == [ev |-> "INIT", time |-> 0, q |-> q, mark |-> m, end |-> end]

SchedRow == [ev |-> "SOL_INIT_SCHED", time |-> 0, q |-> 1, fire |-> 1,
             sample_interval |-> 1, rtt |-> <<3, 2>>]

HoRows ==
    {[ev |-> "HO", time |-> t, q |-> 0, mark |-> m, gap |-> g, cnt |-> c.cnt, loss |-> c.loss] :
        t \in {2, 4}, m \in {1, 2}, g \in {0, 2, 6},
        c \in {[cnt |-> 0, loss |-> 0], [cnt |-> 0, loss |-> 1], [cnt |-> 1, loss |-> 0]}}

SolRows(times) ==
    {[ev |-> "SOL_HO", time |-> t, q |-> 1, mark |-> 2, enable_freeze |-> 1, freeze_ms |-> f,
      enable_dedup |-> d, smooth_ms |-> 2, burst_duration |-> b, enable_adapt |-> a] :
        t \in times, f \in {0, 1}, d \in {0, 1}, b \in {0, 2}, a \in {0, 1}}

Extras == <<[ev |-> "CMD", time |-> 1, q |-> 0], [ev |-> "UNKNOWN", time |-> 1, q |-> 0],
            [ev |-> "SOL_HANDLEDUP", time |-> 3, q |-> 1, enable |-> 1],
            [ev |-> "SOL_HANDLEDUP", time |-> 5, q |-> 1, enable |-> 0]>>

\* Two handovers, in either order of the file, overlapping or not, some of them
\* past the end; the watched queue closed last or first.
HandoverTraces ==
    {<<InitRow(0, m, 9), InitRow(1, 1, e), SchedRow, a, b>> \o Extras :
        m \in {0, 1}, e \in {7, 9}, a \in HoRows, b \in HoRows}

\* Two SOL_HO rows, overlapping or not.
SolutionTraces ==
    {<<InitRow(1, 1, 9), SchedRow, a, b>> : a \in SolRows({1, 3}), b \in SolRows({3, 4, 6})}

\* SOL_HO rows without a SOL_INIT_SCHED row: the controller was never configured.
BareTraces == {<<InitRow(1, 1, 9), a>> : a \in SolRows({1})}

AllTraces == HandoverTraces \cup SolutionTraces \cup BareTraces

Garbage == {[fire |-> 0, sample_interval |-> 5, rtt |-> <<5, 0>>]}

=============================================================================
