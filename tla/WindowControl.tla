---------------------------- MODULE WindowControl ---------------------------
(***************************************************************************)
(* The receive-window controller: the window fields of worker_ctx and the  *)
(* tcp_ctx that remembers one window per link (src/src/action.c,           *)
(* src/src/worker.c), driven by SOL_INIT_SCHED and SOL_HO rows             *)
(* (src/src/event.c).                                                      *)
(*                                                                         *)
(* Three things interleave: the actions a SOL_HO row expands into, which   *)
(* the scheduler thread runs one after another; the sampler tcp_schedule,  *)
(* which the same thread runs between any two of them; and the nfq thread, *)
(* which adds acknowledged bytes to data_rcvd.  Every access is one        *)
(* critical section of rwnd_lock.  The rows of a trace do not overlap      *)
(* here: a row starts when the plan of the one before it is done.          *)
(*                                                                         *)
(* Percentages are exact: the code computes them in floating point, which  *)
(* agrees for the values that are exact in binary, as the instances' are.  *)
(***************************************************************************)
EXTENDS Integers, Sequences

CONSTANTS
    MaxRows,         \* bound: SOL_HO rows
    MaxData,         \* bound: no packet is counted once data_rcvd is here
    U16, I31,        \* 2^16 and 2^31
    Scale,           \* 2^RWSCALE
    ClampFloor,      \* 10, the least value of a clamp
    Threshold, Pace, \* percentages
    HistWindows,     \* hist_rw fields of SOL_INIT_SCHED
    Rtt,             \* the rtt field of each link
    BurstInterval,   \* sample_interval
    Received         \* ack - last_ack as a uint32_t: an older ack is just below 2^32

Links == 1 .. 2

ASSUME ControlAssumption ==
    /\ MaxRows \in Nat /\ MaxData \in Nat
    /\ U16 \in Nat \ {0} /\ I31 \in Nat /\ Scale \in Nat \ {0}
    /\ ClampFloor \in 0 .. U16 - 1
    /\ Threshold \in Nat /\ Pace \in 0 .. 400
    /\ HistWindows \subseteq Nat
    /\ Rtt \in [Links -> Nat] /\ BurstInterval \in Nat \ {0}
    /\ Received \subseteq Nat

VARIABLES
    \* worker_ctx
    do_rwnd, do_burst, do_adapt, tune_rwnd, data_rcvd,
    \* tcp_ctx; `armed' says that action_init_tcp_sched has linked a worker
    armed, link, hist, sample_interval,
    \* the SOL_HO row that is running and the actions it still has to run
    row, plan, rows,
    \* ghosts
    target,          \* the link the last SOL_HO row switched to
    memory,          \* the window in force when each link was last left
    clamped,         \* the window is a clamp, installed by action_set_rwnd
    zero_at_ho,      \* a SOL_HO row met a window of 0
    wrapped          \* an estimate did not fit the integer it was stored in

worker_vars == <<do_rwnd, do_burst, do_adapt, tune_rwnd, data_rcvd>>
tcp_vars    == <<armed, link, hist, sample_interval>>
ghosts      == <<target, memory, clamped, zero_at_ho, wrapped>>
vars == <<worker_vars, tcp_vars, row, plan, rows, ghosts>>

Rows == [mark : Links, freeze : BOOLEAN, burst : BOOLEAN, adapt : BOOLEAN]

not_truncated(x) == x
uint16(x) == x % U16

-----------------------------------------------------------------------------
(* What a SOL_HO row expands into, in the order the scheduler runs it. *)

plan_adapt_needs_burst(r) ==
    <<"sol_update">>
    \o (IF r.freeze THEN <<"set_rwnd">> ELSE <<>>)
    \o (IF r.burst THEN <<"burst_on", "burst_off">> ELSE <<>>)
    \o (IF r.burst /\ r.adapt THEN <<"adapt">> ELSE <<>>)
parse_handle_solution(r) ==
    <<"sol_update">>
    \o (IF r.freeze THEN <<"set_rwnd">> ELSE <<>>)
    \o (IF r.burst THEN <<"burst_on", "burst_off">> ELSE <<>>)
    \o (IF r.adapt THEN <<"adapt">> ELSE <<>>)

\* The adapt flag after worker_sol_update.
adapt_kept == do_adapt
adapt_cleared == FALSE

\* The link whose remembered window action_sol_update overwrites.
saved_under_new(mark) == mark
saved_under(mark) == link

\* An estimate replaces the window only if it is larger.
any_estimate(est) == TRUE
better_estimate(est) == est > tune_rwnd

-----------------------------------------------------------------------------
(* The sampler. *)

\* (int)(data_rcvd * rtt / sample_interval) >> RWSCALE.  A product that is too
\* large for an int has no defined value.
burst_estimates ==
    LET bytes == (data_rcvd * Rtt[link]) \div sample_interval
    IN  IF bytes < I31 THEN {bytes \div Scale} ELSE 0 .. I31 \div Scale

\* tune_rwnd * (1 + pace) and tune_rwnd * (1 - pace / 4), cut to 16 bits.
grown  == (tune_rwnd * (100 + Pace)) \div 100
shrunk == (tune_rwnd * (400 - Pace)) \div 400

\* data_rcvd >> RWSCALE as a share of the window, in percent terms.
acked     == data_rcvd \div Scale
well_used == acked * 100 > tune_rwnd * Threshold
idle      == acked * 10 < tune_rwnd * 7

tcp_schedule_burst ==
    /\ do_burst
    /\ \E est \in burst_estimates :
          /\ tune_rwnd' = IF better_estimate(est) THEN uint16(est) ELSE tune_rwnd
          /\ wrapped' = (wrapped \/ est >= U16
                         \/ (data_rcvd * Rtt[link]) \div sample_interval >= I31)

tcp_schedule_adapt ==
    /\ ~do_burst
    /\ tune_rwnd' = CASE ~do_adapt \/ tune_rwnd = 0 -> tune_rwnd
                      [] do_adapt /\ tune_rwnd # 0 /\ well_used -> uint16(grown)
                      [] do_adapt /\ tune_rwnd # 0 /\ ~well_used /\ idle -> shrunk
                      [] OTHER -> tune_rwnd
    /\ UNCHANGED wrapped

\* scheduler_run calls the sampler only once it is armed.  (With a period of 0
\* it would call nothing else any more; such a trace is left out.)
tcp_schedule ==
    /\ armed /\ sample_interval > 0
    /\ tcp_schedule_burst \/ tcp_schedule_adapt
    /\ data_rcvd' = 0
    /\ UNCHANGED <<do_rwnd, do_burst, do_adapt, tcp_vars, row, plan, rows, target,
                   memory, clamped, zero_at_ho>>

-----------------------------------------------------------------------------
(* The nfq thread: worker_handle_rwnd counts the bytes a packet acknowledges. *)

worker_handle_rwnd ==
    /\ do_rwnd
    /\ data_rcvd < MaxData
    /\ \E recv \in Received : data_rcvd' = data_rcvd + recv
    /\ UNCHANGED <<do_rwnd, do_burst, do_adapt, tune_rwnd, tcp_vars, row, plan, rows,
                   ghosts>>

-----------------------------------------------------------------------------
(* The scheduler thread. *)

action_init_tcp_sched(enable, h) ==
    /\ ~armed /\ armed' = TRUE
    /\ link' = 1
    /\ hist' = h
    /\ sample_interval' = Rtt[1]
    /\ do_rwnd' = enable
    /\ do_adapt' = TRUE
    /\ data_rcvd' = 0
    /\ tune_rwnd' = uint16(h[1])
    /\ memory' = h /\ target' = 1
    /\ UNCHANGED <<do_burst, row, plan, rows, clamped, zero_at_ho, wrapped>>

\* The next SOL_HO row of the trace is due.
SOL_HO(r) ==
    /\ armed /\ plan = <<>>
    /\ rows < MaxRows /\ rows' = rows + 1
    /\ row' = r
    /\ plan' = parse_handle_solution(r)
    /\ UNCHANGED <<worker_vars, tcp_vars, ghosts>>

Run(action) ==
    /\ plan # <<>> /\ Head(plan) = action
    /\ plan' = Tail(plan)
    /\ UNCHANGED <<do_rwnd, armed, row, rows>>

\* Save the current window and switch, unless the window is 0; then install
\* what the row's link remembers.
action_sol_update ==
    /\ Run("sol_update")
    /\ IF tune_rwnd > 0
         THEN /\ hist' = [hist EXCEPT ![saved_under(row.mark)] = tune_rwnd]
              /\ link' = row.mark
         ELSE UNCHANGED <<hist, link>>
    /\ do_adapt' = adapt_cleared
    /\ do_burst' = FALSE
    /\ tune_rwnd' = uint16(hist'[row.mark])
    /\ memory' = [memory EXCEPT ![target] = tune_rwnd]
    /\ target' = row.mark
    /\ clamped' = FALSE
    /\ zero_at_ho' = (zero_at_ho \/ tune_rwnd = 0)
    /\ UNCHANGED <<data_rcvd, sample_interval, wrapped>>

\* The clamp is the row's mark, raised to ClampFloor.
action_set_rwnd ==
    /\ Run("set_rwnd")
    /\ tune_rwnd' = IF row.mark < ClampFloor THEN ClampFloor ELSE uint16(row.mark)
    /\ clamped' = TRUE
    /\ UNCHANGED <<do_burst, do_adapt, data_rcvd, link, hist, sample_interval,
                   target, memory, zero_at_ho, wrapped>>

action_set_burst_on ==
    /\ Run("burst_on")
    /\ do_burst' = TRUE /\ do_adapt' = FALSE
    /\ data_rcvd' = 0
    /\ tune_rwnd' = uint16(hist[link])
    /\ sample_interval' = BurstInterval
    /\ clamped' = FALSE
    /\ UNCHANGED <<link, hist, target, memory, zero_at_ho, wrapped>>

action_set_burst_off ==
    /\ Run("burst_off")
    /\ do_burst' = FALSE
    /\ hist' = IF tune_rwnd > hist[link] THEN [hist EXCEPT ![link] = tune_rwnd] ELSE hist
    /\ UNCHANGED <<do_adapt, tune_rwnd, data_rcvd, link, sample_interval, target,
                   memory, clamped, zero_at_ho, wrapped>>

action_set_adapt ==
    /\ Run("adapt")
    /\ sample_interval' = Rtt[link]
    /\ do_adapt' = TRUE /\ do_burst' = FALSE
    /\ data_rcvd' = 0
    /\ tune_rwnd' = uint16(hist[link])
    /\ clamped' = FALSE
    /\ UNCHANGED <<link, hist, target, memory, zero_at_ho, wrapped>>

-----------------------------------------------------------------------------
\* worker_init_ctx leaves tune_rwnd and data_rcvd to malloc; no one reads them
\* before action_init_tcp_sched writes them.
Init ==
    /\ do_rwnd = FALSE /\ do_burst = FALSE /\ do_adapt = FALSE
    /\ tune_rwnd = 0 /\ data_rcvd = 0
    /\ armed = FALSE /\ link = 1 /\ hist = [l \in Links |-> 0] /\ sample_interval = 0
    /\ row = [mark |-> 1, freeze |-> FALSE, burst |-> FALSE, adapt |-> TRUE]
    /\ plan = <<>> /\ rows = 0
    /\ target = 1 /\ memory = [l \in Links |-> 0]
    /\ clamped = FALSE /\ zero_at_ho = FALSE /\ wrapped = FALSE

RunPlan ==
    \/ action_sol_update
    \/ action_set_rwnd
    \/ action_set_burst_on
    \/ action_set_burst_off
    \/ action_set_adapt

Next ==
    \/ \E enable \in BOOLEAN, h \in [Links -> HistWindows] : action_init_tcp_sched(enable, h)
    \/ \E r \in Rows : SOL_HO(r)
    \/ RunPlan
    \/ tcp_schedule
    \/ worker_handle_rwnd

Spec == Init /\ [][Next]_vars

\* Every event of a trace is run when its time comes.
FairSpec == Spec /\ WF_vars(RunPlan)

-----------------------------------------------------------------------------
(* Properties. *)

\* The window is a 16-bit value and the controller's state is well typed.
TypeOK ==
    /\ do_rwnd \in BOOLEAN /\ do_burst \in BOOLEAN /\ do_adapt \in BOOLEAN
    /\ tune_rwnd \in 0 .. U16 - 1 /\ data_rcvd \in Nat
    /\ armed \in BOOLEAN /\ link \in Links /\ hist \in [Links -> Nat]
    /\ sample_interval \in Nat
    /\ row \in Rows /\ rows \in Nat
    /\ plan \in Seq({"sol_update", "set_rwnd", "burst_on", "burst_off", "adapt"})
    /\ target \in Links /\ memory \in [Links -> Nat]
    /\ clamped \in BOOLEAN /\ zero_at_ho \in BOOLEAN /\ wrapped \in BOOLEAN

\* As long as no handover met a window of 0, the controller is on the link the
\* trace switched to, and the other link's remembered window is the one that
\* was in force when that link was left: no sample, burst or clamp on one link
\* leaks into the other's.
OtherLinkRemembered ==
    ~zero_at_ho => link = target /\ \A l \in Links \ {link} : hist[l] = memory[l]

\* Once a row has run, passive adaptation is on exactly if the row asked for
\* it, and burst estimation is off: a row cannot leave the mode of an earlier
\* one behind.
PhasesSettle == armed /\ plan = <<>> => (do_adapt <=> row.adapt) /\ ~do_burst

\* A burst phase never ends below the window it started from, which is the
\* remembered one, whatever is sampled in it, unless an estimate overflowed.
BurstOnlyRaises ==
    do_burst /\ ~wrapped /\ hist[link] < U16 => tune_rwnd >= hist[link]

\* A clamp is lifted if its row goes on to a burst phase or to adaptation.
FreezeEnds == (clamped /\ (row.burst \/ row.adapt)) ~> ~clamped

\* What the trace format says of mark: it selects the link to switch to.
LinkSwitched == armed => link = target

=============================================================================
