# A TLA+ verification of the handover emulator

The repository is a link emulator. It replays a trace of handovers on live traffic: iptables
sends packets to NFQUEUEs, one thread per queue gives each packet a verdict (with a fwmark
that selects the link), and a scheduler thread changes at trace-given times what those
threads do: stop and start a queue, change the mark, drop the next packets, hold and
reverse some, suppress repeated ACKs, and retune the advertised receive window. Scripts
prepare the traces and compute metrics from the logs.

This directory models that system in TLA+, checks it with TLC on small instances and proves
part of it with TLAPS for all values of the constants.

## Components

| Component | State | Operations | Talks to |
|---|---|---|---|
| worker (`worker.c`) | `worker_ctx`: mark, loss and reorder counters, held ids, dedup flag, window, last ack; four mutexes | `worker_callback` and its handlers; `worker_set_*` | called by the nfq thread and by actions, concurrently |
| nfqueue (`nfqueue.c`) | status, socket; the kernel's queue | `nfq_init/start/stop/teardown`, the loop `nfq_run` | kernel, worker callback |
| scheduler (`scheduler.c`) | table of events, the sampler's next firing | `scheduler_add_event`, `scheduler_run` | calls actions and `tcp_schedule` |
| event parser (`event.c`) | none | one parser per row kind | fills the scheduler's table |
| actions (`action.c`) | `action_ctx`: contexts of each queue | one handler per event kind | queues, workers, controller |
| window controller (`action.c`, `worker.c`) | `tcp_ctx`: link, remembered window and rtt of each link, period | `tcp_schedule`, `action_sol_update`, `action_set_rwnd/burst/adapt`, `action_init_tcp_sched` | worker's window fields, under `rwnd_lock` |
| main (`emulator.c`) | all of it | read the trace, run it | |
| packet metrics (`parse-logs.py`, `rfc-jitter.py`, `compute-iat.py`) | none | packet matching, transit times, jitter, frames, roll-over check, inter-arrival times | the worker's packet log, the receiver's capture |
| run metrics (`metrics.py`) | lists of samples, handovers, link intervals | throughput by link, handovers on a plot | iperf3 logs, the trace |
| ss monitor and parsers (`monitor.sh`, `parse_ss.py`, `parse-logs.py`) | a log of socket statistics | poll, parse, write a table | `ss`, the plots |
| plots (`plot.py`, `plotting.py`, `plot-logs.py`, `plot_loss.py`) | axes | choose and draw points | CSV files |
| trace generator and `old_fix.py` | trace files | append commands to a trace, convert old traces | traces |
| experiment batch (`batch_run_iperf3.sh`) | logs, captures, background processes | remove logs, generate the trace, run iperf3, monitor and emulator | everything above |
| network set-up (`netns.sh`, `add_iptables.sh`) | namespace, interfaces, NFQUEUE rules, routes | create, destroy, setup, cleanup | the queues and marks of the emulator |

What is hard: a setter interrupts a callback between any two critical sections, or a hold or
a release of packets that lasts many callbacks; a queue is stopped or torn down while its
thread is in `recv` or in the callback; events of one millisecond, the sampler and the ends
of overlapping rows run in an order that nobody wrote down; contexts come uninitialised from
`malloc`; windows, counts and estimates live in integers of different widths. In the scripts:
metrics that are written twice and must agree, files that are missing, damaged, left over from
another run or written by two processes, scripts that end between two commands. `PROJECT.json`
lists each such hazard at its line with the properties that cover it.

## Modules

| Module | Models | Notes |
|---|---|---|
| `Worker` | the verdict path of one queue | one action per critical section; reading the mark and sending the verdict are two actions, because the mark is read without a lock; the setters are the other thread |
| `PacketFate` | what the worker promises the kernel and the trace | abstract: packets arrive, each is delivered, lost (only while a loss is armed) or suppressed, once |
| `Nfqueue` | one queue's life | kernel, `nfq_run`, scheduler thread; `recv` may block or fail; teardown is four steps |
| `Scheduler` | the table, `qsort` (any permutation the comparator allows), the loop, the clock | a handler may arm or re-time the sampler |
| `Event` | the expansion of every row kind | pure operators, in the order of the `scheduler_add_event` calls |
| `Emulator` | a whole run: `Event` + the scheduler's loop + every action | contexts, flags and the sampler's schedule; packets and windows are left to the modules above; the table is the set of the events that have not run, and the sorted array's next one is the earliest of them |
| `WindowControl` | the window fields and `tcp_ctx` | a SOL_HO row is a plan of actions; samples and acknowledgements come between any two |
| `Gap` | one HO row on a queue with traffic: `Worker` + the status check of `nfq_run` + the row's events | extends `Worker`: its actions are the callback, the thread enters it only past the check; compares what leaves the queue with the documented order |
| `PacketMetrics` | the three packet scripts | a state is an input and the data frames after each stage of the script |
| `Metrics` | `metrics.py` as it runs, stage by stage | an exception is a stage of its own; what is behind `if False` is left out |
| `SsLog` | `monitor.sh` and the two parsers of its log | the log grows poll by poll, then both parsers run |
| `TraceTools` | `old_fix.py` and `generate_input.py` on files | in any order, any number of times |
| `Experiment` | the batch, its operator, iperf3, `parse-logs.py` as a whole | a log is the set of runs that have written into it |
| `NetSetup` | `netns.sh` and `add_iptables.sh` | one action per command; any script may be interrupted between two |
| `Tools` | the six script modules in one specification | a behaviour belongs to one part; states the properties and the fairness of all of them |
| `*Proofs` | theorems about `Worker`, `Nfqueue`, `Scheduler`, `WindowControl`, `Gap`, `Emulator` and three parts of `Tools` | `GapProofs` extends `WorkerProofs`: a gap's steps are the worker's steps and its invariants are reused; `OrderProofs`, on the order of the packets of a gap, extends `GapProofs` |
| `MC*` | TLC instances | constants only |

Definitions keep the source's names. Each `.tla` module introduces, next to a definition, its
wrong variants (a dropped guard, an off-by-one): they are not used by the specification, and
replacing the definition by its variant must break the property that `mutants` of
`PROJECT.json` names.

Abstractions. A packet is what the verdict path reads of it: whether it is TCP, its ack number,
whether it has payload, its window. `Worker` has no gaps and `Nfqueue` no faults; `Gap` puts the
two together for one row, without the limits of the kernel's queue, which are `Nfqueue`'s subject.
In `Nfqueue` a callback passes or drops its packet, holds it, or sends it and all held packets,
which is all that the kernel's queue can tell apart; two cases in which the worker forgets packets
are left to `Worker`: a second reordering during a hold (run `rearm`) and a count and an offset
that are both 0 modulo 2^16. `Emulator` runs handlers at their due times without duration
(lateness is `Scheduler`'s subject) and lets a window be 0 or not at will. The status that
`nfq_init` does not set, `last_ack` and `tune_rwnd` that `worker_init_ctx` does not set, are
arbitrary values; so are the link, the period and the rtts that `init_tcp_scheduler` leaves as
`main`'s stack has them (`Leftover` of `Emulator`). `int` overflow of a burst estimate is an
arbitrary value. Percentages are exact integers where the code uses floats. A jitter is a
numerator over a power of 16. `Metrics` counts half seconds, so that the middle of an interval is
a number. `PacketMetrics` keeps a coarse clock (the worker's milliseconds) and a fine one
(tcpdump's), and sequence numbers modulo `Wrap`; the position in the stream, which the scripts do
not know, is read by properties only. In `SsLog` a value is its kind (a plain number, one with a
unit, a percentage, one that `float` refuses). In `NetSetup` the kernel is modelled from the
commands: rules of iptables pile up, a route or a rule of `ip` exists once. In `Experiment` the
removal of the logs and the start of the receiver are one step, although the batch sleeps 2 s
between the first removal and the others (`batch_run_iperf3.sh:53-63`): nothing else writes these
logs meanwhile, and an interrupt in between leaves those of one earlier run, without the
receiver's.

Code that is switched off. Some functions are modelled although the committed scripts do not call
them, because they are switched on by hand when they are needed: `map_packets` with its readers
(`rfc-jitter.py:113-119`; the committed main program reads the file they have written),
`estimate_frame` (`parse-logs.py:422-427`), and the two functions of `old_fix.py` (lines 17-18).
Code behind `if False` in `metrics.py` is not modelled.

## Runs

Passing:

| Run | Checks | Bounds and why they are enough |
|---|---|---|
| `faults` | `TypeOK`, `OneVerdict`, `NoPacketForgotten`, `ReorderWithinBuffer`, `AtMostOneStaleMark`, `ImplementsPacketFate` | 5 packets, 4 setter calls, buffer of 2, 16-bit fields modulo 8: a hold, a pass and a release fit, counts below, at and above the cap and wrapping ones occur |
| `acks` | `DroppedAckWasDelivered`, `WindowNeverRaised` | 3 packets with 2 ack numbers, with and without payload, one not TCP; windows below, at and above the packet's |
| `nfqueue` | `AtMostOneStraggler`, `EveryWaitingPacketIsReachable`, `StartDrains` | 3 slots, 5 packets, 2 failing `recv`s, a packet larger than the copy range, up to 2 held packets: a release of several in one callback, before, in and after a gap |
| `scheduler` | `TypeOK`, `StableOrder`, `NoEventLeftOut`, `EarliestFirst`, `RunEnds` | table of 3, one event too many, three times, handlers that arm and re-time the sampler |
| `emulator` | `NoDanglingContext`, `GapHonoured`, `HandoverInForce`, `PhasesHonoured`, `EveryQueueTornDown` | two queues; two HO or two SOL_HO rows, overlapping or not, in both orders of the file, ending before or after the queue |
| `window` | `TypeOK`, `OtherLinkRemembered`, `PhasesSettle`, `BurstOnlyRaises`, `FreezeEnds` | 3-bit windows and 5-bit ints so that both overflow, two rows with any phases |
| `gap` | `BacklogOnNewLink`, `BacklogLoses`, `DocumentedOrder` | every row with and without a gap, losses to 2, counts to 4 with cap 3, offsets to 3; 12 packets, past the release in every case, any of them before, in or after the gap. The three properties are of rows with a gap; the rows without are in the run for the worker's steps, and the table of documented claims below shows what they do |
| `tools` | nine properties, below | below |

The run `tools`, part by part. Each property of `Tools` is a conjunction of properties that are
stated in the module of the part.

| Part | Property | Bounds |
|---|---|---|
| `PacketMetrics` | `SeqIdentifiesSegment`, `PacketScriptsAgree`, `FramesFollowTheStream` | three sent and two captured packets with retransmissions, a second connection, every window; streams of five packets across the wrap; up to three matched segments in any order of sending, in one millisecond too, with impossible transits; four packets in frames of 3 bytes, one sent again, or too few for a frame |
| `Metrics` | `SamplesGoToTheirLink` | up to three rows with a blank or cut one, handovers at equal times and within a link, files missing, empty ranges |
| `SsLog` | `SsTablesAgree`, `MonitoringEnds` | none, one or two connections, polls that take 1 or 2 time units, with and without a duration |
| `TraceTools` | `TracesStayWhole` | traces of up to four rows, with numbers out of range, names and blank rows; both file names |
| `Experiment` | `RunsKeptApart` | two algorithms, two runs, any edits of the trace; interrupts, hanging transfers, two sets of options |
| `NetSetup` | `SetupKeepsItsWord` | two to four interfaces, six scripts, each interrupted anywhere |

Deadlock checking is off in all runs: the bounds end every behaviour, and so does the last
event of a trace or the last line of a script.

Runs that must find a violation, each a disagreement between code and documentation:

| Run | Property | What happens |
|---|---|---|
| `rearm` | `NoPacketForgotten` | a second reordering handover starts during a hold: `reorder_id_cur = 0` forgets the held packets, which never get a verdict |
| `dupack` | `RepeatedAckSuppressed` | `last_ack` is recorded only while `enable_rw` is on, so SOL_HANDLEDUP alone suppresses nothing |
| `teardown` | `WorkerReleasedAfterUse` | the worker is destroyed while the queue's thread, which nobody joins, is in its callback |
| `window_zero` | `LinkSwitched` | idle samples take the window to 0; the next SOL_HO then restores the new link's window but keeps sampling and saving for the old link |

`Gap` also states what the repository's README says of an HO row without any condition, and the
code does not keep it in three cases. Put in place of the invariants of `MCGap.cfg`, each of the
three is refuted by TLC within a few steps:

| Definition of `Gap` | Documented | What happens |
|---|---|---|
| `NewLinkOnceResumed` | the mark is set at `time_ms`, the queue resumes at `time_ms + gap_ms` (`src/README.md:174`) | with `gap_ms = 0`, as in two rows of `input/trace-12.csv`, the start event has a smaller index than the others of its millisecond: the queue runs before the mark, the loss and the reordering are set, and packets leave by the old link |
| `LossesOnceResumed` | `loss` packets are dropped once the queue resumes (`src/README.md:176`) | the loss is armed when the gap begins; the packet that the thread has past the status check takes one, and the backlog loses one less |
| `HeldThenReversed` | `reord_cnt` packets are held, then released in reverse order (`src/README.md:177`) | with `reord_offset = 0` the release condition holds as soon as the first packet is held: it leaves at once and the rest of `reord_cnt` is ignored |

What the code does keep is stated beside them, checked by the run `gap` and proved:
`BacklogOnNewLink`, `BacklogLoses` and `DocumentedOrder` are the same claims for rows with a gap,
for the losses that the straggler has left, and for rows that have an offset or do not reorder.

Smaller disagreements that the models make visible and that are not runs of their own: a handover
without loss and reordering leaves armed what an earlier one has armed and no packet has used
(`HandoverInForce`); `rfc-jitter.py` goes through the segments in the order of sending and in
whole milliseconds, `parse-logs.py` in the order of the stream, so their jitters differ if the two
orders do (`JitterAgrees` compares them where they do not); handovers before `--begin` are
forgotten and the samples after them count for link 1 (`SamplesGoToTheirLink` excludes them);
`estimate_frame` records the arrival of a frame's last packet in the order of the stream, although
one before it may arrive later; the first gap of `compute-iat.py` is 0, so a steady flow starts
with jitter (`SteadyFlowSettles`); the generated trace has one name for all algorithms and is
overwritten before the batch refuses a test; "clean all logs" keeps the sender's capture
(`removed` of `Experiment`), which after an interrupt may be one of an earlier run; a second
`setup` without `cleanup` appends its rules again, and `cleanup` deletes one of each (`one_less`,
with `Careful = FALSE`); `write_to_new_file`
overwrites a trace whose name has no "-c" and takes another row from it at each run
(`OnlyThirdRowLost` excludes it); a route whose interface is missing is reported as existing
(`setup_route`).

The runs `faults`, `acks` and `gap` set `Overlap = FALSE`: no handover re-arms reordering
during a hold, as in every trace under `input/`; `rearm` shows what happens otherwise. `tools`
sets `Careful`: a setup of the network follows a cleanup that came to its end, as the README of
the repository has it. The properties of `Emulator` assume `Lifetimes`: the
trace fits the table, each queue is opened by one row before and closed after every row that uses
it, and when the sampled queue is closed no event of the trace, commands included, is due later.
Every trace under `input/` satisfies it. For gaps and phases they also assume that rows of one
kind on one queue do not overlap and, for the phases, that the controller is configured before
the first SOL_HO row. The traces TLC
enumerates include ones that violate those assumptions, which is how the crash is reached.

Fairness. `Nfqueue`: weak fairness of the receiving thread, which the operating system
schedules. `Scheduler`: weak fairness of `main` calling `scheduler_run`, of its loop and of
the clock. `Emulator`: weak fairness of the scheduler thread. `WindowControl`: weak fairness
of the actions of a row, which the scheduler runs when their time comes. `Tools`: weak
fairness of the monitor with its parsers, which nobody stops; every poll of the monitor takes
time. Nothing is assumed of packets, setter calls, acknowledgements or samples.

## Proofs

All theorems are of the form `Spec => []Inv` or `Spec => Abstract`, for every value of the
constants under the assumptions named in the modules (sizes and bounds are naturals, the static
assertion of `nfqueue.c` on the buffer, percentages up to 400, times below `0xFFFFFFFF`).
Hypotheses beyond these are part of the theorem and are named below.

`WorkerProofs`:

- `TypeCorrect` first: the type invariant also says when the thread has a packet and when it
  keeps a mutex. `BufferSafe`: `ReorderWithinBuffer` is inductive because its second conjunct
  counts what may still be held. `MarkTakesEffect` needs an invariant that ties `stale` to the
  program counter: only a mark that was loaded and not yet sent can be stale.
- `NoDoubleVerdict` needs `VerdictInv`: the ids in `out`, in `todo`, in the reorder buffer and
  the current packet are pairwise different, so that each of the verdict-sending steps finds an
  id that has none.
- `WindowOnlyLowered` needs `WindowInv`: the window is compared under `rwnd_lock` and the lock
  is kept until the verdict, so the window that is written is still below the packet's.
- `FirstCopyDelivered` needs `AckInv`: `last_ack` is a number that has reached the sender, or
  reaches it with the packet the callback is about to accept. `worker_handle_rwnd`
  records it before the verdict, which is why the second case exists.
- `NoneForgotten` needs `HeldInv` (packets are held only while reordering is on, and then the
  next packet is held or passed) and two hypotheses: `~Overlap`, whose violation is the run
  `rearm`, and `SomethingArmed`. The second was found by the proof: if the count and the offset
  are both multiples of 2^16, the setter arms a reordering of no packets, and the next packet
  is neither held nor passed: it never gets a verdict.
- `KeepsContract`: every behaviour of `Worker` is one of `PacketFate`, under the mapping of
  `ImplementsPacketFate`. `FateStep` takes the worker's actions one by one: each verdict is one
  step of the contract, and everything else is a stutter or a change of what is armed.

`GapProofs` (an HO row on a queue with traffic; both for every row with a gap, every number of
packets and every interleaving; the invariants below are proved for rows without a gap too, with
what is left of their events in their own order):

- `NewLinkAfterGap`: `RowInv` says what is left of the row's events (stop first, start last), and
  `LinkInv` that the mark is in force from its event on. The thread may be about to send a verdict
  with the old mark when the gap begins, but only for a packet from before it.
- `LossesOfTheRow`, which gives the exact number: `ArmedInv` bounds what one packet that passed
  the status check before the stop can take of the loss, `LossesInv` says that the losses are the
  first packets of the backlog.

`OrderProofs`, under `SomethingArmed`, as `NoneForgotten`:

- `OrderOfTheRow` (`DocumentedOrder`, for rows with a gap that have an offset or do not reorder,
  is stated over the positions of the verdicts: the verdict of rank `k` among those that accept a
  packet of the backlog is for the `k`-th packet of `Expected`). The invariant says in closed form
  which packet each verdict is for: `Nth(i)` is the packet of the `i`-th verdict and `Ready(r)`
  the number of verdicts that `r` received packets allow. `SentInv` says that the verdicts sent
  and listed are those, `LeftInv` how much of the loss is left, `HoldInv` what the reorder buffer
  holds and how far its two counters are, each as a function of the number of packets that have
  passed the handler.
- The packet that the thread has past the status check when the gap begins may be overtaken by the
  events of the row: it is lost, or held among the packets of the backlog. The documented order is
  then not claimed (`Undisturbed`), but the invariant must still be inductive, so it is a
  disjunction: `CleanInv`, or `SpoiltInv`, which says that the packet from before the gap is
  missing from its place for good, or is about to be. A spoilt gap never looks undisturbed again.
  TLC checked the disjunction on the instance of the run `gap` first.
- That `Expected`, put together from subsequences and a reversed one, has the elements that `Nth`
  gives is proved for every length (`ShortRun`, `LongRun`); no induction is needed, because each
  part is known element by element. The proof also found that `Expected` was written as a `CASE`
  with overlapping guards, which TLC reads in order and the semantics of TLA+ does not; it is a
  chain of `IF`s now, and so is `parse_trace` of `Metrics`.

`NfqueueProofs`: `OneStragglerPerGap` (a straggler needs the thread past the status check, and
it passes there only before the stop; its callback may release what was held, so what is sent in
the gap and what is still held never exceed what was held when the gap began by more than the
straggler) and `NothingStranded` (each kernel entry is counted by a message in the socket, by the
callback or by the worker's buffer; needs the static assertion).

`SchedulerProofs`: `TypeCorrect`, `RunsInTraceOrder`, `RunsEverything`, `RunsEarliestFirst`:
the sorted part of the table behind `i` is what is still to run, what has run is the part
before it.

`WindowControlProofs`: `TypeCorrect` (the window fits its field: arithmetic of the growth, the
decay and the truncation), `LinksKeepTheirWindows` (inductive with the types), `RowsSettle` and
`BurstsRaise`. `RowsSettle` needs `PlanShape`, the possible rests of a row's plan, and `PhaseInv`,
which says what each rest tells of the two flags.

`EmulatorProofs` (a whole run of any trace, any number of queues and rows):

- `ContextsLive` (`NoDanglingContext`). `ContextInv`: the table holds all events of the trace
  that were read and have not run (`TableInv`); what has run is before what has not
  (`OrderInv`); a queue is open exactly between its two events (`QueueInv`); a sampler without
  a worker is not due before any event that is left (`SamplerInv`). TLC found no counterexample
  to this invariant or the next on the instance of the run `emulator`.
- `GapsHonoured`, `HandoversInForce`, `PhasesInForce`. `ForceInv`: each flag of an open queue has
  the value that the last handler of the kinds that write it gave it (`Last`). At a settled
  moment the handlers that have run are those that were due (`RanSettled`), so what the trace
  asks for follows from the places of the events in their rows (`HoPlaces`, `SolHas`) and the
  order of rows that do not overlap (`Apart`).
- Writing these proofs corrected three statements. A command that is due after the sampled queue
  is closed keeps the scheduler sampling a destroyed worker, so `Lifetimes` now speaks of all
  events. A SOL_INIT_SCHED row after a SOL_HO row turns adaptation on again, so
  `PhasesHonoured` now requires the order. And on a queue with both SOL_HANDLEDUP and SOL_HO
  rows the last setter wins whichever row it is from, so the two claims about duplicate
  suppression are stated for queues that use one of them.

`ToolsProofs`:

- `CarefulSetup`, under `Careful`. `NetInv` says for each line of `add_iptables.sh` what the lines
  before it have done, and that no chain has two rules.
- `RunsApart`. `LogInv`: the logs of an algorithm are of one run, and only the last run can have
  an iperf3 that is still to write; `SeenInv`: nothing was parsed of such a run; `StageInv`: what
  the stages of `parse-logs.py` have written.
- `TracesWhole`, for every trace that `OldTracesAssumption` of `Tools` allows: its event types are
  numbers or they are names. `TraceInv`: the file is such a trace again after every script, its
  rows are those of the original without the third if the name has the suffix, and the emulator's
  input was generated from a trace in which an INIT row was found, whose types are therefore
  names.

Only model-checked:

- liveness, which is out of the prover's reach: `StartDrains`, `RunEnds`, `EveryQueueTornDown`,
  `FreezeEnds`, `MonitoringEnds`;
- the properties of `PacketMetrics`, `Metrics` and `SsLog` (`SeqIdentifiesSegment` to
  `SsTablesAgree` of `Tools`): these scripts filter, sort and fold their input, and what `SelectSeq`,
  `SortSeq` and `FoldLeft` compute for every input needs induction over data.

## Not modelled

The log library, which is third-party and decides nothing. The splitting of lines into fields,
wording. The plotting scripts, which draw finished tables that nothing reads again. Of the packet
rewriting: the checksum and the buffer of libnetfilter_queue. Of `nfq_init`: its failures, which
end the process. `action_sleep`, which no row produces. Of `metrics.py`: the evaluations behind
`if False` (throughput around handovers, ramp-up, prediction), which do not run, and the functions
that only they call. `parse_pcap` of `rfc-jitter.py`, which is not called. `util.py`, which no
script imports, `interactive.py`, which opens a shell, and `tmc_calculate_metric.py`, which is
commented out. `load-tc-rules.sh`, whose rules replace each other and are read by nothing here.
The files under `legacy` and `legacy-main.c.bak`, which are not built.

Five hazards have no property: an offset of 0 (`worker.c:113`), above; the status `NFQ_DEAD` in memory from `malloc` (`action.c:99`),
which `Garbage` of `Nfqueue` leaves out; handovers before `--begin` (`metrics.py:266`), events
that do not fit into the table (`scheduler.c:20`) and a row with a freeze and nothing after it
(`event.c:245`), which the code does not handle. Others are covered in part; `PROJECT.json` says
by a note which case a property excludes. A thread left in `recv` on a descriptor that was closed
(`nfqueue.c:91`) affects nothing that the run still does.

## Plan

Done: `Worker` with `PacketFate` (the most important behaviour: every packet
gets one right verdict), `Nfqueue`, `Scheduler`, `WindowControl`, `Event` and `Emulator`, the
first proofs; then the composition of queue and worker during a gap (`Gap`) and the scripts from
the network set-up to the tables; then the proofs of everything about the emulator itself that is
neither liveness nor induction over data, down to the order in which the packets of a gap leave,
and of the three groups of scripts that act on files or on the kernel.

Left to model:

1. `WindowControl` with overlapping SOL_HO rows, composed with `Emulator`'s schedule, so that
   the sampler's period and the phases meet the windows.
2. `Scheduler` as an abstraction of `Emulator`'s loop (a refinement), and an abstract
   specification of a gap that `Nfqueue` and `Gap` implement.

Left to prove:

1. The refinement of `Scheduler` by `Emulator`'s loop, once its mapping is stated.
2. The scripts that filter, sort and fold, if the prover learns induction over data.
