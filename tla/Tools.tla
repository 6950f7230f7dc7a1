-------------------------------- MODULE Tools --------------------------------
(***************************************************************************)
(* The scripts around the emulator, from the set-up of the network to the  *)
(* tables. Each part has its own module; a behaviour is one of a part,     *)
(* whose variables are used while those of the others are NotUsed.  Parts  *)
(* that call a variable by the same name share it here.                    *)
(***************************************************************************)
EXTENDS Integers, Sequences

CONSTANTS
    Captures, MatchInputs, MatchedInputs, FrameInputs, ArrivalInputs, Ms, Wrap, FrameSize,
    Runs, Offset,
    Durations, Shows, MaxTime, Ranges, NoBbr, NoTime,
    OldTraces, NoNumber,
    Algos, ParseArgs, MaxRuns,
    Sizes, Careful, MaxScripts,
    NoFile, NotUsed

VARIABLES
    part,                                              \* the part that is run
    kind, input, pc, duration,                         \* of several parts
    df_client, df_server, df_matched, result,          \* PacketMetrics
    thuput, m_thuput, hos, colors, links, m_links,     \* Metrics
    range, now, log, polls, parsed_data, outcome, df_ss,          \* SsLog
    suffixed, old, trace, source,                      \* TraceTools
    orig, test_trace, algo, runs, pending, logs, packet_log, pcap, interrupted, parse, csv,
                                                       \* Experiment
    exists, local_ip, veths, nfqueue, route, rule, script, line, n, last, scripts
                                                       \* NetSetup

P == INSTANCE PacketMetrics
M == INSTANCE Metrics
S == INSTANCE SsLog
T == INSTANCE TraceTools
E == INSTANCE Experiment
N == INSTANCE NetSetup

\* A trace that the scripts are given has the types of its events as numbers or as
\* names, as the file formats have it, and a missing file is no trace.  The name of
\* no event is like UNKNOWN.
TraceNames == {"", "blank"} \cup {T!cmd_mappings[k] : k \in 1 .. 8}
TraceRows  == [number : Int \cup {NoNumber}, name : TraceNames, end : Int,
               program : {"", "iperf3", "monitor"}, time : Int]

ASSUME OldTracesAssumption ==
    /\ OldTraces \subseteq Seq(TraceRows) /\ NoFile \notin Seq(TraceRows)
    /\ \A t \in OldTraces : T!Named(t) \/ \A k \in DOMAIN t : t[k].name \in {"", "blank"}

packet_vars == <<df_client, df_server, df_matched, result>>
metric_vars == <<thuput, m_thuput, hos, colors, links, m_links>>
ss_vars     == <<range, now, log, polls, parsed_data, outcome, df_ss>>
trace_vars  == <<suffixed, old, trace, source>>
run_vars    == <<orig, test_trace, algo, runs, pending, logs, packet_log, pcap, interrupted,
                 parse, csv>>
net_vars    == <<exists, local_ip, veths, nfqueue, route, rule, script, line, n, last, scripts>>
vars == <<part, kind, input, pc, duration, packet_vars, metric_vars, ss_vars,
          trace_vars, run_vars, net_vars>>

-----------------------------------------------------------------------------
NoPackets == df_client = NotUsed /\ df_server = NotUsed /\ df_matched = NotUsed /\ result = NotUsed
NoMetrics ==
    /\ thuput = NotUsed /\ m_thuput = NotUsed /\ hos = NotUsed /\ colors = NotUsed
    /\ links = NotUsed /\ m_links = NotUsed
NoSs ==
    /\ range = NotUsed /\ now = NotUsed /\ log = NotUsed /\ polls = NotUsed
    /\ parsed_data = NotUsed /\ outcome = NotUsed /\ df_ss = NotUsed
NoTraces == suffixed = NotUsed /\ old = NotUsed /\ trace = NotUsed /\ source = NotUsed
NoRuns ==
    /\ orig = NotUsed /\ test_trace = NotUsed /\ algo = NotUsed /\ runs = NotUsed
    /\ pending = NotUsed /\ logs = NotUsed /\ packet_log = NotUsed /\ pcap = NotUsed
    /\ interrupted = NotUsed /\ parse = NotUsed /\ csv = NotUsed
NoNet ==
    /\ exists = NotUsed /\ local_ip = NotUsed /\ veths = NotUsed /\ nfqueue = NotUsed
    /\ route = NotUsed /\ rule = NotUsed /\ script = NotUsed /\ line = NotUsed
    /\ n = NotUsed /\ last = NotUsed /\ scripts = NotUsed

Init ==
    \/ /\ part = "packet_metrics" /\ P!Init /\ duration = NotUsed
       /\ NoMetrics /\ NoSs /\ NoTraces /\ NoRuns /\ NoNet
    \/ /\ part = "metrics" /\ M!Init /\ kind = NotUsed
       /\ NoPackets /\ NoSs /\ NoTraces /\ NoRuns /\ NoNet
    \/ /\ part = "ss_log" /\ S!Init /\ kind = NotUsed /\ input = NotUsed
       /\ NoPackets /\ NoMetrics /\ NoTraces /\ NoRuns /\ NoNet
    \/ /\ part = "trace_tools" /\ T!Init /\ kind = NotUsed /\ pc = NotUsed /\ duration = NotUsed
       /\ NoPackets /\ NoMetrics /\ NoSs /\ NoRuns /\ NoNet
    \/ /\ part = "experiment" /\ E!Init /\ kind = NotUsed /\ input = NotUsed /\ duration = NotUsed
       /\ NoPackets /\ NoMetrics /\ NoSs /\ NoTraces /\ NoNet
    \/ /\ part = "net_setup" /\ N!Init
       /\ kind = NotUsed /\ input = NotUsed /\ pc = NotUsed /\ duration = NotUsed
       /\ NoPackets /\ NoMetrics /\ NoSs /\ NoTraces /\ NoRuns

run_packet_metrics ==
    /\ part = "packet_metrics" /\ P!Next
    /\ UNCHANGED <<part, duration, metric_vars, ss_vars, trace_vars, run_vars, net_vars>>

run_metrics ==
    /\ part = "metrics" /\ M!Next
    /\ UNCHANGED <<part, kind, packet_vars, ss_vars, trace_vars, run_vars, net_vars>>

run_ss_log ==
    /\ part = "ss_log" /\ S!Next
    /\ UNCHANGED <<part, kind, input, packet_vars, metric_vars, trace_vars, run_vars,
                   net_vars>>

run_trace_tools ==
    /\ part = "trace_tools" /\ T!Next
    /\ UNCHANGED <<part, kind, pc, duration, packet_vars, metric_vars, ss_vars, run_vars,
                   net_vars>>

run_experiment ==
    /\ part = "experiment" /\ E!Next
    /\ UNCHANGED <<part, kind, input, duration, packet_vars, metric_vars, ss_vars,
                   trace_vars, net_vars>>

run_net_setup ==
    /\ part = "net_setup" /\ N!Next
    /\ UNCHANGED <<part, kind, input, pc, duration, packet_vars, metric_vars, ss_vars,
                   trace_vars, run_vars>>

Next ==
    \/ run_packet_metrics \/ run_metrics \/ run_ss_log
    \/ run_trace_tools \/ run_experiment \/ run_net_setup

\* A script that needs no operator goes on to its next line.
Spec == Init /\ [][Next]_vars /\ WF_vars(run_ss_log)

-----------------------------------------------------------------------------
(* Properties; their conjuncts are explained in the modules of the parts. *)

\* parse-logs.py matches packets by sequence number, and its check for a roll
\* over makes that a match of segments.
SeqIdentifiesSegment == part = "packet_metrics" => P!SeqIdentifiesSegment

\* rfc-jitter.py and parse-logs.py, two programs for the same metrics, match the
\* same packets, first transmission to first arrival, and report the same
\* transit times to the millisecond, and the same jitter to the millisecond for
\* segments sent in the order of the stream; compute-iat.py differs from the
\* formula by an error that dies out.
PacketScriptsAgree ==
    part = "packet_metrics" =>
        P!MatchIsFirstToFirst /\ P!MatchersAgree /\ P!TransitsAgree /\ P!JitterAgrees
        /\ P!SteadyFlowSettles

\* estimate_frame of parse-logs.py counts every byte of the stream once,
\* completes frames in order, and fails only if there is none.
FramesFollowTheStream == part = "packet_metrics" => P!FramesFollowTheStream

\* metrics.py averages each sample for the link that was in use, and its list of
\* handovers, the lines of its plot and the intervals of the links tell the same
\* story, whatever of the trace can be read.
SamplesGoToTheirLink ==
    part = "metrics" =>
        M!SamplesGoToTheirLink /\ M!TimesKeepTheirLinks /\ M!LinesMatchIntervals

\* From the polls of monitor.sh both parsers make the same table, a row for each
\* poll, up to the line at which parse-logs.py gives up.
SsTablesAgree ==
    part = "ss_log" => S!OneEntryPerPoll /\ S!ParsersAgree /\ S!CrashExplained

\* old_fix.py and generate_input.py, run in any order, never leave a trace half
\* converted, lose only the third row of a trace that has the suffix "-c.csv", and
\* append commands that end in time.
TracesStayWhole ==
    part = "trace_tools" => T!NeverHalfConverted /\ T!OnlyThirdRowLost /\ T!CommandsFitTheRun

\* Neither the logs of batch_run_iperf3.sh nor the files that parse-logs.py makes
\* of them mix runs, whatever hangs or fails in between.  After an interrupt that
\* holds of all logs but the capture, which may be one of an earlier run.
RunsKeptApart == part = "experiment" => E!LogsOfOneRun /\ E!FullParseOfOneRun

\* What add_iptables.sh says when it ends, "Configuration complete." or "Clean-up
\* complete.", is so, although earlier scripts were interrupted half-way.
SetupKeepsItsWord == part = "net_setup" => N!CleanUpComplete /\ N!ConfigurationComplete

\* With a duration monitor.sh ends although the clock may jump over the end
\* between two polls, and both parsers go through its log to the end.
MonitoringEnds == (part = "ss_log" /\ duration > 0) ~> (part = "ss_log" /\ pc \in {"done", "crashed"})

=============================================================================
