----------------------------- MODULE Experiment ------------------------------
(***************************************************************************)
(* One trace through the tools, for several congestion control algorithms: *)
(* batch_run_iperf3.sh runs the emulator on it, again and again as long as *)
(* the operator answers y, and parse-logs.py turns the logs into CSV       *)
(* files.  A log is the set of runs that have written into it: iperf3      *)
(* appends to its log, the monitor and the emulator start theirs afresh.   *)
(* The trace that is generated for the emulator has one name for all       *)
(* algorithms.  The operator edits the original, interrupts the batch or   *)
(* forgets tcpdump; an iperf3 that hangs in a gap ends late or is killed.  *)
(* parse-logs.py is run while no test is.                                  *)
(***************************************************************************)
EXTENDS Integers, Sequences

CONSTANTS
    Algos,
    ParseArgs,      \* [pcap, packets, server, ss : BOOLEAN] : the options of parse-logs.py
    MaxRuns         \* bound: runs of the emulator

VARIABLES
    orig,           \* can the original trace be read?
    test_trace,     \* is there a trace-$id-test.csv?
    pc, algo,       \* the batch
    runs,           \* the algorithms of the runs so far
    pending,        \* the iperf3 processes: runs, 0 for a receiver that waits
    logs,           \* for each algorithm [cl, sv, ss, cap]
    packet_log,     \* ./packet.log
    pcap,           \* for each algorithm the capture of tcpdump
    interrupted,    \* the algorithms whose last run the operator interrupted
    parse,          \* parse-logs.py: [at, algo, args]
    csv             \* for each algorithm [throughput, packets, transit, ss]

batch  == <<orig, test_trace, pc, algo, runs, pending, logs, packet_log, pcap, interrupted>>
vars   == <<batch, parse, csv>>

Run == Len(runs)
NotParsing == parse.at \in {"none", "done", "ended"}

-----------------------------------------------------------------------------
(* batch_run_iperf3.sh *)

start_batch(a) ==
    /\ pc = "idle" /\ NotParsing
    /\ algo' = a /\ pc' = "prompt"
    /\ UNCHANGED <<orig, test_trace, runs, pending, logs, packet_log, pcap, interrupted, parse, csv>>

answer_no ==
    /\ pc = "prompt"
    /\ pc' = "idle"
    /\ UNCHANGED <<orig, test_trace, algo, runs, pending, logs, packet_log, pcap, interrupted, parse, csv>>

\* The answer is y.  generate_input.py catches its exceptions, so that the
\* batch goes on without a new trace.
generate_test ==
    /\ pc = "prompt" /\ Run < MaxRuns
    /\ test_trace' = (orig \/ test_trace)
    /\ pc' = "check"
    /\ UNCHANGED <<orig, algo, runs, pending, logs, packet_log, pcap, interrupted, parse, csv>>

\* pgrep finds an iperf3 that is still running.
not_looked_for == FALSE
unfinished_process == pending # {}

refuse ==
    /\ pc = "check" /\ unfinished_process
    /\ pc' = "prompt"
    /\ UNCHANGED <<orig, test_trace, algo, runs, pending, logs, packet_log, pcap, interrupted, parse, csv>>

\* The logs are removed and the receiver is started.  The 2 s between the removal of
\* its log and of the others are no step: nothing else writes them meanwhile.
removed(l) == [l EXCEPT !.cl = {}, !.sv = {}, !.ss = {}]

start_server ==
    /\ pc = "check" /\ ~unfinished_process
    /\ logs' = [logs EXCEPT ![algo] = removed(@)]
    /\ pending' = pending \cup {0}
    /\ pc' = "emulate"
    /\ UNCHANGED <<orig, test_trace, algo, runs, packet_log, pcap, interrupted, parse, csv>>

\* The run ends, and its transfer before it or, hanging, later; the operator may
\* have started tcpdump.
run_emulator ==
    /\ pc = "emulate" /\ test_trace
    /\ runs' = Append(runs, algo)
    /\ packet_log' = {Run + 1}
    /\ \/ /\ logs' = [logs EXCEPT ![algo].cl = @ \cup {Run + 1}, ![algo].sv = @ \cup {Run + 1},
                                  ![algo].ss = {Run + 1}]
          /\ pending' = pending \ {0}
       \/ /\ logs' = [logs EXCEPT ![algo].ss = {Run + 1}]
          /\ pending' = (pending \ {0}) \cup {Run + 1}
    /\ pcap' \in {pcap, [pcap EXCEPT ![algo] = {Run + 1}]}
    /\ pc' = "move"
    /\ UNCHANGED <<orig, test_trace, algo, interrupted, parse, csv>>

\* It cannot read the trace: packet.log is empty, the batch exits (set -e), and
\* the receiver keeps waiting.
emulator_fails ==
    /\ pc = "emulate" /\ ~test_trace
    /\ packet_log' = {}
    /\ pc' = "idle"
    /\ UNCHANGED <<orig, test_trace, algo, runs, pending, logs, pcap, interrupted, parse, csv>>

\* The emulator's log becomes the capture of the sender.
move_capture ==
    /\ pc = "move"
    /\ logs' = [logs EXCEPT ![algo].cap = packet_log]
    /\ packet_log' = {}
    /\ interrupted' = interrupted \ {algo}
    /\ pc' = "prompt"
    /\ UNCHANGED <<orig, test_trace, algo, runs, pending, pcap, parse, csv>>

interrupt ==
    /\ pc \in {"emulate", "move"}
    /\ interrupted' = interrupted \cup {algo}
    /\ pc' = "idle"
    /\ UNCHANGED <<orig, test_trace, algo, runs, pending, logs, packet_log, pcap, parse, csv>>

\* An iperf3 ends on its own and writes its logs, or is killed.
iperf3_ends(r) ==
    /\ logs' = [logs EXCEPT ![runs[r]].cl = @ \cup {r}, ![runs[r]].sv = @ \cup {r}]
    /\ pending' = pending \ {r}
    /\ UNCHANGED <<orig, test_trace, pc, algo, runs, packet_log, pcap, interrupted, parse, csv>>

iperf3_killed(p) ==
    /\ pc # "emulate"
    /\ pending' = pending \ {p}
    /\ UNCHANGED <<orig, test_trace, pc, algo, runs, logs, packet_log, pcap, interrupted, parse, csv>>

\* The operator edits the original, for better or worse.
edit(valid) ==
    /\ orig' = valid
    /\ UNCHANGED <<test_trace, pc, algo, runs, pending, logs, packet_log, pcap, interrupted, parse, csv>>

-----------------------------------------------------------------------------
(* parse-logs.py; each part is skipped without its option or file.           *)

Step(from, to) == parse.at = from /\ parse' = [parse EXCEPT !.at = to] /\ UNCHANGED batch

start_parse(a, args) ==
    /\ NotParsing /\ pc = "idle"
    /\ parse' = [at |-> "iperf", algo |-> a, args |-> args]
    /\ UNCHANGED <<batch, csv>>

\* Every exception, and an empty range of time, ends the script where it is.
fail ==
    /\ parse.at \in {"iperf", "packets", "ss"}
    /\ Step(parse.at, "ended")
    /\ UNCHANGED csv

parse_iperf ==
    /\ Step("iperf", "pcap")
    /\ csv' = IF logs[parse.algo].cl = {} THEN csv
              ELSE [csv EXCEPT ![parse.algo].throughput = logs[parse.algo].cl]

\* The header is written before tshark runs.
run_tshark ==
    \/ /\ Step("pcap", "packets") /\ ~parse.args.pcap
       /\ UNCHANGED csv
    \/ /\ Step("pcap", "packets") /\ parse.args.pcap /\ pcap[parse.algo] # {}
       /\ csv' = [csv EXCEPT ![parse.algo].packets = pcap[parse.algo]]
    \/ /\ Step("pcap", "ended") /\ parse.args.pcap
       /\ csv' = [csv EXCEPT ![parse.algo].packets = {}]

\* Where the script goes when sequence numbers have rolled over.
exits == "ended"

both_logs == parse.args.server /\ (parse.args.pcap \/ parse.args.packets)

parse_packets ==
    \/ /\ Step("packets", "ss") /\ ~both_logs
       /\ UNCHANGED csv
    \/ /\ Step("packets", exits) /\ both_logs
       /\ UNCHANGED csv
    \/ /\ Step("packets", "ss") /\ both_logs
       /\ logs[parse.algo].cap # {} /\ csv[parse.algo].packets # {}
       /\ csv' = [csv EXCEPT ![parse.algo].transit = logs[parse.algo].cap \cup csv[parse.algo].packets]

\* The log is parsed for BBR only.
write_ss ==
    LET wanted == parse.args.ss /\ parse.algo = "bbr"
    IN
    /\ Step("ss", "done")
    /\ wanted => logs[parse.algo].ss # {}
    /\ csv' = IF wanted THEN [csv EXCEPT ![parse.algo].ss = logs[parse.algo].ss] ELSE csv

-----------------------------------------------------------------------------
Init ==
    /\ orig \in BOOLEAN
    /\ test_trace = FALSE /\ pc = "idle" /\ algo = "" /\ runs = <<>> /\ pending = {}
    /\ logs = [a \in Algos |-> [cl |-> {}, sv |-> {}, ss |-> {}, cap |-> {}]]
    /\ packet_log = {} /\ pcap = [a \in Algos |-> {}] /\ interrupted = {}
    /\ parse = [at |-> "none", algo |-> "", args |-> {}]
    /\ csv = [a \in Algos |-> [throughput |-> {}, packets |-> {}, transit |-> {}, ss |-> {}]]

Batch ==
    \/ \E a \in Algos : start_batch(a)
    \/ answer_no \/ generate_test \/ refuse \/ start_server \/ run_emulator \/ emulator_fails
    \/ move_capture \/ interrupt
    \/ \E r \in pending \ {0} : iperf3_ends(r)
    \/ \E p \in pending : iperf3_killed(p)
    \/ \E valid \in BOOLEAN : edit(valid)

Parse ==
    \/ \E a \in Algos, args \in ParseArgs : start_parse(a, args)
    \/ fail \/ parse_iperf \/ run_tshark \/ parse_packets \/ write_ss

Next == Batch \/ Parse

Spec == Init /\ [][Next]_vars

-----------------------------------------------------------------------------
(* Properties. *)

\* No log mixes runs, and the logs of an algorithm are all of one run, although
\* iperf3 may write them long after the run and other algorithms run meanwhile;
\* the capture is so too unless the operator interrupts a run.
LogsOfOneRun ==
    \A a \in Algos :
        LET l == logs[a]
        IN  /\ \A r, s \in l.cl \cup l.sv \cup l.ss : r = s
            /\ l.cl # {} /\ a \notin interrupted /\ ~(pc = "move" /\ a = algo) => l.cap = l.cl

\* When parse-logs.py comes to its end with all options, its files are of one run,
\* whatever earlier runs and failed attempts have left, if the operator captured
\* that run and did not interrupt it and its receiver had ended.
FullParseOfOneRun ==
    LET a == parse.algo
    IN  /\ parse.at = "done" /\ a = "bbr" /\ pc = "idle"
        /\ parse.args.pcap /\ parse.args.server /\ parse.args.ss
        /\ a \notin interrupted /\ pcap[a] = logs[a].cap /\ csv[a].throughput = logs[a].cl
        /\ logs[a].cl # {}
        => csv[a].transit = csv[a].throughput /\ csv[a].ss = csv[a].throughput

=============================================================================
