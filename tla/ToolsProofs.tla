----------------------------- MODULE ToolsProofs -----------------------------
(* The network scripts, the batch of experiments and the scripts that rewrite  *)
(* traces, for every number of runs and scripts, every trace and every order   *)
(* in which the operator starts, interrupts and repeats them.                  *)
EXTENDS Tools, SequenceTheorems, WellFoundedInduction, TLAPS

-----------------------------------------------------------------------------
(* add_iptables.sh, run with care. *)

\* A mark that has its interface is routed.
Routed(k) == veths > k => k \in route

Clean == nfqueue = N!NoRules /\ route = {} /\ rule = {}

Configured ==
    /\ \A c \in N!Chains : nfqueue[c] = 1
    /\ rule = N!Marks
    /\ veths >= 3 => route = N!Marks

SetupLines   == {"OUTPUT", "INPUT", "route1", "route2", "rule1", "rule2", "end"}

\* What the lines before the next one of setup have done.
InSetup ==
    /\ line \in SetupLines \cup {"exit"}
    /\ line = "OUTPUT" => nfqueue = N!NoRules
    /\ line = "INPUT" => nfqueue["OUTPUT"] = 1 /\ nfqueue["INPUT"] = 0
    /\ line \in {"route1", "route2", "rule1", "rule2", "end"} =>
          nfqueue["OUTPUT"] = 1 /\ nfqueue["INPUT"] = 1
    /\ line \in {"route2", "rule1", "rule2", "end"} => Routed(1)
    /\ line \in {"rule1", "rule2", "end"} => Routed(2)
    /\ line \in {"rule2", "end"} => 1 \in rule
    /\ line = "end" => 2 \in rule

\* What the lines before the next one of cleanup have undone.
InCleanup ==
    /\ line \in SetupLines
    /\ line # "OUTPUT" => nfqueue["OUTPUT"] = 0
    /\ line \notin {"OUTPUT", "INPUT"} => nfqueue["INPUT"] = 0
    /\ line \in {"route2", "rule1", "rule2", "end"} => 1 \notin route
    /\ line \in {"rule1", "rule2", "end"} => 2 \notin route
    /\ line \in {"rule2", "end"} => 1 \notin rule
    /\ line = "end" => 2 \notin rule

\* No chain has two rules, for a setup begins after a cleanup that ended.
NetInv ==
    /\ nfqueue \in [N!Chains -> {0, 1}] /\ route \subseteq N!Marks /\ rule \subseteq N!Marks
    /\ veths \in Nat
    /\ (script = "none") <=> (line = "none")
    /\ script = "setup" => InSetup
    /\ script = "cleanup" => InCleanup
    /\ last = "cleanup" /\ script # "setup" => Clean
    /\ last = "setup" /\ script = "none" => Configured

\* Start and At of the scripts, in terms of what they leave alone.
LEMMA NetStart ==
    ASSUME NetInv, NEW s \in {"create", "destroy", "cleanup"}, NEW first, N!Start(s, first),
           first # "none", UNCHANGED <<nfqueue, route, rule, last>>, veths' \in Nat,
           s = "cleanup" => first = "OUTPUT"
    PROVE  NetInv'
  <1>1. script = "none" /\ script' = s /\ line' = first
    BY DEF N!Start
  <1>2. script' = "cleanup" => InCleanup'
    BY <1>1 DEF InCleanup, SetupLines
  <1> QED BY <1>1, <1>2 DEF NetInv, Clean

LEMMA NextNet ==
    ASSUME Careful, NetInv, [N!Next]_net_vars
    PROVE  NetInv'
  <1> USE DEF N!Chains, N!Marks, N!NoRules
  <1>0. /\ nfqueue \in [{"OUTPUT", "INPUT"} -> {0, 1}] /\ route \subseteq {1, 2}
        /\ rule \subseteq {1, 2} /\ veths \in Nat
    BY DEF NetInv
  <1>1. CASE N!create_netns
    BY <1>1, NetStart DEF N!create_netns, NetInv
  <1>2. CASE N!create_addr \/ N!create_up
    <2>1. /\ script = "create" /\ script' = "create" /\ line # "none" /\ line' # "none"
          /\ UNCHANGED <<nfqueue, route, rule, last>> /\ veths' \in Nat
      BY <1>0, <1>2 DEF N!create_addr, N!create_up, N!At
    <2> QED BY <2>1 DEF NetInv, Clean
  <1>3. CASE N!destroy_netns
    <2>1. /\ script = "none" /\ script' = "destroy" /\ line' = "end" /\ last' = last
          /\ veths' = 0 /\ nfqueue' = N!NoRules /\ route' = {} /\ rule' = {}
      BY <1>3 DEF N!destroy_netns, N!Start
    <2> QED BY <2>1 DEF NetInv, Clean
  <1>4. CASE N!setup
    <2>1. /\ script = "none" /\ script' = "setup" /\ line' \in {"OUTPUT", "exit"}
          /\ last = "cleanup" /\ UNCHANGED <<nfqueue, route, rule, veths, last>>
      BY <1>4 DEF N!setup, N!Start, N!net
    <2>2. Clean
      BY <2>1 DEF NetInv
    <2>3. InSetup'
      BY <2>1, <2>2 DEF InSetup, SetupLines, Clean
    <2> QED BY <2>1, <2>3 DEF NetInv
  <1>5. CASE N!cleanup
    BY <1>5, NetStart DEF N!cleanup, N!net, NetInv
  <1>6. CASE N!setup_nfqueue("OUTPUT", "INPUT") \/ N!setup_nfqueue("INPUT", "route1")
    <2>0. PICK c \in {"OUTPUT", "INPUT"} :
             /\ script = "setup" /\ script' = "setup" /\ line = c
             /\ line' = (IF c = "OUTPUT" THEN "INPUT" ELSE "route1")
             /\ nfqueue' = [nfqueue EXCEPT ![c] = @ + 1]
             /\ UNCHANGED <<route, rule, veths, last>>
      BY <1>6 DEF N!setup_nfqueue, N!At
    <2>1. InSetup
      BY <2>0 DEF NetInv
    <2>2. nfqueue[c] = 0 /\ (c = "INPUT" => nfqueue["OUTPUT"] = 1)
      BY <2>0, <2>1 DEF InSetup
    <2>3. /\ nfqueue' \in [{"OUTPUT", "INPUT"} -> {0, 1}]
          /\ nfqueue'[c] = 1
          /\ \A d \in {"OUTPUT", "INPUT"} : d # c => nfqueue'[d] = nfqueue[d]
      BY <1>0, <2>0, <2>2
    <2>4. c = "OUTPUT" => nfqueue["INPUT"] = 0
      BY <2>0, <2>1 DEF InSetup
    <2>5. InSetup'
      BY <2>0, <2>2, <2>3, <2>4 DEF InSetup, SetupLines
    <2> QED BY <2>0, <2>3, <2>5 DEF NetInv
  <1>7. CASE \/ N!setup_route(1, "route1", "route2") \/ N!setup_route(2, "route2", "rule1")
             \/ N!setup_rule(1, "rule1", "rule2") \/ N!setup_rule(2, "rule2", "end")
    <2>1. /\ script = "setup" /\ script' = "setup"
          /\ UNCHANGED <<nfqueue, veths, last>>
          /\ \/ /\ line = "route1" /\ line' = "route2" /\ rule' = rule
                /\ route' = IF veths > 1 THEN route \cup {1} ELSE route
             \/ /\ line = "route2" /\ line' = "rule1" /\ rule' = rule
                /\ route' = IF veths > 2 THEN route \cup {2} ELSE route
             \/ line = "rule1" /\ line' = "rule2" /\ rule' = rule \cup {1} /\ route' = route
             \/ line = "rule2" /\ line' = "end" /\ rule' = rule \cup {2} /\ route' = route
      BY <1>7 DEF N!setup_route, N!setup_rule, N!At, N!device_up
    <2>2. InSetup
      BY <2>1 DEF NetInv
    <2>3. route' \subseteq {1, 2} /\ rule' \subseteq {1, 2}
          /\ route \subseteq route' /\ rule \subseteq rule'
      BY <1>0, <2>1
    <2>4. InSetup'
      BY <2>1, <2>2 DEF InSetup, SetupLines, Routed
    <2> QED BY <1>0, <2>1, <2>3, <2>4 DEF NetInv
  <1>8. CASE \/ N!cleanup_nfqueue("OUTPUT", "INPUT") \/ N!cleanup_nfqueue("INPUT", "route1")
    <2>0. PICK c \in {"OUTPUT", "INPUT"} :
             /\ script = "cleanup" /\ script' = "cleanup" /\ line = c
             /\ line' = (IF c = "OUTPUT" THEN "INPUT" ELSE "route1")
             /\ nfqueue' = [nfqueue EXCEPT ![c] = N!one_less(@)]
             /\ UNCHANGED <<route, rule, veths, last>>
      BY <1>8 DEF N!cleanup_nfqueue, N!At
    <2>1. InCleanup
      BY <2>0 DEF NetInv
    <2>2. N!one_less(nfqueue[c]) = 0
      BY <1>0 DEF N!one_less
    <2>3. /\ nfqueue' \in [{"OUTPUT", "INPUT"} -> {0, 1}]
          /\ nfqueue'[c] = 0
          /\ \A d \in {"OUTPUT", "INPUT"} : d # c => nfqueue'[d] = nfqueue[d]
      BY <1>0, <2>0, <2>2
    <2>4. c = "INPUT" => nfqueue["OUTPUT"] = 0
      BY <2>0, <2>1 DEF InCleanup
    <2>5. InCleanup'
      BY <2>0, <2>3, <2>4 DEF InCleanup, SetupLines
    <2>6. Clean => Clean'
      BY <2>0, <2>3 DEF Clean
    <2> QED BY <1>0, <2>0, <2>3, <2>5, <2>6 DEF NetInv
  <1>9. CASE \/ N!cleanup_route(1, "route1", "route2") \/ N!cleanup_route(2, "route2", "rule1")
             \/ N!cleanup_rule(1, "rule1", "rule2") \/ N!cleanup_rule(2, "rule2", "end")
    <2>1. /\ script = "cleanup" /\ script' = "cleanup"
          /\ UNCHANGED <<nfqueue, veths, last>>
          /\ \/ line = "route1" /\ line' = "route2" /\ rule' = rule /\ route' = route \ {1}
             \/ line = "route2" /\ line' = "rule1" /\ rule' = rule /\ route' = route \ {2}
             \/ line = "rule1" /\ line' = "rule2" /\ rule' = rule \ {1} /\ route' = route
             \/ line = "rule2" /\ line' = "end" /\ rule' = rule \ {2} /\ route' = route
      BY <1>9 DEF N!cleanup_route, N!cleanup_rule, N!At
    <2>2. InCleanup
      BY <2>1 DEF NetInv
    <2>3. route' \subseteq route /\ rule' \subseteq rule
      BY <2>1
    <2>4. InCleanup'
      BY <2>1, <2>2 DEF InCleanup, SetupLines
    <2>5. Clean => Clean'
      BY <2>1, <2>3 DEF Clean
    <2> QED BY <1>0, <2>1, <2>3, <2>4, <2>5 DEF NetInv
  <1>10. CASE N!End
    <2>1. /\ line \in {"end", "exit"} /\ script' = "none" /\ line' = "none"
          /\ last' = (IF line = "end" THEN script ELSE "none")
          /\ UNCHANGED <<nfqueue, route, rule, veths>>
      BY <1>10 DEF N!End, N!net
    <2>2. last' = "setup" => Configured'
      <3> SUFFICES ASSUME last' = "setup" PROVE Configured
        BY <2>1 DEF Configured
      <3>1. InSetup /\ line = "end"
        BY <2>1 DEF NetInv
      <3>2. nfqueue["OUTPUT"] = 1 /\ nfqueue["INPUT"] = 1 /\ 1 \in rule /\ 2 \in rule
            /\ (veths > 1 => 1 \in route) /\ (veths > 2 => 2 \in route)
        BY <3>1 DEF InSetup, Routed
      <3>3. \A c \in {"OUTPUT", "INPUT"} : nfqueue[c] = 1
        BY <3>2
      <3>4. rule = {1, 2}
        BY <1>0, <3>2
      <3>5. veths >= 3 => 1 \in route /\ 2 \in route
        BY <1>0, <3>2
      <3>6. veths >= 3 => route = {1, 2}
        BY <1>0, <3>5
      <3> QED BY <3>3, <3>4, <3>6 DEF Configured
    <2>3. last' = "cleanup" => Clean'
      <3> SUFFICES ASSUME last' = "cleanup" PROVE Clean
        BY <2>1 DEF Clean
      <3>1. InCleanup /\ line = "end"
        BY <2>1 DEF NetInv
      <3>2. \A c \in {"OUTPUT", "INPUT"} : nfqueue[c] = 0
        BY <3>1 DEF InCleanup
      <3>3. nfqueue = N!NoRules
        BY <1>0, <3>2
      <3>4. route = {} /\ rule = {}
        BY <1>0, <3>1 DEF InCleanup
      <3> QED BY <3>3, <3>4 DEF Clean
    <2> QED BY <1>0, <2>1, <2>2, <2>3 DEF NetInv
  <1>11. CASE N!interrupt
    BY <1>0, <1>11 DEF N!interrupt, N!net, NetInv
  <1>12. CASE UNCHANGED net_vars
    BY <1>12 DEF net_vars, NetInv, InSetup, InCleanup, Clean, Configured, Routed
  <1> QED
    BY <1>1, <1>2, <1>3, <1>4, <1>5, <1>6, <1>7, <1>8, <1>9, <1>10, <1>11, <1>12
    DEF N!Next, N!Netns, N!Setup, N!Cleanup

\* A step of the tools is one of this part if the part is the network's.
LEMMA NetPart ==
    ASSUME [Next]_vars
    PROVE  part' = part /\ (part = "net_setup" => [N!Next]_net_vars)
  BY DEF Next, vars, run_packet_metrics, run_metrics, run_ss_log, run_trace_tools,
         run_experiment, run_net_setup

\* If the operator lets a cleanup end before every setup, what add_iptables.sh
\* says at its end is so, for every number of scripts, interfaces and
\* interruptions: after "Clean-up complete." no rule or route is left, and after
\* "Configuration complete." each chain has one rule and each mark its route.
THEOREM CarefulSetup ==
    ASSUME Careful
    PROVE  Spec => []SetupKeepsItsWord
  <1> DEFINE Inv == part = "net_setup" => NetInv
  <1>1. Init => Inv
    <2> SUFFICES ASSUME N!Init PROVE NetInv
      BY DEF Init
    <2> QED BY DEF N!Init, NetInv, N!NoRules, N!Chains
  <1>2. Inv /\ [Next]_vars => Inv'
    BY NetPart, NextNet
  <1>3. Inv => SetupKeepsItsWord
    BY DEF SetupKeepsItsWord, N!CleanUpComplete, N!ConfigurationComplete, N!Ended, NetInv,
           Clean, Configured
  <1> QED BY <1>1, <1>2, <1>3, PTL DEF Spec

-----------------------------------------------------------------------------
(* batch_run_iperf3.sh and parse-logs.py. *)

Logs   == [cl : SUBSET Nat, sv : SUBSET Nat, ss : SUBSET Nat, cap : SUBSET Nat]
Tables == [throughput : SUBSET Nat, packets : SUBSET Nat, transit : SUBSET Nat, ss : SUBSET Nat]

Parsing == parse.at \in {"iperf", "pcap", "packets", "ss"}

\* The state of the batch and of parse-logs.py; they do not run at the same time.
BatchType ==
    /\ pc \in {"idle", "prompt", "check", "emulate", "move"}
    /\ pc # "idle" => algo \in Algos
    /\ runs \in Seq(Algos)
    /\ logs \in [Algos -> Logs] /\ pcap \in [Algos -> SUBSET Nat] /\ csv \in [Algos -> Tables]
    /\ parse \in [at : {"none", "iperf", "pcap", "packets", "ss", "done", "ended"},
                  algo : Algos \cup {""}, args : ParseArgs \cup {{}}]
    /\ parse.at # "none" => parse.algo \in Algos
    /\ Parsing => pc = "idle"

\* The logs that iperf3 writes are of the run whose ss log is there, or empty.
LogOf(a) ==
    /\ logs[a].sv = logs[a].cl
    /\ logs[a].cl = {} \/ logs[a].cl = logs[a].ss
    /\ logs[a].ss = {} \/ \E r \in 1 .. E!Run : logs[a].ss = {r}
    /\ logs[a].ss # {} /\ a \notin interrupted /\ ~(pc = "move" /\ a = algo) =>
          logs[a].cap = logs[a].ss

\* Only the last run can have an iperf3 that is still to write, and the logs it
\* will write to are those of its run.
Hanging == E!Run > 0 /\ pending = {E!Run}

LogInv ==
    /\ \A a \in Algos : LogOf(a)
    /\ pending = {} \/ pending = {0} \/ Hanging
    /\ Hanging => logs[runs[E!Run]].cl = {} /\ logs[runs[E!Run]].ss = {E!Run}
    /\ pc = "emulate" => pending = {0} /\ logs[algo].ss = {}
    /\ pc = "move" =>
          E!Run > 0 /\ runs[E!Run] = algo /\ packet_log = {E!Run} /\ logs[algo].ss = {E!Run}

\* The throughput that was parsed last is that of the logs, and nothing was
\* interrupted or captured since.
UpToDate(a) ==
    /\ a \notin interrupted /\ pcap[a] = logs[a].cap
    /\ csv[a].throughput = logs[a].cl /\ logs[a].cl # {}

\* parse-logs.py has seen nothing of a run before its logs are complete.
SeenInv ==
    /\ \A a \in Algos : csv[a].throughput \subseteq 1 .. E!Run
    /\ Hanging => E!Run \notin csv[runs[E!Run]].throughput
    /\ pc = "move" => E!Run \notin csv[algo].throughput

\* What the parts of parse-logs.py that have run have written.
StageInv ==
    /\ parse.at = "packets" /\ parse.args.pcap => csv[parse.algo].packets = pcap[parse.algo]
    /\ parse.at = "ss" /\ parse.args.pcap /\ parse.args.server =>
          csv[parse.algo].transit = logs[parse.algo].cap \cup pcap[parse.algo]
    /\ parse.at = "done" /\ parse.algo = "bbr" /\ parse.args.pcap /\ parse.args.server
       /\ parse.args.ss /\ UpToDate(parse.algo) =>
          /\ csv[parse.algo].transit = csv[parse.algo].throughput
          /\ csv[parse.algo].ss = csv[parse.algo].throughput

ExperimentInv == BatchType /\ LogInv /\ SeenInv /\ StageInv

LEMMA RunsLength == BatchType => E!Run \in Nat
  <1> SUFFICES ASSUME BatchType PROVE E!Run \in Nat
    OBVIOUS
  <1>1. runs \in Seq(Algos)
    BY DEF BatchType
  <1> QED BY <1>1, LenProperties DEF E!Run

\* The logs of an algorithm that a step is not about.
LEMMA LogStays ==
    ASSUME NEW a, LogOf(a), logs'[a] = logs[a],
           E!Run \in Nat, E!Run' \in Nat, E!Run <= E!Run',
           a \notin interrupted' => a \notin interrupted, ~(pc = "move" /\ a = algo)
    PROVE  LogOf(a)'
  BY DEF LogOf

\* A step of the batch leaves what parse-logs.py has written.
LEMMA StageStays ==
    ASSUME BatchType, StageInv, UNCHANGED <<parse, csv>>,
           Parsing => pcap' = pcap /\ \A a \in Algos : logs'[a].cap = logs[a].cap,
           \A a \in Algos : UpToDate(a)' => UpToDate(a)
    PROVE  StageInv'
  <1>1. parse.at # "none" => parse.algo \in Algos
    BY DEF BatchType
  <1>2. parse'.at = "packets" /\ parse'.args.pcap => csv'[parse'.algo].packets = pcap'[parse'.algo]
    BY <1>1 DEF StageInv, Parsing
  <1>3. parse'.at = "ss" /\ parse'.args.pcap /\ parse'.args.server =>
           csv'[parse'.algo].transit = logs'[parse'.algo].cap \cup pcap'[parse'.algo]
    BY <1>1 DEF StageInv, Parsing
  <1>4. \A a \in Algos : a = parse.algo =>
          (parse'.at = "done" /\ parse'.algo = "bbr" /\ parse'.args.pcap /\ parse'.args.server
           /\ parse'.args.ss /\ UpToDate(a)' =>
              /\ csv'[parse'.algo].transit = csv'[parse'.algo].throughput
              /\ csv'[parse'.algo].ss = csv'[parse'.algo].throughput)
    BY <1>1 DEF StageInv
  <1> QED BY <1>1, <1>2, <1>3, <1>4 DEF StageInv, UpToDate

\* Steps that leave the logs, the processes and the tables.
LEMMA QuietStep ==
    ASSUME ExperimentInv, UNCHANGED <<runs, pending, logs, pcap, interrupted, parse, csv>>,
           \/ UNCHANGED <<pc, algo, packet_log>>
           \/ /\ pc # "move" /\ pc' \in {"idle", "prompt", "check"}
              /\ pc' # "idle" => algo' \in Algos /\ ~Parsing
    PROVE  ExperimentInv'
  <1>1. BatchType'
    BY DEF ExperimentInv, BatchType, Parsing
  <1>2. LogInv'
    BY DEF ExperimentInv, LogInv, LogOf, Hanging, E!Run
  <1>3. SeenInv'
    BY DEF ExperimentInv, SeenInv, Hanging, E!Run
  <1>4. StageInv'
    BY DEF ExperimentInv, StageInv, UpToDate
  <1> QED BY <1>1, <1>2, <1>3, <1>4 DEF ExperimentInv

LEMMA ServerStarts ==
    ASSUME ExperimentInv, E!start_server
    PROVE  ExperimentInv'
  <1>0. /\ BatchType /\ LogInv /\ SeenInv /\ StageInv /\ E!Run \in Nat
        /\ logs \in [Algos -> Logs]
    BY RunsLength DEF ExperimentInv, BatchType
  <1>1. /\ pc = "check" /\ pc' = "emulate" /\ pending = {} /\ pending' = {0}
        /\ UNCHANGED <<algo, runs, packet_log, pcap, interrupted, parse, csv>>
        /\ algo \in Algos /\ ~Parsing
    BY <1>0 DEF E!start_server, E!unfinished_process, BatchType
  <1>2. /\ logs' \in [Algos -> Logs]
        /\ logs'[algo].cl = {} /\ logs'[algo].sv = {} /\ logs'[algo].ss = {}
        /\ \A a \in Algos : a # algo => logs'[a] = logs[a]
    <2>1. logs' = [logs EXCEPT ![algo] = [logs[algo] EXCEPT !.cl = {}, !.sv = {}, !.ss = {}]]
      BY DEF E!start_server, E!removed
    <2>2. logs[algo] \in Logs
      BY <1>0, <1>1
    <2>3. [logs[algo] EXCEPT !.cl = {}, !.sv = {}, !.ss = {}] \in Logs
      BY <2>2 DEF Logs
    <2>4. logs'[algo] = [logs[algo] EXCEPT !.cl = {}, !.sv = {}, !.ss = {}]
      BY <1>0, <1>1, <2>1
    <2> QED BY <1>0, <1>1, <2>1, <2>2, <2>3, <2>4 DEF Logs
  <1>3. ~Hanging' /\ E!Run' = E!Run
    BY <1>0, <1>1 DEF Hanging, E!Run
  <1>4. BatchType'
    BY <1>0, <1>1, <1>2 DEF BatchType, Parsing
  <1>5. LogInv'
    <2>1. ASSUME NEW a \in Algos PROVE LogOf(a)'
      <3>1. CASE a = algo
        BY <1>2, <3>1 DEF LogOf
      <3>2. CASE a # algo
        <4>1. LogOf(a)
          BY <1>0 DEF LogInv
        <4> QED BY <1>0, <1>1, <1>2, <1>3, <3>2, <4>1, LogStays
      <3> QED BY <3>1, <3>2
    <2> QED BY <1>1, <1>2, <1>3, <2>1 DEF LogInv
  <1>6. SeenInv'
    BY <1>0, <1>1, <1>3 DEF SeenInv
  <1>7. StageInv'
    <2>1. \A a \in Algos : UpToDate(a)' => UpToDate(a)
      BY <1>1, <1>2 DEF UpToDate
    <2> QED BY <1>0, <1>1, <2>1, StageStays
  <1> QED BY <1>4, <1>5, <1>6, <1>7 DEF ExperimentInv

LEMMA EmulatorRuns ==
    ASSUME ExperimentInv, E!run_emulator
    PROVE  ExperimentInv'
  <1> DEFINE R == E!Run + 1
  <1>0. /\ BatchType /\ LogInv /\ SeenInv /\ StageInv /\ E!Run \in Nat
        /\ logs \in [Algos -> Logs] /\ pcap \in [Algos -> SUBSET Nat] /\ runs \in Seq(Algos)
    BY RunsLength DEF ExperimentInv, BatchType
  <1>1. /\ pc = "emulate" /\ pc' = "move" /\ packet_log' = {R}
        /\ UNCHANGED <<algo, interrupted, parse, csv>>
        /\ algo \in Algos /\ ~Parsing
    BY <1>0 DEF E!run_emulator, BatchType
  <1>2. /\ runs' \in Seq(Algos) /\ E!Run' = R /\ runs'[R] = algo
    <2>1. runs' = Append(runs, algo)
      BY DEF E!run_emulator
    <2> QED BY <1>0, <1>1, <2>1, AppendProperties DEF E!Run
  <1>3. /\ pending = {0} /\ logs[algo].ss = {} /\ logs[algo].cl = {} /\ logs[algo].sv = {}
    BY <1>0, <1>1 DEF LogInv, LogOf
  <1>4. logs[algo] \in Logs /\ R \in Nat
    BY <1>0, <1>1
  <1>5. /\ logs' \in [Algos -> Logs]
        /\ \A a \in Algos : a # algo => logs'[a] = logs[a]
        /\ logs'[algo].ss = {R}
        /\ \/ pending' = {} /\ logs'[algo].cl = {R} /\ logs'[algo].sv = {R}
           \/ pending' = {R} /\ logs'[algo].cl = {} /\ logs'[algo].sv = {}
    <2>1. CASE /\ logs' = [logs EXCEPT ![algo].cl = @ \cup {R}, ![algo].sv = @ \cup {R},
                                       ![algo].ss = {R}]
               /\ pending' = pending \ {0}
      <3>1. pending' = {}
        BY <1>3, <2>1
      <3> DEFINE l == [logs[algo] EXCEPT !.cl = @ \cup {R}, !.sv = @ \cup {R}, !.ss = {R}]
      <3>2. l \in Logs /\ l.cl = {R} /\ l.sv = {R} /\ l.ss = {R}
        BY <1>3, <1>4 DEF Logs
      <3>3. logs' = [logs EXCEPT ![algo] = l]
        BY <1>0, <1>1, <2>1
      <3> HIDE DEF l
      <3> QED BY <1>0, <1>1, <3>1, <3>2, <3>3
    <2>2. CASE /\ logs' = [logs EXCEPT ![algo].ss = {R}]
               /\ pending' = (pending \ {0}) \cup {R}
      <3>1. pending' = {R}
        BY <1>3, <2>2
      <3> DEFINE l == [logs[algo] EXCEPT !.ss = {R}]
      <3>2. l \in Logs /\ l.cl = {} /\ l.sv = {} /\ l.ss = {R}
        BY <1>3, <1>4 DEF Logs
      <3>3. logs' = [logs EXCEPT ![algo] = l]
        BY <1>0, <1>1, <2>2
      <3> HIDE DEF l
      <3> QED BY <1>0, <1>1, <3>1, <3>2, <3>3
    <2> QED BY <2>1, <2>2 DEF E!run_emulator
  <1>6. /\ pcap' \in [Algos -> SUBSET Nat]
        /\ \A a \in Algos : a # algo => pcap'[a] = pcap[a]
    BY <1>0, <1>1, <1>4 DEF E!run_emulator
  <1> HIDE DEF R
  <1>7. E!Run < R /\ R > 0 /\ R \in 1 .. R /\ \A r \in 1 .. E!Run : r \in 1 .. R /\ r # R
    BY <1>0 DEF R
  <1>8. BatchType'
    BY <1>0, <1>1, <1>2, <1>5, <1>6 DEF BatchType, Parsing
  <1>9. LogInv'
    <2>1. ASSUME NEW a \in Algos PROVE LogOf(a)'
      <3>1. CASE a = algo
        BY <1>1, <1>2, <1>5, <1>7, <3>1 DEF LogOf
      <3>2. CASE a # algo
        <4>1. LogOf(a)
          BY <1>0 DEF LogInv
        <4> QED BY <1>0, <1>1, <1>2, <1>4, <1>5, <1>7, <3>2, <4>1, LogStays
      <3> QED BY <3>1, <3>2
    <2>2. pending' = {} \/ Hanging'
      BY <1>2, <1>5, <1>7 DEF Hanging
    <2>3. Hanging' => logs'[runs'[R]].cl = {} /\ logs'[runs'[R]].ss = {R}
      BY <1>2, <1>5 DEF Hanging
    <2> QED BY <1>1, <1>2, <1>5, <1>7, <2>1, <2>2, <2>3 DEF LogInv
  <1>10. \A a \in Algos : R \notin csv[a].throughput
    BY <1>0, <1>7 DEF SeenInv
  <1>11. SeenInv'
    <2>1. \A a \in Algos : csv[a].throughput \subseteq 1 .. R
      BY <1>0, <1>7 DEF SeenInv
    <2> QED BY <1>1, <1>2, <1>10, <2>1 DEF SeenInv
  <1>12. StageInv'
    <2>1. \A a \in Algos : UpToDate(a)' => UpToDate(a)
      <3> SUFFICES ASSUME NEW a \in Algos, UpToDate(a)' PROVE UpToDate(a)
        OBVIOUS
      <3>1. a # algo
        BY <1>1, <1>5, <1>10 DEF UpToDate
      <3> QED BY <1>1, <1>5, <1>6, <3>1 DEF UpToDate
    <2> QED BY <1>0, <1>1, <2>1, StageStays
  <1> QED BY <1>8, <1>9, <1>11, <1>12 DEF ExperimentInv

LEMMA CaptureMoved ==
    ASSUME ExperimentInv, E!move_capture
    PROVE  ExperimentInv'
  <1>0. /\ BatchType /\ LogInv /\ SeenInv /\ StageInv /\ E!Run \in Nat
        /\ logs \in [Algos -> Logs]
    BY RunsLength DEF ExperimentInv, BatchType
  <1>1. /\ pc = "move" /\ pc' = "prompt" /\ interrupted' = interrupted \ {algo}
        /\ UNCHANGED <<algo, runs, pending, pcap, parse, csv>>
        /\ algo \in Algos /\ ~Parsing /\ E!Run' = E!Run
    BY <1>0 DEF E!move_capture, BatchType, E!Run
  <1>2. /\ logs[algo].ss = {E!Run} /\ packet_log = {E!Run}
        /\ E!Run \notin csv[algo].throughput
        /\ logs[algo].sv = logs[algo].cl
        /\ logs[algo].cl = {} \/ logs[algo].cl = {E!Run}
    BY <1>0, <1>1 DEF LogInv, LogOf, SeenInv
  <1>3. /\ logs' \in [Algos -> Logs]
        /\ \A a \in Algos : a # algo => logs'[a] = logs[a]
        /\ logs'[algo].cap = {E!Run} /\ logs'[algo].ss = {E!Run}
        /\ logs'[algo].cl = logs[algo].cl /\ logs'[algo].sv = logs[algo].sv
    <2> DEFINE l == [logs[algo] EXCEPT !.cap = {E!Run}]
    <2>1. logs[algo] \in Logs
      BY <1>0, <1>1
    <2>2. /\ l \in Logs /\ l.cap = {E!Run} /\ l.cl = logs[algo].cl /\ l.sv = logs[algo].sv
          /\ l.ss = logs[algo].ss
      BY <1>0, <2>1 DEF Logs
    <2>3. logs' = [logs EXCEPT ![algo] = l]
      BY <1>0, <1>1, <1>2 DEF E!move_capture
    <2> HIDE DEF l
    <2> QED BY <1>0, <1>1, <1>2, <2>2, <2>3
  <1>4. BatchType'
    BY <1>0, <1>1, <1>3 DEF BatchType, Parsing
  <1>5. LogInv'
    <2>1. ASSUME NEW a \in Algos PROVE LogOf(a)'
      <3>0. LogOf(a)
        BY <1>0 DEF LogInv
      <3>1. CASE a = algo
        BY <1>1, <1>2, <1>3, <3>0, <3>1 DEF LogOf
      <3>2. CASE a # algo
        BY <1>0, <1>1, <1>3, <3>0, <3>2, LogStays
      <3> QED BY <3>1, <3>2
    <2>2. Hanging' => logs'[runs'[E!Run]].cl = {} /\ logs'[runs'[E!Run]].ss = {E!Run}
      <3> SUFFICES ASSUME Hanging
                   PROVE  logs'[runs[E!Run]].cl = {} /\ logs'[runs[E!Run]].ss = {E!Run}
        BY <1>1 DEF Hanging
      <3>1. runs[E!Run] = algo
        BY <1>0, <1>1 DEF LogInv
      <3> QED BY <1>0, <1>3, <3>1 DEF LogInv
    <2>3. pending' = {} \/ pending' = {0} \/ Hanging'
      BY <1>0, <1>1 DEF LogInv, Hanging
    <2> QED BY <1>1, <2>1, <2>2, <2>3 DEF LogInv
  <1>6. SeenInv'
    BY <1>0, <1>1 DEF SeenInv, Hanging
  <1>7. StageInv'
    <2>1. \A a \in Algos : UpToDate(a)' => UpToDate(a)
      <3> SUFFICES ASSUME NEW a \in Algos, UpToDate(a)' PROVE UpToDate(a)
        OBVIOUS
      <3>1. a # algo
        BY <1>1, <1>2, <1>3 DEF UpToDate
      <3> QED BY <1>1, <1>3, <3>1 DEF UpToDate
    <2> QED BY <1>0, <1>1, <2>1, StageStays
  <1> QED BY <1>4, <1>5, <1>6, <1>7 DEF ExperimentInv

LEMMA BatchInterrupted ==
    ASSUME ExperimentInv, E!interrupt
    PROVE  ExperimentInv'
  <1>0. BatchType /\ LogInv /\ SeenInv /\ StageInv /\ E!Run \in Nat
    BY RunsLength DEF ExperimentInv
  <1>1. /\ pc \in {"emulate", "move"} /\ pc' = "idle" /\ interrupted' = interrupted \cup {algo}
        /\ UNCHANGED <<algo, runs, pending, logs, pcap, parse, csv>>
        /\ ~Parsing /\ E!Run' = E!Run
    BY <1>0 DEF E!interrupt, BatchType, E!Run
  <1>2. BatchType'
    BY <1>0, <1>1 DEF BatchType, Parsing
  <1>3. LogInv'
    <2>1. ASSUME NEW a \in Algos PROVE LogOf(a)'
      <3>0. LogOf(a)
        BY <1>0 DEF LogInv
      <3>1. CASE a = algo
        BY <1>1, <3>0, <3>1 DEF LogOf
      <3>2. CASE a # algo
        BY <1>0, <1>1, <3>0, <3>2, LogStays
      <3> QED BY <3>1, <3>2
    <2> QED BY <1>0, <1>1, <2>1 DEF LogInv, Hanging
  <1>4. SeenInv'
    BY <1>0, <1>1 DEF SeenInv, Hanging
  <1>5. StageInv'
    <2>1. \A a \in Algos : UpToDate(a)' => UpToDate(a)
      BY <1>1 DEF UpToDate
    <2> QED BY <1>0, <1>1, <2>1, StageStays
  <1> QED BY <1>2, <1>3, <1>4, <1>5 DEF ExperimentInv

\* The late iperf3 is that of the last run, and it finds the logs it left.
LEMMA LateTransferEnds ==
    ASSUME ExperimentInv, NEW r \in pending \ {0}, E!iperf3_ends(r)
    PROVE  ExperimentInv'
  <1> DEFINE b == runs[r]
  <1>0. /\ BatchType /\ LogInv /\ SeenInv /\ StageInv /\ E!Run \in Nat
        /\ logs \in [Algos -> Logs] /\ runs \in Seq(Algos)
    BY RunsLength DEF ExperimentInv, BatchType
  <1>1. Hanging /\ r = E!Run /\ r \in Nat /\ r > 0
    BY <1>0 DEF LogInv, Hanging
  <1>2. b \in Algos
    <2>1. r \in 1 .. Len(runs)
      BY <1>1 DEF E!Run
    <2> QED BY <1>0, <2>1, ElementOfSeq
  <1>3. /\ UNCHANGED <<pc, algo, runs, packet_log, pcap, interrupted, parse, csv>>
        /\ pending' = {} /\ E!Run' = E!Run /\ pc # "emulate"
    <2>1. pending' = pending \ {r} /\ pending = {r}
      BY <1>1 DEF E!iperf3_ends, Hanging
    <2>2. pc # "emulate"
      BY <1>0, <1>1, <2>1 DEF LogInv
    <2> QED BY <2>1, <2>2 DEF E!iperf3_ends, E!Run
  <1>4. logs[b].cl = {} /\ logs[b].sv = {} /\ logs[b].ss = {r} /\ r \notin csv[b].throughput
    BY <1>0, <1>1, <1>2 DEF LogInv, LogOf, SeenInv
  <1> DEFINE l == [logs[b] EXCEPT !.cl = @ \cup {r}, !.sv = @ \cup {r}]
  <1>5. l \in Logs /\ l.cl = {r} /\ l.sv = {r} /\ l.ss = {r} /\ l.cap = logs[b].cap
    <2>1. logs[b] \in Logs
      BY <1>0, <1>2
    <2> QED BY <1>1, <1>4, <2>1 DEF Logs
  <1>6. logs' = [logs EXCEPT ![b] = l]
    BY <1>0, <1>2 DEF E!iperf3_ends
  <1> HIDE DEF l, b
  <1>7. /\ logs' \in [Algos -> Logs] /\ logs'[b] = l
        /\ \A a \in Algos : a # b => logs'[a] = logs[a]
        /\ \A a \in Algos : logs'[a].cap = logs[a].cap /\ logs'[a].ss = logs[a].ss
    BY <1>0, <1>2, <1>4, <1>5, <1>6
  <1>8. BatchType'
    BY <1>0, <1>3, <1>7 DEF BatchType, Parsing
  <1>9. LogInv'
    <2>1. ASSUME NEW a \in Algos PROVE LogOf(a)'
      <3>0. LogOf(a)
        BY <1>0 DEF LogInv
      <3>1. CASE a = b
        <4>1. logs'[a].cl = logs'[a].ss /\ logs'[a].sv = logs'[a].cl
          BY <1>5, <1>7, <3>1
        <4> QED BY <1>3, <1>7, <3>0, <4>1 DEF LogOf
      <3>2. CASE a # b
        BY <1>3, <1>7, <3>0, <3>2 DEF LogOf
      <3> QED BY <3>1, <3>2
    <2>2. ~Hanging'
      BY <1>3 DEF Hanging
    <2>3. pc = "move" => algo \in Algos
      BY <1>0 DEF BatchType
    <2> QED BY <1>0, <1>3, <1>7, <2>1, <2>2, <2>3 DEF LogInv
  <1>10. SeenInv'
    BY <1>0, <1>3 DEF SeenInv, Hanging
  <1>11. StageInv'
    <2>1. \A a \in Algos : UpToDate(a)' => UpToDate(a)
      <3> SUFFICES ASSUME NEW a \in Algos, UpToDate(a)' PROVE UpToDate(a)
        OBVIOUS
      <3>1. a # b
        BY <1>3, <1>4, <1>5, <1>7 DEF UpToDate
      <3> QED BY <1>3, <1>7, <3>1 DEF UpToDate
    <2> QED BY <1>0, <1>3, <1>7, <2>1, StageStays
  <1> QED BY <1>8, <1>9, <1>10, <1>11 DEF ExperimentInv

LEMMA TransferKilled ==
    ASSUME ExperimentInv, NEW p \in pending, E!iperf3_killed(p)
    PROVE  ExperimentInv'
  <1>0. BatchType /\ LogInv /\ SeenInv /\ StageInv
    BY DEF ExperimentInv
  <1>1. /\ UNCHANGED <<pc, algo, runs, logs, packet_log, pcap, interrupted, parse, csv>>
        /\ pc # "emulate" /\ pending' = {} /\ E!Run' = E!Run
    BY <1>0 DEF E!iperf3_killed, LogInv, Hanging, E!Run
  <1>2. ~Hanging'
    BY <1>1 DEF Hanging
  <1>3. BatchType'
    BY <1>0, <1>1 DEF BatchType, Parsing
  <1>4. LogInv'
    BY <1>0, <1>1, <1>2 DEF LogInv, LogOf
  <1>5. SeenInv'
    BY <1>0, <1>1, <1>2 DEF SeenInv
  <1>6. StageInv'
    BY <1>0, <1>1 DEF StageInv, UpToDate
  <1> QED BY <1>3, <1>4, <1>5, <1>6 DEF ExperimentInv

LEMMA NextBatch ==
    ASSUME ExperimentInv, E!Batch
    PROVE  ExperimentInv'
  <1>0. BatchType
    BY DEF ExperimentInv
  <1>1. CASE (\E a \in Algos : E!start_batch(a)) \/ E!answer_no \/ E!generate_test \/ E!refuse
             \/ E!emulator_fails \/ \E valid \in BOOLEAN : E!edit(valid)
    <2>1. UNCHANGED <<runs, pending, logs, pcap, interrupted, parse, csv>>
      BY <1>1 DEF E!start_batch, E!answer_no, E!generate_test, E!refuse, E!emulator_fails, E!edit
    <2>2. \/ UNCHANGED <<pc, algo, packet_log>>
          \/ /\ pc # "move" /\ pc' \in {"idle", "prompt", "check"}
             /\ pc' # "idle" => algo' \in Algos /\ ~Parsing
      BY <1>0, <1>1 DEF E!start_batch, E!answer_no, E!generate_test, E!refuse, E!emulator_fails,
                        E!edit, E!NotParsing, Parsing, BatchType
    <2> QED BY <2>1, <2>2, QuietStep
  <1> QED BY <1>1, ServerStarts, EmulatorRuns, CaptureMoved, BatchInterrupted, LateTransferEnds,
             TransferKilled DEF E!Batch

ParseStages == {"none", "iperf", "pcap", "packets", "ss", "done", "ended"}

\* A step of parse-logs.py from one part to the next.
LEMMA ParseStep ==
    ASSUME BatchType, NEW from, NEW to \in ParseStages \ {"none"}, E!Step(from, to), from # "none"
    PROVE  /\ parse.at = from /\ parse'.at = to /\ parse.algo \in Algos
           /\ parse'.algo = parse.algo /\ parse'.args = parse.args
           /\ parse' \in [at : ParseStages, algo : Algos \cup {""}, args : ParseArgs \cup {{}}]
           /\ UNCHANGED <<pc, algo, runs, pending, logs, packet_log, pcap, interrupted>>
  <1>1. /\ parse.at = from /\ parse' = [parse EXCEPT !.at = to]
        /\ UNCHANGED <<pc, algo, runs, pending, logs, packet_log, pcap, interrupted>>
    BY DEF E!Step, E!batch
  <1>2. /\ parse \in [at : ParseStages, algo : Algos \cup {""}, args : ParseArgs \cup {{}}]
        /\ parse.at # "none" => parse.algo \in Algos
    BY DEF BatchType, ParseStages
  <1>3. /\ parse'.at = to /\ parse'.algo = parse.algo /\ parse'.args = parse.args
        /\ parse' \in [at : ParseStages, algo : Algos \cup {""}, args : ParseArgs \cup {{}}]
    BY <1>1, <1>2
  <1> QED BY <1>1, <1>2, <1>3

\* What the batch knows does not change while parse-logs.py runs.
LEMMA ParseLeavesBatch ==
    ASSUME BatchType, LogInv,
           UNCHANGED <<pc, algo, runs, pending, logs, packet_log, pcap, interrupted>>,
           parse' \in [at : ParseStages, algo : Algos \cup {""}, args : ParseArgs \cup {{}}],
           parse'.algo \in Algos, pc = "idle", csv' \in [Algos -> Tables]
    PROVE  BatchType' /\ LogInv'
  <1>1. BatchType'
    BY DEF BatchType, ParseStages
  <1>2. LogInv'
    BY DEF LogInv, LogOf, Hanging, E!Run
  <1> QED BY <1>1, <1>2

\* Steps that write no throughput.
LEMMA SeenStays ==
    ASSUME SeenInv, UNCHANGED <<pc, algo, runs, pending>>, pc # "move", runs \in Seq(Algos),
           \A a \in Algos : csv'[a].throughput = csv[a].throughput
    PROVE  SeenInv'
  <1>1. Hanging => runs[E!Run] \in Algos
    <2> SUFFICES ASSUME Hanging PROVE runs[E!Run] \in Algos
      OBVIOUS
    <2>1. E!Run \in 1 .. Len(runs)
      BY DEF Hanging, E!Run
    <2> QED BY <2>1, ElementOfSeq
  <1>2. E!Run' = E!Run /\ (Hanging' <=> Hanging)
    BY DEF Hanging, E!Run
  <1> QED BY <1>1, <1>2 DEF SeenInv

LEMMA NextParse ==
    ASSUME ExperimentInv, E!Parse
    PROVE  ExperimentInv'
  <1>0. /\ BatchType /\ LogInv /\ SeenInv /\ StageInv /\ E!Run \in Nat
        /\ csv \in [Algos -> Tables] /\ logs \in [Algos -> Logs] /\ runs \in Seq(Algos)
        /\ pcap \in [Algos -> SUBSET Nat]
    BY RunsLength DEF ExperimentInv, BatchType
  <1>s. /\ "pcap" \in ParseStages \ {"none"} /\ "packets" \in ParseStages \ {"none"}
        /\ "ss" \in ParseStages \ {"none"} /\ "done" \in ParseStages \ {"none"}
        /\ "ended" \in ParseStages \ {"none"}
        /\ "iperf" # "none" /\ "pcap" # "none" /\ "packets" # "none" /\ "ss" # "none"
    BY DEF ParseStages
  <1>1. ASSUME NEW a \in Algos, NEW args \in ParseArgs, E!start_parse(a, args)
        PROVE  ExperimentInv'
    <2>1. /\ parse' = [at |-> "iperf", algo |-> a, args |-> args] /\ pc = "idle"
          /\ UNCHANGED <<pc, algo, runs, pending, logs, packet_log, pcap, interrupted, csv>>
      BY <1>1 DEF E!start_parse, E!batch
    <2>2. /\ parse' \in [at : ParseStages, algo : Algos \cup {""}, args : ParseArgs \cup {{}}]
          /\ parse'.algo \in Algos /\ parse'.at = "iperf"
      BY <2>1 DEF ParseStages
    <2>3. BatchType' /\ LogInv'
      BY <1>0, <2>1, <2>2, ParseLeavesBatch
    <2>4. SeenInv'
      BY <1>0, <2>1, SeenStays
    <2>5. StageInv'
      BY <2>2 DEF StageInv
    <2> QED BY <2>3, <2>4, <2>5 DEF ExperimentInv
  <1>2. CASE E!fail
    <2>1. PICK from \in {"iperf", "packets", "ss"} : E!Step(from, "ended") /\ csv' = csv
      BY <1>2 DEF E!fail
    <2>2. /\ parse.at = from /\ parse'.at = "ended" /\ parse'.algo \in Algos
          /\ parse' \in [at : ParseStages, algo : Algos \cup {""}, args : ParseArgs \cup {{}}]
          /\ UNCHANGED <<pc, algo, runs, pending, logs, packet_log, pcap, interrupted>>
      BY <1>0, <1>s, <2>1, ParseStep
    <2>3. pc = "idle"
      BY <1>0, <2>2 DEF BatchType, Parsing
    <2>4. BatchType' /\ LogInv'
      BY <1>0, <2>1, <2>2, <2>3, ParseLeavesBatch
    <2>5. SeenInv'
      BY <1>0, <2>1, <2>2, <2>3, SeenStays
    <2>6. StageInv'
      BY <2>2 DEF StageInv
    <2> QED BY <2>4, <2>5, <2>6 DEF ExperimentInv
  <1> DEFINE b == parse.algo
  <1>3. CASE E!parse_iperf
    <2>1. /\ E!Step("iperf", "pcap")
          /\ csv' = IF logs[b].cl = {} THEN csv ELSE [csv EXCEPT ![b].throughput = logs[b].cl]
      BY <1>3 DEF E!parse_iperf
    <2>2. /\ parse.at = "iperf" /\ parse'.at = "pcap" /\ b \in Algos /\ parse'.algo = b
          /\ parse' \in [at : ParseStages, algo : Algos \cup {""}, args : ParseArgs \cup {{}}]
          /\ UNCHANGED <<pc, algo, runs, pending, logs, packet_log, pcap, interrupted>>
      BY <1>0, <1>s, <2>1, ParseStep
    <2>3. pc = "idle"
      BY <1>0, <2>2 DEF BatchType, Parsing
    <2> HIDE DEF b
    <2>4. CASE logs[b].cl = {}
      <3>1. csv' = csv
        BY <2>1, <2>4
      <3>2. BatchType' /\ LogInv'
        BY <1>0, <2>2, <2>3, <3>1, ParseLeavesBatch
      <3>3. SeenInv'
        BY <1>0, <2>2, <2>3, <3>1, SeenStays
      <3>4. StageInv'
        BY <2>2 DEF StageInv
      <3> QED BY <3>2, <3>3, <3>4 DEF ExperimentInv
    <2>5. CASE logs[b].cl # {}
      <3> DEFINE t == [csv[b] EXCEPT !.throughput = logs[b].cl]
      <3>1. csv[b] \in Tables /\ logs[b] \in Logs
        BY <1>0, <2>2
      <3>2. t \in Tables /\ t.throughput = logs[b].cl
        BY <3>1 DEF Tables, Logs
      <3>3. csv' = [csv EXCEPT ![b] = t]
        BY <1>0, <2>1, <2>2, <2>5
      <3> HIDE DEF t
      <3>4. /\ csv' \in [Algos -> Tables] /\ csv'[b] = t
            /\ \A a \in Algos : a # b => csv'[a] = csv[a]
        BY <1>0, <2>2, <3>2, <3>3
      <3>5. BatchType' /\ LogInv'
        BY <1>0, <2>2, <2>3, <3>4, ParseLeavesBatch
      <3>6. logs[b].cl \subseteq 1 .. E!Run
        BY <1>0, <2>2, <2>5 DEF LogInv, LogOf
      <3>7. \A a \in Algos : csv'[a].throughput \subseteq 1 .. E!Run
        BY <1>0, <3>2, <3>4, <3>6 DEF SeenInv
      <3>8. Hanging => runs[E!Run] # b /\ runs[E!Run] \in Algos
        <4> SUFFICES ASSUME Hanging PROVE runs[E!Run] # b /\ runs[E!Run] \in Algos
          OBVIOUS
        <4>1. E!Run \in 1 .. Len(runs)
          BY <1>0 DEF Hanging, E!Run
        <4>2. runs[E!Run] \in Algos
          BY <1>0, <4>1, ElementOfSeq
        <4>3. logs[runs[E!Run]].cl = {}
          BY <1>0 DEF LogInv
        <4> QED BY <2>5, <4>2, <4>3
      <3>9. E!Run' = E!Run /\ (Hanging' <=> Hanging)
        BY <2>2 DEF Hanging, E!Run
      <3>10. SeenInv'
        BY <1>0, <2>2, <2>3, <3>4, <3>7, <3>8, <3>9 DEF SeenInv
      <3>11. StageInv'
        BY <2>2 DEF StageInv
      <3> QED BY <3>5, <3>10, <3>11 DEF ExperimentInv
    <2> QED BY <2>4, <2>5
  <1>4. CASE E!run_tshark
    <2>1. /\ \E to \in {"packets", "ended"} : E!Step("pcap", to)
          /\ \/ E!Step("pcap", "packets") /\ ~parse.args.pcap /\ csv' = csv
             \/ E!Step("pcap", "packets") /\ csv' = [csv EXCEPT ![b].packets = pcap[b]]
             \/ E!Step("pcap", "ended") /\ csv' = [csv EXCEPT ![b].packets = {}]
      BY <1>4 DEF E!run_tshark
    <2>2. /\ parse.at = "pcap" /\ b \in Algos /\ parse'.algo = b /\ parse'.args = parse.args
          /\ parse' \in [at : ParseStages, algo : Algos \cup {""}, args : ParseArgs \cup {{}}]
          /\ UNCHANGED <<pc, algo, runs, pending, logs, packet_log, pcap, interrupted>>
      BY <1>0, <1>s, <2>1, ParseStep
    <2>3. pc = "idle"
      BY <1>0, <2>2 DEF BatchType, Parsing
    <2>4. /\ E!Step("pcap", "packets") => parse'.at = "packets"
          /\ E!Step("pcap", "ended") => parse'.at = "ended"
      BY <1>0, <1>s, ParseStep
    <2> HIDE DEF b
    <2>5. /\ csv' \in [Algos -> Tables]
          /\ \A a \in Algos : csv'[a].throughput = csv[a].throughput
          /\ parse'.at = "packets" /\ parse'.args.pcap => csv'[b].packets = pcap[b]
          /\ parse'.at \in {"packets", "ended"}
      <3>1. ASSUME NEW x \in SUBSET Nat, csv' = [csv EXCEPT ![b].packets = x]
            PROVE  /\ csv' \in [Algos -> Tables] /\ csv'[b].packets = x
                   /\ \A a \in Algos : csv'[a].throughput = csv[a].throughput
        <4> DEFINE t == [csv[b] EXCEPT !.packets = x]
        <4>1. csv[b] \in Tables
          BY <1>0, <2>2
        <4>2. t \in Tables /\ t.packets = x /\ t.throughput = csv[b].throughput
          BY <4>1 DEF Tables
        <4>3. csv' = [csv EXCEPT ![b] = t]
          BY <1>0, <2>2, <3>1
        <4> HIDE DEF t
        <4> QED BY <1>0, <2>2, <4>2, <4>3
      <3>2. pcap[b] \in SUBSET Nat
        BY <1>0, <2>2
      <3>3. CASE E!Step("pcap", "packets") /\ ~parse.args.pcap /\ csv' = csv
        BY <1>0, <2>2, <2>4, <3>3
      <3>4. CASE E!Step("pcap", "packets") /\ csv' = [csv EXCEPT ![b].packets = pcap[b]]
        BY <2>4, <3>1, <3>2, <3>4
      <3>5. CASE E!Step("pcap", "ended") /\ csv' = [csv EXCEPT ![b].packets = {}]
        <4>1. {} \in SUBSET Nat /\ parse'.at = "ended"
          BY <2>4, <3>5
        <4> QED BY <3>1, <3>5, <4>1
      <3> QED BY <2>1, <3>3, <3>4, <3>5
    <2>6. BatchType' /\ LogInv'
      BY <1>0, <2>2, <2>3, <2>5, ParseLeavesBatch
    <2>7. SeenInv'
      BY <1>0, <2>2, <2>3, <2>5, SeenStays
    <2>8. StageInv'
      BY <2>2, <2>5 DEF StageInv
    <2> QED BY <2>6, <2>7, <2>8 DEF ExperimentInv
  <1>5. CASE E!parse_packets
    <2>1. \/ E!Step("packets", "ss") /\ ~E!both_logs /\ csv' = csv
          \/ E!Step("packets", "ended") /\ csv' = csv
          \/ /\ E!Step("packets", "ss")
             /\ csv' = [csv EXCEPT ![b].transit = logs[b].cap \cup csv[b].packets]
      BY <1>5 DEF E!parse_packets, E!exits
    <2>2. /\ parse.at = "packets" /\ b \in Algos /\ parse'.algo = b /\ parse'.args = parse.args
          /\ parse' \in [at : ParseStages, algo : Algos \cup {""}, args : ParseArgs \cup {{}}]
          /\ UNCHANGED <<pc, algo, runs, pending, logs, packet_log, pcap, interrupted>>
      BY <1>0, <1>s, <2>1, ParseStep
    <2>3. pc = "idle"
      BY <1>0, <2>2 DEF BatchType, Parsing
    <2>4. /\ E!Step("packets", "ss") => parse'.at = "ss"
          /\ E!Step("packets", "ended") => parse'.at = "ended"
      BY <1>0, <1>s, ParseStep
    <2>5. parse.args.pcap => csv[b].packets = pcap[b]
      BY <1>0, <2>2 DEF StageInv
    <2> HIDE DEF b
    <2>6. /\ csv' \in [Algos -> Tables]
          /\ \A a \in Algos : csv'[a].throughput = csv[a].throughput
          /\ parse'.at = "ss" /\ parse'.args.pcap /\ parse'.args.server =>
                csv'[b].transit = logs[b].cap \cup pcap[b]
          /\ parse'.at \in {"ss", "ended"}
      <3>1. CASE E!Step("packets", "ss") /\ ~E!both_logs /\ csv' = csv
        BY <1>0, <2>2, <2>4, <3>1 DEF E!both_logs
      <3>2. CASE E!Step("packets", "ended") /\ csv' = csv
        BY <1>0, <2>4, <3>2
      <3>3. CASE /\ E!Step("packets", "ss")
                 /\ csv' = [csv EXCEPT ![b].transit = logs[b].cap \cup csv[b].packets]
        <4> DEFINE x == logs[b].cap \cup csv[b].packets
                   t == [csv[b] EXCEPT !.transit = x]
        <4>1. csv[b] \in Tables /\ logs[b] \in Logs
          BY <1>0, <2>2
        <4>2. x \in SUBSET Nat
          BY <4>1 DEF Tables, Logs
        <4>3. csv' = [csv EXCEPT ![b] = t]
          BY <1>0, <2>2, <3>3
        <4>4. parse.args.pcap => x = logs[b].cap \cup pcap[b]
          BY <2>5
        <4> HIDE DEF x
        <4>5. t \in Tables /\ t.transit = x /\ t.throughput = csv[b].throughput
          BY <4>1, <4>2 DEF Tables
        <4> HIDE DEF t
        <4>6. /\ csv' \in [Algos -> Tables] /\ csv'[b].transit = x
              /\ \A a \in Algos : csv'[a].throughput = csv[a].throughput
          BY <1>0, <2>2, <4>3, <4>5
        <4>7. parse'.at = "ss" /\ parse'.args = parse.args
          BY <2>2, <2>4, <3>3
        <4> QED BY <4>4, <4>6, <4>7
      <3> QED BY <2>1, <3>1, <3>2, <3>3
    <2>7. BatchType' /\ LogInv'
      BY <1>0, <2>2, <2>3, <2>6, ParseLeavesBatch
    <2>8. SeenInv'
      BY <1>0, <2>2, <2>3, <2>6, SeenStays
    <2>9. StageInv'
      BY <2>2, <2>6 DEF StageInv
    <2> QED BY <2>7, <2>8, <2>9 DEF ExperimentInv
  <1>6. CASE E!write_ss
    <2> DEFINE wanted == parse.args.ss /\ b = "bbr"
    <2>1. /\ E!Step("ss", "done")
          /\ csv' = IF wanted THEN [csv EXCEPT ![b].ss = logs[b].ss] ELSE csv
      BY <1>6 DEF E!write_ss
    <2>2. /\ parse.at = "ss" /\ b \in Algos /\ parse'.algo = b /\ parse'.args = parse.args
          /\ parse'.at = "done"
          /\ parse' \in [at : ParseStages, algo : Algos \cup {""}, args : ParseArgs \cup {{}}]
          /\ UNCHANGED <<pc, algo, runs, pending, logs, packet_log, pcap, interrupted>>
      BY <1>0, <1>s, <2>1, ParseStep
    <2>3. pc = "idle"
      BY <1>0, <2>2 DEF BatchType, Parsing
    <2>4. parse.args.pcap /\ parse.args.server => csv[b].transit = logs[b].cap \cup pcap[b]
      BY <1>0, <2>2 DEF StageInv
    <2> HIDE DEF b
    <2>5. /\ csv' \in [Algos -> Tables]
          /\ \A a \in Algos : csv'[a].throughput = csv[a].throughput
                              /\ csv'[a].transit = csv[a].transit
          /\ wanted => csv'[b].ss = logs[b].ss
      <3> DEFINE t == [csv[b] EXCEPT !.ss = logs[b].ss]
      <3>1. csv[b] \in Tables /\ logs[b] \in Logs
        BY <1>0, <2>2
      <3>2. /\ t \in Tables /\ t.ss = logs[b].ss /\ t.throughput = csv[b].throughput
            /\ t.transit = csv[b].transit
        BY <3>1 DEF Tables, Logs
      <3>3. wanted => csv' = [csv EXCEPT ![b] = t]
        BY <1>0, <2>1, <2>2
      <3> HIDE DEF t
      <3>4. CASE wanted
        BY <1>0, <2>2, <3>2, <3>3, <3>4
      <3>5. CASE ~wanted
        BY <1>0, <2>1, <3>5
      <3> QED BY <3>4, <3>5
    <2>6. BatchType' /\ LogInv'
      BY <1>0, <2>2, <2>3, <2>5, ParseLeavesBatch
    <2>7. SeenInv'
      BY <1>0, <2>2, <2>3, <2>5, SeenStays
    <2>8. StageInv'
      <3> SUFFICES ASSUME b = "bbr", parse.args.pcap, parse.args.server, parse.args.ss,
                          b \notin interrupted, pcap[b] = logs[b].cap,
                          csv[b].throughput = logs[b].cl, logs[b].cl # {}
                   PROVE  csv[b].transit = csv[b].throughput /\ csv'[b].ss = csv[b].throughput
        BY <2>2, <2>5 DEF StageInv, UpToDate
      <3>1. logs[b].cl = logs[b].ss /\ logs[b].cap = logs[b].ss
        BY <1>0, <2>2, <2>3 DEF LogInv, LogOf
      <3> QED BY <2>4, <2>5, <3>1
    <2> QED BY <2>6, <2>7, <2>8 DEF ExperimentInv
  <1> QED BY <1>1, <1>2, <1>3, <1>4, <1>5, <1>6 DEF E!Parse

LEMMA NextExperiment ==
    ASSUME ExperimentInv, [E!Next]_<<pc, run_vars>>
    PROVE  ExperimentInv'
  <1>1. CASE UNCHANGED <<pc, run_vars>>
    BY <1>1, QuietStep DEF run_vars
  <1> QED BY <1>1, NextBatch, NextParse DEF E!Next

LEMMA ExperimentPart ==
    ASSUME [Next]_vars
    PROVE  part' = part /\ (part = "experiment" => [E!Next]_<<pc, run_vars>>)
  BY DEF Next, vars, run_packet_metrics, run_metrics, run_ss_log, run_trace_tools,
         run_experiment, run_net_setup

LEMMA ExperimentStart ==
    ASSUME E!Init
    PROVE  ExperimentInv
  <1>1. /\ pc = "idle" /\ runs = <<>> /\ pending = {} /\ packet_log = {} /\ interrupted = {}
        /\ logs = [a \in Algos |-> [cl |-> {}, sv |-> {}, ss |-> {}, cap |-> {}]]
        /\ pcap = [a \in Algos |-> {}]
        /\ parse = [at |-> "none", algo |-> "", args |-> {}]
        /\ csv = [a \in Algos |-> [throughput |-> {}, packets |-> {}, transit |-> {}, ss |-> {}]]
    BY DEF E!Init
  <1>2. E!Run = 0 /\ runs \in Seq(Algos)
    <2>1. runs = <<>>
      BY <1>1
    <2>2. <<>> \in Seq(Algos) /\ Len(<<>>) = 0
      OBVIOUS
    <2> QED BY <2>1, <2>2 DEF E!Run
  <1>3. BatchType
    <2>1. logs \in [Algos -> Logs] /\ csv \in [Algos -> Tables] /\ pcap \in [Algos -> SUBSET Nat]
      BY <1>1 DEF Logs, Tables
    <2>2. /\ parse \in [at : {"none", "iperf", "pcap", "packets", "ss", "done", "ended"},
                        algo : Algos \cup {""}, args : ParseArgs \cup {{}}]
          /\ parse.at = "none"
      BY <1>1
    <2> QED BY <1>1, <1>2, <2>1, <2>2 DEF BatchType, Parsing
  <1>4. LogInv
    BY <1>1, <1>2 DEF LogInv, LogOf, Hanging
  <1>5. SeenInv
    BY <1>1, <1>2 DEF SeenInv, Hanging
  <1>6. StageInv
    BY <1>1 DEF StageInv
  <1> QED BY <1>3, <1>4, <1>5, <1>6 DEF ExperimentInv

\* For every set of algorithms and every number of runs, whatever the operator
\* interrupts, kills, edits or forgets: the logs of batch_run_iperf3.sh are of
\* one run, the capture too if the run was not interrupted, and so are the tables
\* of a parse-logs.py that comes to its end with all options, if the run was
\* captured, was not interrupted and had ended.
THEOREM RunsApart == Spec => []RunsKeptApart
  <1> DEFINE Inv == part = "experiment" => ExperimentInv
  <1>1. Init => Inv
    BY ExperimentStart DEF Init
  <1>2. Inv /\ [Next]_vars => Inv'
    BY ExperimentPart, NextExperiment
  <1>3. Inv => RunsKeptApart
    <2> SUFFICES ASSUME ExperimentInv PROVE E!LogsOfOneRun /\ E!FullParseOfOneRun
      BY DEF RunsKeptApart
    <2>0. LogInv /\ StageInv
      BY DEF ExperimentInv
    <2>1. E!LogsOfOneRun
      <3> SUFFICES ASSUME NEW a \in Algos
                   PROVE  /\ \A r, s \in logs[a].cl \cup logs[a].sv \cup logs[a].ss : r = s
                          /\ logs[a].cl # {} /\ a \notin interrupted
                             /\ ~(pc = "move" /\ a = algo) => logs[a].cap = logs[a].cl
        BY DEF E!LogsOfOneRun
      <3>1. LogOf(a)
        BY <2>0 DEF LogInv
      <3> QED BY <3>1 DEF LogOf
    <2>2. E!FullParseOfOneRun
      BY <2>0 DEF E!FullParseOfOneRun, StageInv, UpToDate
    <2> QED BY <2>1, <2>2
  <1> QED BY <1>1, <1>2, <1>3, PTL DEF Spec

-----------------------------------------------------------------------------
(* old_fix.py and generate_input.py. *)

\* The types of the rows are names, or none is.
Uniform(t) == T!Named(t) \/ \A k \in DOMAIN t : t[k].name \in {"", "blank"}

\* The input was generated from the source, whose rows have names.
Generated ==
    /\ source \in Seq(TraceRows) /\ T!Named(source)
    /\ T!first_init(source) > 0 /\ input = T!generated(source)

TraceInv ==
    /\ suffixed \in BOOLEAN /\ old \in OldTraces
    /\ trace # NoFile => trace \in Seq(TraceRows) /\ Uniform(trace)
    /\ ~suffixed => trace # NoFile
    /\ T!OnlyThirdRowLost
    /\ suffixed /\ trace # NoFile => Len(old) >= 3
    /\ input # NoFile => Generated

\* A set of natural numbers that is not empty has a least element.
LEMMA LeastNumber ==
    ASSUME NEW W, W \subseteq Nat, W # {}
    PROVE  T!Min(W) \in W /\ \A y \in W : T!Min(W) <= y
  <1>1. \E x \in W : \A y \in W : ~(<<y, x>> \in OpToRel(<, Nat))
    BY WFMin, NatLessThanWellFounded
  <1>2. \E x \in W : \A y \in W : x <= y
    <2>1. PICK x \in W : \A y \in W : ~(<<y, x>> \in OpToRel(<, Nat))
      BY <1>1
    <2>2. ASSUME NEW y \in W PROVE x <= y
      <3>1. ~(y < x)
        BY <2>1, <2>2 DEF OpToRel
      <3> QED BY <3>1
    <2> QED BY <2>2
  <1> QED BY <1>2 DEF T!Min

\* What is left of a trace without its third row.
LEMMA ThirdRemoved ==
    ASSUME NEW t \in Seq(TraceRows), Len(t) >= 3, NEW u, u = T!RemoveAt(t, 3)
    PROVE  /\ u \in Seq(TraceRows) /\ Len(u) = Len(t) - 1
           /\ \A k \in 1 .. Len(u) : u[k] = t[IF k <= 2 THEN k ELSE k + 1]
           /\ Uniform(t) => Uniform(u)
  <1>1. PICK h \in Nat : h = Len(t) /\ h >= 3
    BY LenProperties
  <1>2. PICK p, q : p = SubSeq(t, 1, 2) /\ q = SubSeq(t, 4, h)
    OBVIOUS
  <1>3. p \in Seq(TraceRows) /\ Len(p) = 2 /\ \A k \in 1 .. 2 : p[k] = t[k]
    BY <1>1, <1>2
  <1>4. q \in Seq(TraceRows) /\ Len(q) = h - 3 /\ \A k \in 1 .. h - 3 : q[k] = t[k + 3]
    BY <1>1, <1>2
  <1>5. u = p \o q
    BY <1>1, <1>2 DEF T!RemoveAt
  <1>5a. PICK x \in Nat, y \in Nat : x = 2 /\ y = h - 3
    <2>1. 2 \in Nat /\ h - 3 \in Nat
      BY <1>1
    <2> QED BY <2>1
  <1>5b. /\ u \in Seq(TraceRows) /\ Len(u) = x + y
        /\ \A i \in 1 .. x + y : u[i] = IF i <= x THEN p[i] ELSE q[i - x]
    <2>1. p \in Seq(TraceRows) /\ q \in Seq(TraceRows) /\ x = Len(p) /\ y = Len(q)
      BY <1>3, <1>4, <1>5a
    <2>2. /\ p \o q \in Seq(TraceRows) /\ Len(p \o q) = Len(p) + Len(q)
          /\ \A i \in 1 .. Len(p) + Len(q) :
                (p \o q)[i] = IF i <= Len(p) THEN p[i] ELSE q[i - Len(p)]
      BY <2>1, ConcatProperties
    <2> QED BY <1>5, <2>1, <2>2
  <1>6. u \in Seq(TraceRows) /\ Len(u) = h - 1
    BY <1>5b, <1>5a
  <1>7. ASSUME NEW k \in 1 .. h - 1 PROVE u[k] = t[IF k <= 2 THEN k ELSE k + 1]
    <2>0. k \in 1 .. x + y
      BY <1>5a
    <2>1. CASE k <= 2
      BY <1>3, <1>5b, <1>5a, <2>0, <2>1
    <2>2. CASE ~(k <= 2)
      <3>1. u[k] = q[k - 2] /\ k - 2 \in 1 .. h - 3 /\ (k - 2) + 3 = k + 1
        BY <1>5b, <1>5a, <2>0, <2>2
      <3> QED BY <1>4, <2>2, <3>1
    <2> QED BY <2>1, <2>2
  <1>8. DOMAIN t = 1 .. h /\ DOMAIN u = 1 .. h - 1
    BY <1>1, <1>6
  <1>9. \A k \in DOMAIN u : \E j \in DOMAIN t : u[k] = t[j]
    <2> SUFFICES ASSUME NEW k \in DOMAIN u PROVE \E j \in DOMAIN t : u[k] = t[j]
      OBVIOUS
    <2>1. k \in 1 .. h - 1 /\ (IF k <= 2 THEN k ELSE k + 1) \in 1 .. h
      BY <1>1, <1>8
    <2> QED BY <1>7, <1>8, <2>1
  <1>10. Uniform(t) => Uniform(u)
    BY <1>9 DEF Uniform, T!Named
  <1> QED BY <1>1, <1>6, <1>7, <1>10

\* mod_cmd converts all rows or none, and leaves their other fields alone.
LEMMA Converted ==
    ASSUME NEW t \in Seq(TraceRows), Uniform(t), NEW u, u = T!all_or_nothing(t)
    PROVE  /\ u \in Seq(TraceRows) /\ Len(u) = Len(t) /\ Uniform(u)
           /\ \A k \in 1 .. Len(t) : u[k].end = t[k].end
  <1>1. CASE ~\A k \in DOMAIN t : T!in_list(t[k])
    BY <1>1 DEF T!all_or_nothing
  <1>2. CASE \A k \in DOMAIN t : T!in_list(t[k])
    <2>1. u = [k \in DOMAIN t |-> T!mapped(t[k])]
      BY <1>2 DEF T!all_or_nothing
    <2>2. DOMAIN t = 1 .. Len(t) /\ Len(t) \in Nat
      OBVIOUS
    <2>3. ASSUME NEW k \in DOMAIN t
          PROVE  /\ T!mapped(t[k]) \in TraceRows /\ T!mapped(t[k]).number = NoNumber
                 /\ T!mapped(t[k]).end = t[k].end
      <3>1. t[k] \in TraceRows /\ t[k].number \in -8 .. 7
        BY <1>2, <2>2 DEF T!in_list
      <3>2. PICK j \in 1 .. 8 : j = IF t[k].number < 0 THEN t[k].number + 9 ELSE t[k].number + 1
        BY <3>1
      <3>3. T!cmd_mappings[j] \in TraceNames
        BY DEF TraceNames
      <3>4. T!mapped(t[k]) = [t[k] EXCEPT !.number = NoNumber, !.name = T!cmd_mappings[j]]
        BY <3>2 DEF T!mapped
      <3> QED BY <3>1, <3>3, <3>4 DEF TraceRows
    <2>4. u \in Seq(TraceRows) /\ Len(u) = Len(t)
      BY <2>1, <2>2, <2>3
    <2>5. T!Named(u)
      BY <2>1, <2>3 DEF T!Named
    <2> QED BY <2>1, <2>2, <2>3, <2>4, <2>5 DEF Uniform
  <1> QED BY <1>1, <1>2

\* The row that first_init finds.
LEMMA FirstInit ==
    ASSUME NEW t \in Seq(TraceRows), T!first_init(t) > 0
    PROVE  T!first_init(t) \in 1 .. Len(t) /\ t[T!first_init(t)].name = "INIT"
  <1> DEFINE inits == {k \in DOMAIN t : t[k].name = "INIT"}
  <1>1. DOMAIN t = 1 .. Len(t) /\ Len(t) \in Nat
    OBVIOUS
  <1>2. inits # {} /\ T!first_init(t) = T!Min(inits)
    BY DEF T!first_init
  <1>3. inits \subseteq Nat
    BY <1>1
  <1>4. T!Min(inits) \in inits
    BY <1>2, <1>3, LeastNumber
  <1> QED BY <1>1, <1>2, <1>4

\* The ends of the rows are numbers, and a command is a row.
LEMMA RowEnds ==
    ASSUME NEW t \in Seq(TraceRows)
    PROVE  \A k \in 1 .. Len(t) : t[k].end \in Int
  <1>1. \A k \in 1 .. Len(t) : t[k] \in TraceRows
    OBVIOUS
  <1>2. \A r \in TraceRows : r.end \in Int
    BY DEF TraceRows
  <1> QED BY <1>1, <1>2

LEMMA CommandRow ==
    ASSUME NEW x \in Int, NEW y \in Int, NEW z \in {"iperf3", "monitor"}
    PROVE  T!Cmd(z, y, x) \in TraceRows
  <1>1. "CMD" \in TraceNames
    <2>1. T!cmd_mappings[2] = "CMD" /\ 2 \in 1 .. 8
      BY DEF T!cmd_mappings
    <2> QED BY <2>1 DEF TraceNames
  <1>2. NoNumber \in Int \cup {NoNumber}
    OBVIOUS
  <1> QED BY <1>1, <1>2 DEF TraceRows, T!Cmd

\* The commands follow the rows of the trace.
LEMMA CommandsAppended ==
    ASSUME NEW t \in Seq(TraceRows), T!first_init(t) > 0, NEW g, g = T!generated(t)
    PROVE  \E h \in Nat, e \in Int :
              /\ h = Len(t) /\ e = T!cut_to_seconds(t[T!first_init(t)].end)
              /\ g \in Seq(TraceRows) /\ Len(g) = h + 2
              /\ \A k \in 1 .. h : g[k] = t[k]
              /\ g[h + 1] = T!Cmd("iperf3", 2000, e) /\ g[h + 2] = T!Cmd("monitor", 1000, e + 1)
  <1>1. PICK f \in 1 .. Len(t) : f = T!first_init(t) /\ t[f].end \in Int
    <2>1. T!first_init(t) \in 1 .. Len(t)
      BY FirstInit
    <2>2. t[T!first_init(t)] \in TraceRows
      BY <2>1
    <2> QED BY <2>1, <2>2 DEF TraceRows
  <1>2. PICK h \in Nat, e \in Int : h = Len(t) /\ e = T!cut_to_seconds(t[f].end)
    BY <1>1 DEF T!cut_to_seconds
  <1>3. PICK c1, c2 : c1 = T!Cmd("iperf3", 2000, e) /\ c2 = T!Cmd("monitor", 1000, e + 1)
    OBVIOUS
  <1>4. c1 \in TraceRows /\ c2 \in TraceRows
    <2>1. e + 1 \in Int /\ 2000 \in Int /\ 1000 \in Int
      OBVIOUS
    <2> QED BY <2>1, <1>3, CommandRow
  <1>5. g = t \o <<c1, c2>>
    BY <1>1, <1>2, <1>3 DEF T!generated
  <1>6. /\ g \in Seq(TraceRows) /\ Len(g) = h + 2 /\ \A k \in 1 .. h : g[k] = t[k]
        /\ g[h + 1] = c1 /\ g[h + 2] = c2
    BY <1>2, <1>4, <1>5
  <1> QED BY <1>1, <1>2, <1>3, <1>6


LEMMA TraceStart ==
    ASSUME T!Init
    PROVE  TraceInv
  <1>1. /\ suffixed \in BOOLEAN /\ old \in OldTraces /\ input = NoFile
        /\ suffixed => trace = NoFile
        /\ ~suffixed => trace = old
    BY DEF T!Init
  <1>2. old \in Seq(TraceRows) /\ Uniform(old) /\ old # NoFile
    BY <1>1, OldTracesAssumption DEF Uniform
  <1> QED BY <1>1, <1>2 DEF TraceInv, T!OnlyThirdRowLost

\* mod_cmd.
LEMMA ModCmd ==
    ASSUME TraceInv, T!mod_cmd
    PROVE  TraceInv'
  <1>1. /\ trace # NoFile /\ trace' = T!all_or_nothing(trace)
        /\ UNCHANGED <<suffixed, old, input, source>>
    BY DEF T!mod_cmd
  <1>2. trace \in Seq(TraceRows) /\ Uniform(trace)
    BY <1>1 DEF TraceInv
  <1>3. /\ trace' \in Seq(TraceRows) /\ Len(trace') = Len(trace) /\ Uniform(trace')
        /\ \A k \in 1 .. Len(trace) : trace'[k].end = trace[k].end
    BY <1>1, <1>2, Converted
  <1>4. trace' # NoFile
    BY <1>3, OldTracesAssumption
  <1>5. T!OnlyThirdRowLost'
    <2>1. DOMAIN trace = 1 .. Len(trace) /\ DOMAIN trace' = 1 .. Len(trace)
      BY <1>2, <1>3
    <2>2. T!OnlyThirdRowLost
      BY DEF TraceInv
    <2> QED BY <1>1, <1>3, <2>1, <2>2 DEF T!OnlyThirdRowLost
  <1>6. (input # NoFile => Generated) => (input' # NoFile => Generated')
    BY <1>1 DEF Generated
  <1> QED BY <1>1, <1>3, <1>4, <1>5, <1>6 DEF TraceInv

\* write_to_new_file.
LEMMA WriteToNewFile ==
    ASSUME TraceInv, T!write_to_new_file
    PROVE  TraceInv'
  <1>1. /\ Len(T!file_by_name) >= 3 /\ trace' = T!RemoveAt(T!file_by_name, 3)
        /\ UNCHANGED <<suffixed, old, input, source>>
    BY DEF T!write_to_new_file
  <1>2. old \in Seq(TraceRows) /\ Uniform(old)
    BY OldTracesAssumption DEF TraceInv, Uniform
  <1>3. PICK t : t = T!file_by_name
    OBVIOUS
  <1>4. t \in Seq(TraceRows) /\ Uniform(t) /\ (suffixed => t = old)
    BY <1>2, <1>3 DEF TraceInv, T!file_by_name
  <1>5. trace' \in Seq(TraceRows) /\ Len(trace') = Len(t) - 1 /\ Uniform(trace')
    BY <1>1, <1>3, <1>4, ThirdRemoved
  <1>6. trace' # NoFile
    BY <1>5, OldTracesAssumption
  <1>7. T!OnlyThirdRowLost'
    <2>1. suffixed => trace' = T!RemoveAt(old, 3) /\ Len(trace') = Len(old) - 1
      BY <1>1, <1>3, <1>4, <1>5
    <2> QED BY <1>1, <2>1 DEF T!OnlyThirdRowLost
  <1>8. (input # NoFile => Generated) => (input' # NoFile => Generated')
    BY <1>1 DEF Generated
  <1>9. suffixed' => Len(old') >= 3
    BY <1>1, <1>3, <1>4
  <1> QED BY <1>1, <1>5, <1>6, <1>7, <1>8, <1>9 DEF TraceInv

\* generate_trace: a trace with an INIT row has names.
LEMMA GenerateTrace ==
    ASSUME TraceInv, T!generate_trace
    PROVE  TraceInv'
  <1>1. trace # NoFile /\ UNCHANGED <<suffixed, old, trace>>
    BY DEF T!generate_trace
  <1>2. trace \in Seq(TraceRows) /\ Uniform(trace)
    BY <1>1 DEF TraceInv
  <1>3. input' # NoFile => Generated'
    <2>1. CASE T!first_init(trace) > 0 /\ input' = T!generated(trace) /\ source' = trace
      <3>1. T!first_init(trace) \in 1 .. Len(trace) /\ trace[T!first_init(trace)].name = "INIT"
        BY <1>2, <2>1, FirstInit
      <3>2. DOMAIN trace = 1 .. Len(trace)
        BY <1>2
      <3>3. T!Named(trace)
        BY <1>2, <3>1, <3>2 DEF Uniform
      <3>4. PICK t : t = trace
        OBVIOUS
      <3>5. /\ t \in Seq(TraceRows) /\ T!Named(t) /\ T!first_init(t) > 0
            /\ input' = T!generated(t) /\ source' = t
        BY <1>2, <2>1, <3>3, <3>4
      <3> QED BY <3>5 DEF Generated
    <2>2. CASE UNCHANGED <<input, source>>
      BY <2>2 DEF Generated, TraceInv
    <2> QED BY <2>1, <2>2 DEF T!generate_trace
  <1>4. T!OnlyThirdRowLost'
    <2>1. T!OnlyThirdRowLost
      BY DEF TraceInv
    <2> QED BY <1>1, <2>1 DEF T!OnlyThirdRowLost
  <1> QED BY <1>1, <1>2, <1>3, <1>4 DEF TraceInv

LEMMA NextTrace ==
    ASSUME TraceInv, [T!Next]_<<input, trace_vars>>
    PROVE  TraceInv'
  <1>1. CASE UNCHANGED <<input, trace_vars>>
    <2>1. UNCHANGED <<input, suffixed, old, trace, source>>
      BY <1>1 DEF trace_vars
    <2> QED BY <2>1 DEF TraceInv, Generated, T!OnlyThirdRowLost
  <1> QED BY <1>1, ModCmd, WriteToNewFile, GenerateTrace DEF T!Next

LEMMA TracePart ==
    ASSUME [Next]_vars
    PROVE  part' = part /\ (part = "trace_tools" => [T!Next]_<<input, trace_vars>>)
  BY DEF Next, vars, run_packet_metrics, run_metrics, run_ss_log, run_trace_tools,
         run_experiment, run_net_setup

\* The commands that are appended end in time.
LEMMA InTime ==
    ASSUME TraceInv
    PROVE  T!CommandsFitTheRun
  <1> SUFFICES ASSUME input # NoFile, source[T!first_init(source)].end >= 6000,
                      \A k \in DOMAIN source :
                         source[k].name = "INIT" => source[T!first_init(source)].end <= source[k].end
               PROVE  /\ \A k \in DOMAIN source :
                            source[k].name = "INIT" => T!Ends("iperf3") + 3000 <= source[k].end
                      /\ T!Ends("monitor") >= T!Ends("iperf3")
                      /\ T!Command("iperf3").end > 0
    BY DEF T!CommandsFitTheRun
  <1>1. source \in Seq(TraceRows) /\ T!first_init(source) > 0 /\ input = T!generated(source)
    BY DEF TraceInv, Generated
  <1>2. PICK h \in Nat, e \in Int :
           /\ e = T!cut_to_seconds(source[T!first_init(source)].end)
           /\ input \in Seq(TraceRows) /\ Len(input) = h + 2
           /\ input[h + 1] = T!Cmd("iperf3", 2000, e) /\ input[h + 2] = T!Cmd("monitor", 1000, e + 1)
    BY <1>1, CommandsAppended
  <1>3. PICK x \in Int : x = source[T!first_init(source)].end /\ x >= 6000
    <2>1. T!first_init(source) \in 1 .. Len(source)
      BY <1>1, FirstInit
    <2>2. source[T!first_init(source)].end \in Int
      BY <1>1, <2>1, RowEnds
    <2> QED BY <2>2
  <1>4. e = (x - 5000) \div 1000
    BY <1>2, <1>3 DEF T!cut_to_seconds
  <1>5. e > 0 /\ 1000 * e <= x - 5000
    BY <1>3, <1>4
  <1>6. /\ T!Command("iperf3") = T!Cmd("iperf3", 2000, e)
        /\ T!Command("monitor") = T!Cmd("monitor", 1000, e + 1)
    <2>1. PICK c1, c2 : c1 = T!Cmd("iperf3", 2000, e) /\ c2 = T!Cmd("monitor", 1000, e + 1)
      OBVIOUS
    <2>2. c1.program = "iperf3" /\ c2.program = "monitor"
      BY <2>1 DEF T!Cmd
    <2>3. T!Range(SubSeq(input, Len(input) - 1, Len(input))) = {c1, c2}
      <3> DEFINE s == SubSeq(input, h + 1, h + 2)
      <3>2. Len(s) = 2 /\ s \in Seq(TraceRows) /\ s[1] = input[h + 1] /\ s[2] = input[h + 2]
        BY <1>2
      <3> HIDE DEF s
      <3>3. DOMAIN s = {1, 2}
        BY <3>2
      <3>4. Len(input) - 1 = h + 1 /\ Len(input) = h + 2
        BY <1>2
      <3>5. T!Range(s) = {c1, c2}
        BY <1>2, <2>1, <3>2, <3>3 DEF T!Range
      <3> QED BY <3>4, <3>5 DEF s
    <2>4. T!Command("iperf3") = c1 /\ T!Command("monitor") = c2
      BY <2>2, <2>3 DEF T!Command
    <2> QED BY <2>1, <2>4
  <1>7. /\ T!Command("iperf3").end = e /\ T!Command("monitor").end = e + 1
        /\ T!Ends("iperf3") = 2000 + 1000 * e /\ T!Ends("monitor") = 1000 + 1000 * (e + 1)
    BY <1>6 DEF T!Ends, T!Cmd
  <1>8. ASSUME NEW k \in DOMAIN source, source[k].name = "INIT"
        PROVE  T!Ends("iperf3") + 3000 <= source[k].end
    <2>1. source[k].end \in Int
      <3>1. k \in 1 .. Len(source)
        BY <1>1
      <3> QED BY <1>1, <3>1, RowEnds
    <2>2. x <= source[k].end
      BY <1>3, <1>8
    <2> QED BY <1>5, <1>7, <2>1, <2>2
  <1> QED BY <1>5, <1>7, <1>8

\* For every trace: old_fix.py and generate_input.py, run in any order and as often
\* as one likes, convert all of its rows or none, lose no row but the third if the
\* trace has the suffix "-c.csv", and append commands to it that are over before the
\* queues are torn down.
THEOREM TracesWhole == Spec => []TracesStayWhole
  <1> DEFINE Inv == part = "trace_tools" => TraceInv
  <1>1. Init => Inv
    BY TraceStart DEF Init
  <1>2. Inv /\ [Next]_vars => Inv'
    BY TracePart, NextTrace
  <1>3. Inv => TracesStayWhole
    <2> SUFFICES ASSUME TraceInv
                 PROVE  T!NeverHalfConverted /\ T!OnlyThirdRowLost /\ T!CommandsFitTheRun
      BY DEF TracesStayWhole
    <2>1. input # NoFile => T!Named(input)
      <3> SUFFICES ASSUME input # NoFile PROVE T!Named(input)
        OBVIOUS
      <3>1. /\ source \in Seq(TraceRows) /\ T!Named(source) /\ T!first_init(source) > 0
            /\ input = T!generated(source)
        BY DEF TraceInv, Generated
      <3>2. PICK h \in Nat, e \in Int :
               /\ h = Len(source) /\ input \in Seq(TraceRows) /\ Len(input) = h + 2
               /\ \A k \in 1 .. h : input[k] = source[k]
               /\ input[h + 1] = T!Cmd("iperf3", 2000, e)
               /\ input[h + 2] = T!Cmd("monitor", 1000, e + 1)
        BY <3>1, CommandsAppended
      <3>3. DOMAIN input = 1 .. h + 2 /\ DOMAIN source = 1 .. h
        BY <3>1, <3>2
      <3>4. ASSUME NEW k \in 1 .. h + 2 PROVE input[k].number = NoNumber
        <4>1. k \in 1 .. h \/ k = h + 1 \/ k = h + 2
          OBVIOUS
        <4>2. CASE k \in 1 .. h
          <5>1. source[k].number = NoNumber
            BY <3>1, <3>3, <4>2 DEF T!Named
          <5>2. input[k] = source[k]
            BY <3>2, <4>2
          <5> QED BY <5>1, <5>2
        <4>3. CASE k = h + 1
          BY <3>2, <4>3 DEF T!Cmd
        <4>4. CASE k = h + 2
          BY <3>2, <4>4 DEF T!Cmd
        <4> QED BY <4>1, <4>2, <4>3, <4>4
      <3> QED BY <3>3, <3>4 DEF T!Named
    <2>2. T!NeverHalfConverted
      BY <2>1 DEF T!NeverHalfConverted, TraceInv, Uniform
    <2> QED BY <2>2, InTime DEF TraceInv
  <1> QED BY <1>1, <1>2, <1>3, PTL DEF Spec

=============================================================================
