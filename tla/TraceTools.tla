----------------------------- MODULE TraceTools ------------------------------
(***************************************************************************)
(* The scripts that rewrite traces, run by hand in any order.              *)
(*   - old_fix.py: write_to_new_file drops the third line of a trace,      *)
(*     mod_cmd replaces the numbers of event types by their names;         *)
(*   - generate_input.py: appends the commands that start the transfer and *)
(*     the monitor to a trace, for the emulator to run.                    *)
(* A trace is a sequence of rows; a row has its type as a number or as a   *)
(* name, and in the end field its last field.  All exceptions are caught   *)
(* by the scripts, which then leave the files as they are.  old_fix.py is   *)
(* edited before it is run: the calls of its two functions are commented    *)
(* out as it is committed.                                                  *)
(***************************************************************************)
EXTENDS Integers, Sequences, FiniteSets, SequencesExt, FiniteSetsExt

CONSTANTS
    OldTraces,      \* the contents of the original file
    NoFile, NoNumber

VARIABLES
    suffixed,   \* whether the name of the original ends in "-c.csv"
    old,        \* the original, a file in "-c.csv" or ".csv"
    trace,      \* what becomes of it, in ".csv"
    input,      \* the generated input of the emulator
    source      \* for the properties: the trace that input was generated from

vars == <<suffixed, old, trace, input, source>>

-----------------------------------------------------------------------------
(* old_fix.py *)

cmd_mappings ==
    <<"INIT", "CMD", "HO", "SOL_HANDLEDUP", "SOL_HANDLERW", "SOL_INIT_SCHED", "SOL_HO", "UNKNOWN">>

\* A list may be indexed from its end; the type of a row that already has a name
\* is no number.
in_list(row) == row.number # NoNumber /\ row.number \in -8 .. 7
mapped(row) ==
    [row EXCEPT !.number = NoNumber,
                !.name = cmd_mappings[IF row.number < 0 THEN row.number + 9 ELSE row.number + 1]]

\* All rows are converted before the file is written.
all_or_nothing(rows) ==
    IF \A k \in DOMAIN rows : in_list(rows[k]) THEN [k \in DOMAIN rows |-> mapped(rows[k])] ELSE rows

mod_cmd ==
    /\ trace # NoFile /\ Len(trace) >= 3
    /\ trace' = all_or_nothing(trace)
    /\ UNCHANGED <<suffixed, old, input, source>>

\* The new name is the old one if that has no "-c": the original is overwritten.
file_by_name == IF suffixed THEN old ELSE trace

write_to_new_file ==
    /\ Len(file_by_name) >= 3
    /\ trace' = RemoveAt(file_by_name, 3)
    /\ UNCHANGED <<suffixed, old, input, source>>

-----------------------------------------------------------------------------
(* generate_input.py *)

\* Whole seconds, cut towards zero, from 5 s before the end of the INIT row.
rounded_up(end) == (end - 5000 + 999) \div 1000
cut_to_seconds(end) == IF end >= 5000 THEN (end - 5000) \div 1000 ELSE -((5000 - end) \div 1000)

\* The INIT row that is found first decides.  There is an exception without
\* one, and at an empty line before it.
first_init(rows) ==
    LET inits == {k \in DOMAIN rows : rows[k].name = "INIT"}
    IN  IF inits = {} \/ \E k \in 1 .. Min(inits) : rows[k].name = "blank" THEN 0 ELSE Min(inits)

\* A command in the trace: when it is started, and for how many seconds.
Cmd(program, time, secs) ==
    [number |-> NoNumber, name |-> "CMD", end |-> secs, program |-> program, time |-> time]

generated(rows) ==
    LET execution_time == cut_to_seconds(rows[first_init(rows)].end)
    IN  rows \o <<Cmd("iperf3", 2000, execution_time), Cmd("monitor", 1000, execution_time + 1)>>

generate_trace ==
    /\ trace # NoFile
    /\ IF Len(trace) >= 3 /\ first_init(trace) > 0
       THEN input' = generated(trace) /\ source' = trace
       ELSE UNCHANGED <<input, source>>
    /\ UNCHANGED <<suffixed, old, trace>>

-----------------------------------------------------------------------------
Init ==
    /\ suffixed \in BOOLEAN /\ old \in OldTraces
    /\ trace = IF suffixed THEN NoFile ELSE old
    /\ input = NoFile /\ source = NoFile

Next == mod_cmd \/ write_to_new_file \/ generate_trace

Spec == Init /\ [][Next]_vars

-----------------------------------------------------------------------------
(* Properties. *)

Named(rows) == \A k \in DOMAIN rows : rows[k].number = NoNumber

\* A trace is never half converted, however often and in whatever order the
\* scripts are run and whichever row cannot be converted: the emulator's input
\* has names only.
NeverHalfConverted ==
    /\ trace # NoFile => Named(trace) \/ \A k \in DOMAIN trace : trace[k].name \in {"", "blank"}
    /\ input # NoFile => Named(input)

\* Of a trace with the suffix only the third row is ever lost, however often the
\* scripts are run: the original is there to start from.  A file without the
\* suffix is overwritten and loses another row each time.
OnlyThirdRowLost ==
    suffixed /\ trace # NoFile =>
        /\ Len(trace) = Len(old) - 1
        /\ \A k \in DOMAIN trace : trace[k].end = RemoveAt(old, 3)[k].end

\* The commands of the emulator's input, and when they end; iperf3 and the
\* monitor take a duration of 0 for no end.
Command(program) == CHOOSE r \in Range(SubSeq(input, Len(input) - 1, Len(input))) : r.program = program
Ends(program) == Command(program).time + 1000 * Command(program).end

\* The transfer is over 3 s before the first queue is torn down and the monitor
\* runs as long as the transfer, in whole seconds, if the INIT row that ends
\* first is the first one and leaves at least a second.
CommandsFitTheRun ==
    input # NoFile /\ source[first_init(source)].end >= 6000
    /\ (\A k \in DOMAIN source : source[k].name = "INIT" => source[first_init(source)].end <= source[k].end)
    =>  /\ \A k \in DOMAIN source : source[k].name = "INIT" => Ends("iperf3") + 3000 <= source[k].end
        /\ Ends("monitor") >= Ends("iperf3")
        /\ Command("iperf3").end > 0

=============================================================================
