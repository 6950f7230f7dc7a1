------------------------------- MODULE SsLog --------------------------------
(***************************************************************************)
(* From the sender's socket statistics to a table.                         *)
(*   - monitor.sh polls ss and appends what it shows to a log;             *)
(*   - parse_ss.py turns the log into a CSV file;                          *)
(*   - parse-logs.py does so again, for BBR, with times from the start.    *)
(* ss shows one line of statistics for each connection of iperf3; the      *)
(* monitor puts the time in front of its whole output, so that only the    *)
(* first line of a poll has one.  A line is the kind of the value of one   *)
(* parameter within bbr:(...), or NoBbr, and of one other field.           *)
(***************************************************************************)
EXTENDS Integers, Sequences, FiniteSets, SequencesExt, FiniteSetsExt

CONSTANTS
    Durations,      \* the second argument of monitor.sh, 0 to run forever
    Shows,          \* what ss may show : a sequence of [bbr, field], one per connection
    MaxTime,        \* bound on the clock
    Ranges,         \* [begin, end] of parse-logs.py
    NoBbr, NoTime, NoFile

VARIABLES
    duration, range,    \* the arguments
    pc, now,
    log,                \* the lines [time, bbr, field], or NoFile
    polls,              \* for the properties: [time, shown] of each poll
    parsed_data,        \* the entries of parse_ss.py
    outcome,            \* what it says at the end
    df_ss               \* the rows of parse-logs.py

vars == <<duration, range, pc, now, log, polls, parsed_data, outcome, df_ss>>

-----------------------------------------------------------------------------
(* monitor.sh *)

Start == 0

\* The time an iteration works with is read at its beginning.
current_time(clock) == clock

\* The time goes in front of the output of ss, not of each of its lines.
each_line_timed(t, k) == t
first_line_timed(t, k) == IF k = 1 THEN t ELSE NoTime

write_log(t, shown) ==
    log \o [k \in DOMAIN shown |-> [time  |-> first_line_timed(t, k),
                                    bbr   |-> shown[k].bbr,
                                    field |-> shown[k].field]]

\* The clock may have moved past the end between two iterations.
at_end_time(t) == t = Start + duration
past_end_time(t) == t >= Start + duration

Elapsed == duration > 0 /\ past_end_time(current_time(now))

\* One iteration of the loop, which takes some time.
monitor_connection ==
    /\ pc = "monitor" /\ ~Elapsed /\ now < MaxTime
    /\ \E shown \in Shows, spent \in 1 .. 2 :
          /\ log' = write_log(current_time(now), shown)
          /\ polls' = Append(polls, [time |-> current_time(now), shown |-> shown])
          /\ now' = now + spent
    /\ UNCHANGED <<duration, range, pc, parsed_data, outcome, df_ss>>

\* The duration is over; without one somebody interrupts the monitor.
monitoring_complete ==
    /\ pc = "monitor" /\ (duration > 0 => Elapsed)
    /\ pc' = "parse"
    /\ UNCHANGED <<duration, range, now, log, polls, parsed_data, outcome, df_ss>>

-----------------------------------------------------------------------------
(* Parsing a line: in both scripts the same. *)

\* Values in bbr:(...): a number of several dots, or a parameter with two
\* colons, is an exception.  There is no case for percentages.
bbr_value(kind) ==
    CASE kind \in {"Mbps", "plain"}    -> "number"
      [] kind \in {"dotted", "colons"} -> "raises"
      [] OTHER                         -> "text"

\* Values elsewhere: what cannot be converted stays a text.
pair_value(kind) == IF kind \in {"plain", "percent", "Mbps"} THEN "number" ELSE "text"

parse_bbr_info(line) == IF line.bbr = NoBbr THEN NoBbr ELSE bbr_value(line.bbr)

\* A line without a time has no entry.
is_entry(line) == line.time # NoTime
raises(line) == is_entry(line) /\ parse_bbr_info(line) = "raises"

parse_line(line) ==
    [timestamp |-> line.time, bbr |-> parse_bbr_info(line), field |-> pair_value(line.field)]

\* A line that cannot be parsed ends the loop of parse-logs.py, and is skipped by
\* that of parse_ss.py.
Bad == IF log = NoFile THEN {} ELSE {k \in DOMAIN log : raises(log[k])}
given_up_by_break == UNION {k .. Len(log) : k \in Bad}
given_up_by_continue == Bad

entries(given_up) ==
    LET add(acc, k) == IF k \in given_up \/ ~is_entry(log[k]) THEN acc
                       ELSE Append(acc, parse_line(log[k]))
    IN  IF log = NoFile THEN <<>> ELSE FoldLeft(add, <<>>, [k \in DOMAIN log |-> k])

-----------------------------------------------------------------------------
(* parse_ss.py *)

parse_file ==
    /\ pc = "parse"
    /\ parsed_data' = entries(given_up_by_continue)
    /\ pc' = IF log = NoFile THEN "parse_ss" ELSE "save"
    /\ outcome' = IF log = NoFile THEN [said |-> "Failed to parse"] ELSE outcome
    /\ UNCHANGED <<duration, range, now, log, polls, df_ss>>

save_csv ==
    /\ pc = "save"
    /\ outcome' = IF parsed_data = <<>> THEN [said |-> "Failed to save"]
                  ELSE [said |-> "Successfully parsed", entries |-> Len(parsed_data),
                        span |-> Last(parsed_data).timestamp - Head(parsed_data).timestamp]
    /\ pc' = "parse_ss"
    /\ UNCHANGED <<duration, range, now, log, polls, parsed_data, df_ss>>

(* parse-logs.py *)

\* The times of all entries are set off against the first, before those out of
\* range are dropped.
relative(rows) ==
    LET min == Min({r.timestamp : r \in Range(rows)})
    IN  [k \in DOMAIN rows |-> [time |-> rows[k].timestamp - min] @@ rows[k]]

in_range(rows) == SelectSeq(rows, LAMBDA r : range.begin <= r.time /\ r.time <= range.end)

\* An empty table has no column to set off: an exception.
parse_ss ==
    LET rows == entries(given_up_by_break)
    IN
    /\ pc = "parse_ss"
    /\ df_ss' = IF rows = <<>> THEN <<>> ELSE in_range(relative(rows))
    /\ pc' = IF rows = <<>> THEN "crashed" ELSE "done"
    /\ UNCHANGED <<duration, range, now, log, polls, parsed_data, outcome>>

-----------------------------------------------------------------------------
Init ==
    /\ duration \in Durations /\ range \in Ranges
    /\ now = Start
    /\ polls = <<>> /\ parsed_data = <<>> /\ df_ss = <<>> /\ outcome = [said |-> "nothing"]
    /\ \/ pc = "monitor" /\ log = <<>>
       \/ pc = "parse" /\ log = NoFile

Next == monitor_connection \/ monitoring_complete \/ parse_file \/ save_csv \/ parse_ss

Spec == Init /\ [][Next]_vars

-----------------------------------------------------------------------------
(* Properties. *)

\* The polls whose first line has statistics that can be parsed.
GoodPolls ==
    SelectSeq(polls, LAMBDA p : p.shown # <<>> /\ bbr_value(p.shown[1].bbr) # "raises")

\* parse_ss.py has one row for each poll that saw a connection, with the
\* statistics of the first one and the time of the poll, whatever the other
\* lines of the poll and unparsable polls before it hold.
OneEntryPerPoll ==
    pc \in {"save", "parse_ss", "crashed", "done"} =>
        /\ Len(parsed_data) = Len(GoodPolls)
        /\ \A k \in DOMAIN parsed_data :
              /\ parsed_data[k].timestamp = GoodPolls[k].time
              /\ parsed_data[k].field = pair_value(GoodPolls[k].shown[1].field)

\* parse-logs.py agrees with parse_ss.py on all polls up to the first that
\* cannot be parsed, in the given range; its times count from the first poll
\* that it could parse even if that is out of range.
ParsersAgree ==
    pc = "done" =>
        LET bad   == {p.time : p \in Range(polls) \ Range(GoodPolls)}
            cause == {t \in bad : \E p \in Range(polls) : p.time = t /\ p.shown # <<>>}
            start == Head(parsed_data).timestamp
            same(r) == [timestamp |-> r.timestamp, bbr |-> r.bbr, field |-> r.field]
        IN  [k \in DOMAIN df_ss |-> same(df_ss[k])]
            = SelectSeq(parsed_data, LAMBDA r :
                  /\ \A t \in cause : r.timestamp < t
                  /\ range.begin <= r.timestamp - start /\ r.timestamp - start <= range.end)

\* parse-logs.py fails with an exception exactly if parse_ss.py has nothing to
\* save or the first poll that saw a connection could not be parsed.
CrashExplained ==
    pc \in {"crashed", "done"} =>
        LET seen == SelectSeq(polls, LAMBDA p : p.shown # <<>>)
        IN  (pc = "crashed") <=>
                \/ outcome.said \in {"Failed to parse", "Failed to save"}
                \/ seen # <<>> /\ bbr_value(Head(seen).shown[1].bbr) = "raises"

=============================================================================
