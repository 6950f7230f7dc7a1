------------------------------- MODULE Metrics -------------------------------
(***************************************************************************)
(* metrics.py: the throughput of a run by link, and its handovers, read     *)
(* from two iperf3 logs (one of them of M2HO, the solution under test) and  *)
(* the trace that was emulated.  Times are counted in half seconds, so that *)
(* the middle of an interval is a number.  A name that the script has not   *)
(* bound, because a file is missing, is NoFile; using it is an exception,   *)
(* like a division by the length of an empty list.                          *)
(* The evaluations behind `if False' are not part of the program and not of *)
(* the model.                                                               *)
(***************************************************************************)
EXTENDS Integers, Sequences, FiniteSets, SequencesExt, FiniteSetsExt

CONSTANTS
    Runs,       \* [plain, m2ho : logs, trace : rows, begin, end]
    NoFile,
    Offset      \* the start of the transfer in the trace

VARIABLES
    input, pc,
    thuput, m_thuput,   \* the samples [t, v] of the two logs
    hos,                \* the handovers [t, link]
    colors,             \* the lines of the plot
    duration,           \* for each link its intervals [from, until]
    links, m_links      \* for each link the samples that are averaged

vars == <<input, pc, thuput, m_thuput, hos, colors, duration, links, m_links>>

Links == 1 .. 2

-----------------------------------------------------------------------------
(* Reading. *)

\* The middle of each interval.
parse_iperf3_log(log) == [k \in DOMAIN log |-> [t |-> log[k].start + log[k].end, v |-> log[k].bits]]

filter_time_range(data, from, to) == SelectSeq(data, LAMBDA d : from <= d.t /\ d.t <= to)

\* Whether a row that cannot be read ends the reading: the whole loop is in one
\* try.  A "blank" row has no second field, a "cut" HO row no fourth.
rest_is_lost(failed) == failed

parse_trace(rows) ==
    LET read(acc, row) ==
            IF rest_is_lost(acc.failed) THEN acc
            ELSE CASE row.tag = "blank" -> [acc EXCEPT !.failed = TRUE]
                   [] row.tag = "cut"   -> [acc EXCEPT !.times = Append(@, row.time - Offset),
                                                       !.failed = TRUE]
                   [] row.tag = "HO"    -> [acc EXCEPT !.times = Append(@, row.time - Offset),
                                                       !.targets = Append(@, row.link)]
                   [] OTHER             -> acc
    IN  FoldLeft(read, [times |-> <<>>, targets |-> <<>>, failed |-> FALSE], rows)

\* The two lists are paired up to the end of the shorter one.
paired(times, targets) ==
    [k \in 1 .. Min({Len(times), Len(targets)}) |-> [t |-> times[k], link |-> targets[k]]]

-----------------------------------------------------------------------------
(* Links. *)

\* Set the end of the open interval of a link, the last one.
first_closed(intervals, t) == [intervals EXCEPT ![1].until = t]
closed(intervals, t) == [intervals EXCEPT ![Len(intervals)].until = t]

Interval(t) == [from |-> t, until |-> -1]

filter_link_duration(ho, end) ==
    LET switch(acc, h) ==
            IF h.link = acc.prev THEN acc
            ELSE [prev |-> h.link,
                  dur  |-> [acc.dur EXCEPT ![acc.prev] = closed(@, h.t),
                                           ![h.link]   = Append(@, Interval(h.t))]]
        first == [prev |-> 1, dur |-> [l \in Links |-> IF l = 1 THEN <<Interval(0)>> ELSE <<>>]]
        last  == FoldLeft(switch, first, ho)
    IN  [last.dur EXCEPT ![last.prev] = closed(@, end)]

\* The samples within the intervals of each link.
link_samples(log, dur) ==
    [l \in Links |->
        FoldLeft(LAMBDA acc, d : acc \o filter_time_range(log, d.from, d.until), <<>>, dur[l])]

\* The link a handover leaves: where the one before it went.
prev_link(ho, k) == IF k = 1 THEN 1 ELSE ho[k - 1].link

\* The plot draws a handover in green if it stays on the link.
line_colors(ho) == [k \in DOMAIN ho |-> IF ho[k].link = prev_link(ho, k) THEN "green" ELSE "red"]

-----------------------------------------------------------------------------
(* The program. *)

Init ==
    /\ input \in Runs
    /\ pc = "plain"
    /\ thuput = NoFile /\ m_thuput = NoFile /\ hos = NoFile
    /\ colors = <<>> /\ duration = <<>> /\ links = <<>> /\ m_links = <<>>

\* The end of a step: the next one, or an exception.
Then(crash, to) ==
    /\ pc' = IF crash THEN "crashed" ELSE to
    /\ UNCHANGED input

read_thuput ==
    /\ pc = "plain"
    /\ thuput' = IF input.plain = NoFile THEN NoFile
                 ELSE filter_time_range(parse_iperf3_log(input.plain), input.begin, input.end)
    /\ Then(thuput' = <<>>, "m2ho")
    /\ UNCHANGED <<m_thuput, hos, colors, duration, links, m_links>>

read_m_thuput ==
    /\ pc = "m2ho"
    /\ m_thuput' = IF input.m2ho = NoFile THEN NoFile
                   ELSE filter_time_range(parse_iperf3_log(input.m2ho), input.begin, input.end)
    /\ Then(m_thuput' = <<>>, "trace")
    /\ UNCHANGED <<thuput, hos, colors, duration, links, m_links>>

read_trace ==
    /\ pc = "trace"
    /\ hos' = IF input.trace = NoFile THEN NoFile
              ELSE LET trace == parse_trace(input.trace)
                   IN  filter_time_range(paired(trace.times, trace.targets), input.begin, input.end)
    /\ Then(FALSE, "plot")
    /\ UNCHANGED <<thuput, m_thuput, colors, duration, links, m_links>>

run_plot ==
    LET missing == thuput = NoFile \/ hos = NoFile
    IN
    /\ pc = "plot"
    /\ Then(missing, "links")
    /\ colors' = IF missing THEN <<>> ELSE line_colors(hos)
    /\ UNCHANGED <<thuput, m_thuput, hos, duration, links, m_links>>

\* The largest of no samples is an exception.
NoSamples(samples) == \E l \in Links : samples[l] = <<>>

link_averages ==
    /\ pc = "links"
    /\ duration' = filter_link_duration(hos, Max({s.t : s \in Range(thuput)}))
    /\ links' = link_samples(thuput, duration')
    /\ Then(NoSamples(links'), "m_links")
    /\ UNCHANGED <<thuput, m_thuput, hos, colors, m_links>>

m_link_averages ==
    LET missing == m_thuput = NoFile
    IN
    /\ pc = "m_links"
    /\ m_links' = IF missing THEN <<>>
                  ELSE link_samples(m_thuput,
                           filter_link_duration(hos, Max({s.t : s \in Range(m_thuput)})))
    /\ Then(missing \/ NoSamples(m_links'), "done")
    /\ UNCHANGED <<thuput, m_thuput, hos, colors, duration, links>>

Next ==
    \/ read_thuput \/ read_m_thuput \/ read_trace \/ run_plot \/ link_averages \/ m_link_averages

Spec == Init /\ [][Next]_vars

-----------------------------------------------------------------------------
(* Properties. *)

\* The rows of the trace that hand over, as the emulator runs them.
Handovers == SelectSeq(input.trace, LAMBDA r : r.tag = "HO")

\* The link in use at a time is the target of the last handover until then.
LinkAt(t) ==
    LET past == {k \in DOMAIN Handovers : Handovers[k].time - Offset <= t}
    IN  IF past = {} THEN 1 ELSE Handovers[Max(past)].link

\* Every sample is averaged for the link that was in use when it was taken, and
\* only one taken at the moment of a handover for both.
AveragedByLink ==
    pc \in {"m_links", "done"} =>
        \A s \in Range(thuput), l \in Links :
            LET n           == Cardinality({i \in DOMAIN links[l] : links[l][i].t = s.t})
                at_handover == \E h \in Range(Handovers) : h.time - Offset = s.t
            IN  /\ LinkAt(s.t) = l => n >= 1
                /\ n <= IF at_handover THEN 2 ELSE IF LinkAt(s.t) = l THEN 1 ELSE 0

\* That holds for every trace, however often it hands over at one time or to the
\* same link, if it can be read to the end and no handover takes place outside
\* of the range given by --begin and --end.
SamplesGoToTheirLink ==
    input.trace # NoFile
    /\ (\A r \in Range(input.trace) :
           /\ r.tag \in {"HO", "INIT"}
           /\ r.tag = "HO" => input.begin <= r.time - Offset /\ r.time - Offset <= input.end)
    => AveragedByLink

\* A handover is never paired with the link of another row: the time of an
\* incomplete row, which is stored before the exception, is left unpaired.
TimesKeepTheirLinks ==
    hos # NoFile =>
        \A h \in Range(hos) : \E r \in Range(Handovers) : r.time - Offset = h.t /\ r.link = h.link

\* The lines of the plot and the intervals agree: a handover drawn in red ends an
\* interval of the link it leaves and begins one of the other, and there are as
\* many of those as intervals after the first, however many handovers fall on one
\* time or stay on their link.
LinesMatchIntervals ==
    pc = "m_links" =>
        LET red == {k \in DOMAIN colors : colors[k] = "red"}
        IN  /\ \A k \in red :
                  /\ \E i \in Range(duration[prev_link(hos, k)]) : i.until = hos[k].t
                  /\ \E i \in Range(duration[hos[k].link]) : i.from = hos[k].t
            /\ Len(duration[1]) + Len(duration[2]) = 1 + Cardinality(red)

=============================================================================
