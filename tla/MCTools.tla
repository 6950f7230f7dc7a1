------------------------------ MODULE MCTools ------------------------------
(* The inputs of the scripts that TLC enumerates. *)
EXTENDS Tools, FiniteSets, SequencesExt, FiniteSetsExt

-----------------------------------------------------------------------------
(* PacketMetrics *)

Sorted(l) == \A k \in 1 .. Len(l) - 1 : l[k].epoch <= l[k + 1].epoch

\* Short logs with retransmissions, a second connection (port 2) and every
\* window.  The capture begins at tick 8; a millisecond has 4 ticks.
Client(epoch, seq) ==
    [epoch |-> epoch, time |-> epoch - 8, port |-> 1, seq |-> seq, ack |-> 0, off |-> seq]
ServerLogs ==
    {l \in [1 .. 3 -> [epoch : 1 .. 2, port : 1 .. 2, seq : 1 .. 2, ack : {0}]] : Sorted(l)}
ClientLogs ==
    {l \in UNION {[1 .. k -> {Client(e, s) : e \in {9, 12, 15}, s \in 1 .. 2}] : k \in 1 .. 2} :
        Sorted(l)}
ShortCaptures ==
    [server : ServerLogs, client : ClientLogs, begin : {0, 2}, end : {3, 20}]

\* Streams that pass the end of the range of sequence numbers: five arrivals,
\* each from one behind to three ahead of the one before.
Position(start, steps, k) == FoldLeft(LAMBDA a, d : a + d, start, SubSeq(steps, 1, k - 1))
Stream(start, steps) ==
    [k \in 1 .. 5 |-> LET off == Position(start, steps, k)
                      IN  [epoch |-> 8 + k, time |-> k, port |-> 1, seq |-> off % Wrap,
                           ack |-> 0, off |-> off]]
LongCaptures ==
    {[server |-> [k \in 1 .. 5 |-> [epoch |-> 1, port |-> 1, seq |-> Stream(s, d)[k].seq, ack |-> 0]],
      client |-> Stream(s, d), begin |-> 0, end |-> 20] :
        s \in {1, 6}, d \in [1 .. 4 -> -1 .. 3]}

AllCaptures == ShortCaptures \cup LongCaptures

Packets(epochs) == [epoch : epochs, seq : 1 .. 2, ack : 1 .. 2]
AllMatchInputs ==
    [sender : [1 .. 2 -> Packets(1 .. 2)], receiver : [1 .. 2 -> Packets(3 .. 4)]]

\* Up to three segments, sent in any order and in the same millisecond or not;
\* some seem to arrive before they are sent.
AllMatchedInputs ==
    UNION {{[i \in 1 .. k |-> [seq |-> i, send |-> Ms * send[i], recv |-> Ms * send[i] + transit[i]]] :
               send \in [1 .. k -> 1 .. 3], transit \in [1 .. k -> {-1, 0, 3, 60}]} : k \in 1 .. 3}

\* Four packets of three segments: one of them is sent again.  The last length
\* is larger than a frame.  Or one packet, which need not fill a frame.
AllFrameInputs ==
    {<<[seq |-> 1, time |-> 1, len |-> l]>> : l \in 1 .. 3} \cup
    {[k \in 1 .. 4 |-> [seq |-> s[k], time |-> t[k], len |-> l[s[k]]]] :
        s \in {q \in [1 .. 4 -> 1 .. 3] : Range(q) = 1 .. 3},
        t \in {<<1, 2, 3, 4>>, <<4, 1, 3, 2>>, <<3, 4, 1, 2>>}, l \in [1 .. 3 -> {1, 3, 4}]}

AllArrivalInputs == {<<a, a + b, a + b + c>> : a \in 1 .. 2, b \in 1 .. 3, c \in 1 .. 3}

-----------------------------------------------------------------------------
(* Metrics *)

\* A log with one sample in the middle of each second; the half seconds of the
\* samples are 1, 3, 5, ...
Log(values) == [k \in DOMAIN values |-> [start |-> k - 1, end |-> k, bits |-> values[k]]]

Row(tag, time, link) == [tag |-> tag, time |-> time, link |-> link]
Ho(time, link) == Row("HO", time, link)

\* Up to three rows in the order of time, one of which may be unreadable.
Traces ==
    {t \in UNION {[1 .. k -> {Ho(time, link) : time \in {3, 5, 6, 7}, link \in 1 .. 2}
                            \cup {Row("INIT", 0, 0), Row("blank", 0, 0), Row("cut", 5, 0)}] :
                     k \in 0 .. 3} :
        /\ \A j, k \in DOMAIN t : j < k /\ t[j].tag = "HO" /\ t[k].tag = "HO" => t[j].time <= t[k].time
        /\ Cardinality({k \in DOMAIN t : t[k].tag \in {"blank", "cut"}}) <= 1}

FourSamples == Log(<<1, 2, 1, 2>>)
AllRuns ==
    [plain : {FourSamples}, m2ho : {FourSamples},
     trace : Traces, begin : {0, 2}, end : {6, 20}]
    \cup [plain : {FourSamples, NoFile}, m2ho : {FourSamples, Log(<<2>>), NoFile},
          trace : {t \in Traces : Len(t) <= 2}, begin : {0}, end : {20}]
    \cup [plain : {FourSamples}, m2ho : {FourSamples}, trace : {NoFile},
          begin : {0, 30}, end : {20}]
    \cup [plain : {NoFile, FourSamples}, m2ho : {FourSamples}, trace : {<<>>},
          begin : {30}, end : {40}]

-----------------------------------------------------------------------------
(* SsLog *)

\* No connection, one or two; the statistics of the third kind cannot be parsed.
Statistics ==
    <<[bbr |-> NoBbr, field |-> "plain"], [bbr |-> "Mbps", field |-> "dotted"],
      [bbr |-> "dotted", field |-> "percent"]>>
SomeShows ==
    {<<>>, <<Statistics[1]>>, <<Statistics[2], Statistics[1]>>, <<Statistics[2], Statistics[3]>>,
     <<Statistics[3], Statistics[1]>>}

SomeRanges == {[begin |-> 0, end |-> 10], [begin |-> 1, end |-> 2]}

-----------------------------------------------------------------------------
(* TraceTools *)

TraceRow(number, name, end) ==
    [number |-> number, name |-> name, end |-> end, program |-> "", time |-> 0]

\* Traces of up to four rows with numbers, and of three with names.
OldRows ==
    {TraceRow(0, "", 7300), TraceRow(0, "", 12001), TraceRow(2, "", 0), TraceRow(-1, "", 0),
     TraceRow(9, "", 0), TraceRow(NoNumber, "blank", 0)}
NewRows ==
    {TraceRow(NoNumber, "INIT", e) : e \in {6000, 7300, 9999, 12001}}
    \cup {TraceRow(NoNumber, "HO", 0), TraceRow(NoNumber, "blank", 0)}
AllTraces == UNION {[1 .. k -> OldRows] : k \in 2 .. 4} \cup [1 .. 3 -> NewRows]

-----------------------------------------------------------------------------
(* Experiment *)

\* All options, or packets that are there already.
SomeArgs ==
    {[pcap |-> TRUE, packets |-> FALSE, server |-> TRUE, ss |-> TRUE],
     [pcap |-> FALSE, packets |-> TRUE, server |-> TRUE, ss |-> FALSE]}

=============================================================================
