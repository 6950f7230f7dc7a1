--------------------------- MODULE PacketMetrics ----------------------------
(***************************************************************************)
(* Metrics from packet logs.                                               *)
(*   - parse-logs.py: the packet stage of its main program, from the two   *)
(*     logs to transit times and jitter; and its estimate of video frames, *)
(*     whose call is commented out as it is committed;                     *)
(*   - rfc-jitter.py: the same metrics, written again and run twice: the   *)
(*     matching first, whose calls are commented out as it is committed,   *)
(*     and the jitter from its file, which is what runs as it stands;      *)
(*   - compute-iat.py: inter-arrival times.                                *)
(* The sender's log is what packet_logging of worker.c writes, in whole    *)
(* milliseconds; the receiver's capture has a finer clock, of Ms ticks per *)
(* millisecond.  A sequence number is a position in the stream modulo      *)
(* Wrap (2^32); `off', the position itself, is read by properties only.    *)
(* A jitter is a numerator over 16^k, k the number of updates.             *)
(***************************************************************************)
EXTENDS Integers, Sequences, FiniteSets, SequencesExt, FiniteSetsExt

CONSTANTS
    Captures,       \* [server, client : logs, begin, end : the --begin and --end]
    MatchInputs,    \* [sender, receiver : sequences of [epoch, seq, ack]]
    MatchedInputs,  \* sequences of [seq, send, recv], as df_matched
    FrameInputs,    \* sequences of [seq, time, len]
    ArrivalInputs,  \* sequences of arrival times
    Ms, Wrap, FrameSize

VARIABLES
    kind, input,            \* what is run, and on what
    pc,                     \* the next stage
    df_client, df_server,   \* the logs after filtering
    df_matched,             \* [seq, send, recv] of each matched segment
    result

vars == <<kind, input, pc, df_client, df_server, df_matched, result>>

Distance(a, b) == IF a < b THEN b - a ELSE a - b

-----------------------------------------------------------------------------
(* parse-logs.py: reading the two logs. *)

filter_relative_time_range(df, begin, end) ==
    SortSeq(SelectSeq(df, LAMBDA r : begin <= r.time /\ r.time <= end),
            LAMBDA a, b : a.time < b.time)

\* Half of the range, below which a difference is a roll over.
full_range == -Wrap
rollover_threshold == -(Wrap \div 2)

check_rollover(df) ==
    {df[k].seq : k \in {j \in 2 .. Len(df) : df[j].seq - df[j - 1].seq < rollover_threshold}}

\* The packets of one connection, their time counted from the first of them.
process_server_log(log, port) ==
    LET own == SelectSeq(log, LAMBDA r : r.port = port)
    IN  [k \in DOMAIN own |->
            [epoch |-> Ms * own[k].epoch, time |-> Ms * (own[k].epoch - own[1].epoch),
             seq |-> own[k].seq]]

-----------------------------------------------------------------------------
(* Matching the packets of the two logs. *)

\* parse-logs.py: the earliest time of each segment in each log, acks ignored,
\* in the order of the sequence numbers.
earliest_time(packets, seq) == Min({p.epoch : p \in {q \in packets : q.seq = seq}})

calculate_transit(server, client) ==
    LET common == {p.seq : p \in server} \cap {p.seq : p \in client}
        merged == {[seq |-> n, send |-> earliest_time(server, n),
                    recv |-> earliest_time(client, n)] : n \in common}
    IN  SetToSortSeq(merged, LAMBDA a, b : a.seq < b.seq)

\* rfc-jitter.py: of several transmissions of a segment the earliest counts.
earliest_kept(p, dict) == \A d \in dict : d.seq = p.seq => p.epoch <= d.epoch

map_packets(sender, receiver) ==
    LET enter(dict, p) ==
            IF earliest_kept(p, dict) THEN {d \in dict : d.seq # p.seq} \cup {p} ELSE dict
        sender_dict == FoldLeft(enter, {}, sender)
        match(acc, p) ==
            LET sent == {d \in sender_dict : d.seq = p.seq /\ d.ack = p.ack}
            IN  IF sent = {} \/ \E r \in Range(acc) : r.seq = p.seq THEN acc
                ELSE Append(acc, [seq |-> p.seq, send |-> (CHOOSE d \in sent : TRUE).epoch,
                                  recv |-> p.epoch])
    IN  FoldLeft(match, <<>>, receiver)

\* The two readers of rfc-jitter.py: the packets of one port, and the capture
\* with its clock cut to milliseconds.
parse_serverts(log, port) == SelectSeq(log, LAMBDA r : r.port = port)
cut_to_ms(epoch) == epoch \div Ms
parse_clientts(capture) ==
    [k \in DOMAIN capture |-> [capture[k] EXCEPT !.epoch = cut_to_ms(@)]]

-----------------------------------------------------------------------------
(* Jitter. *)

\* The rows of matched.csv that map_packets writes for these segments, with the
\* clock cut to milliseconds, and the orders that sort_values("sts") may put them
\* in: it is not stable.
matched_csv(segments) ==
    [k \in DOMAIN segments |->
        [send |-> cut_to_ms(segments[k].send), recv |-> cut_to_ms(segments[k].recv)]]
sorted_by_sts(rows) ==
    {[k \in DOMAIN rows |-> rows[p[k]]] :
        p \in {q \in [DOMAIN rows -> DOMAIN rows] :
                  /\ IsInjective(q)
                  /\ \A i, j \in DOMAIN rows : i < j => rows[q[i]].send <= rows[q[j]].send}}

transits(rows) == [k \in DOMAIN rows |-> rows[k].recv - rows[k].send]

\* jitter += (|transit - prev| - jitter) / 16, over 16^(k + 1).
jitter_step(j, transit, prev) ==
    [num |-> 16 ^ j.k * Distance(transit, prev) + 15 * j.num, k |-> j.k + 1]

NoJitter == [num |-> 0, k |-> 0]

\* The packet the next transit time is compared with.
prev_stays(acc, transit) == IF acc.prev < 0 THEN transit ELSE acc.prev
prev_moves(acc, transit) == transit

\* rfc-jitter.py: packets that seem to arrive before they are sent are skipped.
compute_jitter_and_transit(times) ==
    LET step(acc, transit) ==
            IF transit < 0 THEN acc
            ELSE LET j == IF acc.prev < 0 THEN acc.j ELSE jitter_step(acc.j, transit, acc.prev)
                 IN  [prev |-> prev_moves(acc, transit), j |-> j,
                      out |-> Append(acc.out, j)]
    IN  FoldLeft(step, [prev |-> -1, j |-> NoJitter, out |-> <<>>], times).out

\* parse-logs.py: they are reported with jitter 0, and the first packet starts
\* the comparison whatever its transit time.
calculate_jitter(times) ==
    LET step(acc, transit) ==
            IF transit < 0 THEN [acc EXCEPT !.out = Append(@, NoJitter)]
            ELSE LET j == jitter_step(acc.j, transit, acc.prev)
                 IN  [prev |-> transit, j |-> j, out |-> Append(acc.out, j)]
    IN  FoldLeft(step, [prev |-> Head(times), j |-> NoJitter, out |-> <<NoJitter>>],
                 Tail(times)).out

\* compute-iat.py: the gap before each packet, 0 before the first, and the
\* running average of the changes of the gap.
iat_ms(arrivals) == [k \in DOMAIN arrivals |-> IF k = 1 THEN 0 ELSE arrivals[k] - arrivals[k - 1]]

iat_jitter_ms(arrivals) ==
    LET iat  == iat_ms(arrivals)
        step(acc, k) == Append(acc, jitter_step(Last(acc), iat[k], iat[k - 1]))
    IN  FoldLeft(step, <<NoJitter>>, [k \in 1 .. Len(arrivals) - 1 |-> k + 1])

-----------------------------------------------------------------------------
(* parse-logs.py: frames of FrameSize bytes, each complete with the packet    *)
(* that fills it; at most one frame per packet.  If there is no frame at all  *)
(* the table has no column of times, which is an exception.                   *)

\* The first copy of each segment, in the order of the stream.
first_copies(df) ==
    SetToSortSeq({p \in Range(df) : \A q \in Range(df) : q.seq = p.seq => p.time <= q.time},
                 LAMBDA a, b : a.seq < b.seq)

leftover_dropped(bytes) == 0
leftover(bytes) == bytes - FrameSize

\* A frame is not complete before the one in front of it.
adjusted_time(time, prev) == IF time < prev THEN prev ELSE time

estimate_frame(df) ==
    LET step(acc, p) ==
            LET bytes == acc.bytes + p.len
                t     == adjusted_time(p.time, acc.prev)
            IN  IF bytes < FrameSize THEN [acc EXCEPT !.bytes = bytes]
                ELSE [bytes |-> leftover(bytes), prev |-> t, frames |-> Append(acc.frames, t)]
    IN  FoldLeft(step, [bytes |-> 0, prev |-> 0, frames |-> <<>>], first_copies(df))

-----------------------------------------------------------------------------
Init ==
    /\ df_client = <<>> /\ df_server = <<>> /\ df_matched = <<>> /\ result = <<>>
    /\ \/ kind = "capture" /\ input \in Captures /\ pc = "client"
       \/ kind = "match" /\ input \in MatchInputs /\ pc = "run"
       \/ kind = "jitter" /\ input \in MatchedInputs /\ pc = "run"
       \/ kind = "frames" /\ input \in FrameInputs /\ pc = "run"
       \/ kind = "iat" /\ input \in ArrivalInputs /\ pc = "run"

\* The stages of parse-logs.py.  Indexing the first row of an empty frame is
\* an exception.
Stage(from) == pc = from /\ UNCHANGED <<kind, input>>

read_client ==
    /\ Stage("client")
    /\ df_client' = filter_relative_time_range(input.client, input.begin, input.end)
    /\ pc' = CASE check_rollover(df_client') # {} -> "exit"
               [] df_client' = <<>>               -> "crashed"
               [] OTHER                           -> "server"
    /\ UNCHANGED <<df_server, df_matched, result>>

read_server ==
    LET own == process_server_log(input.server, df_client[1].port)
    IN
    /\ Stage("server")
    /\ df_server' = filter_relative_time_range(own, input.begin, input.end)
    /\ pc' = IF own = <<>> THEN "crashed" ELSE "transit"
    /\ UNCHANGED <<df_client, df_matched, result>>

match_packets ==
    /\ Stage("transit")
    /\ df_matched' = calculate_transit(Range(df_server), Range(df_client))
    /\ pc' = IF df_matched' = <<>> THEN "crashed" ELSE "jitter"
    /\ UNCHANGED <<df_client, df_server, result>>

write_jitter ==
    /\ Stage("jitter")
    /\ result' = calculate_jitter(transits(df_matched))
    /\ pc' = "done"
    /\ UNCHANGED <<df_client, df_server, df_matched>>

\* A script or function that is run on its own.
Run(k, value) ==
    /\ kind = k
    /\ Stage("run")
    /\ result' = value
    /\ pc' = "done"
    /\ UNCHANGED <<df_client, df_server, df_matched>>

run_match  == Run("match", [pairs   |-> map_packets(input.sender, input.receiver),
                            transit |-> calculate_transit(Range(input.sender),
                                                          Range(input.receiver))])
run_jitter ==
    /\ kind = "jitter"
    /\ \E rows \in sorted_by_sts(matched_csv(input)) :
          Run("jitter", [rfc  |-> compute_jitter_and_transit(transits(rows)),
                         logs |-> calculate_jitter(transits(input))])
run_iat    == Run("iat", iat_jitter_ms(input))

run_frames ==
    LET estimate == estimate_frame(input)
    IN
    /\ kind = "frames"
    /\ Stage("run")
    /\ result' = estimate
    /\ pc' = IF estimate.frames = <<>> THEN "crashed" ELSE "done"
    /\ UNCHANGED <<df_client, df_server, df_matched>>

Next ==
    \/ read_client \/ read_server \/ match_packets \/ write_jitter
    \/ run_match \/ run_jitter \/ run_frames \/ run_iat

Spec == Init /\ [][Next]_vars

-----------------------------------------------------------------------------
(* Properties. *)

Ran(k) == kind = k /\ pc = "done"

\* Matching by sequence number is matching by segment: a capture that holds two
\* segments with one number never gets past the check for a roll over, if
\* losses, retransmissions and reordering move the position by less than half
\* of the range and no packet comes more than half of it late.
SeqIdentifiesSegment ==
    pc \in {"server", "transit", "jitter", "done"} =>
        \A p, q \in Range(df_client) : p.seq = q.seq => p.off = q.off

\* The rows of rfc-jitter.py for the capture, its two readers included.
RfcPairs ==
    map_packets(parse_serverts(input.server, input.client[1].port), parse_clientts(input.client))

\* The two scripts find the same segments in the same logs, and the transit
\* times they report differ by less than the millisecond that one of them cuts
\* off, if the window covers the run, packets are logged in the order of time
\* and a retransmission repeats its ack.
TransitsAgree ==
    LET packets == Range(input.server) \cup Range(input.client)
        whole   == \A k \in DOMAIN input.client :
                       input.begin <= input.client[k].time /\ input.client[k].time <= input.end
    IN  Ran("capture") /\ whole /\ input.begin = 0
        /\ (\A p, q \in packets : p.seq = q.seq => p.ack = q.ack)
        /\ Len(df_server) = Len(parse_serverts(input.server, input.client[1].port)) =>
            /\ {r.seq : r \in Range(RfcPairs)} = {r.seq : r \in Range(df_matched)}
            /\ \A r \in Range(RfcPairs), s \in Range(df_matched) :
                  r.seq = s.seq =>
                      (s.recv - s.send) - Ms * (r.recv - r.send) \in 0 .. Ms - 1

\* A matched segment has the time of an earliest transmission and of the first
\* arrival of that very packet, once, although both logs hold retransmissions
\* and are not sorted.
MatchIsFirstToFirst ==
    Ran("match") =>
        /\ \A r \in Range(result.pairs) :
              /\ \A p \in Range(input.sender) : p.seq = r.seq => r.send <= p.epoch
              /\ \E p \in Range(input.sender), i \in DOMAIN input.receiver :
                    LET same(q) == q.seq = p.seq /\ q.ack = p.ack
                    IN  /\ p.seq = r.seq /\ p.epoch = r.send
                        /\ same(input.receiver[i]) /\ input.receiver[i].epoch = r.recv
                        /\ \A j \in 1 .. i - 1 : ~same(input.receiver[j])
        /\ \A i, j \in DOMAIN result.pairs :
              result.pairs[i].seq = result.pairs[j].seq => i = j

\* The two scripts match the same packets with the same times if the arrivals
\* are logged in the order of time and a retransmission repeats its ack.
MatchersAgree ==
    LET packets == Range(input.sender) \cup Range(input.receiver)
    IN  /\ Ran("match")
        /\ \A p, q \in packets : p.seq = q.seq => p.ack = q.ack
        /\ \A i, j \in DOMAIN input.receiver :
              i < j => input.receiver[i].epoch <= input.receiver[j].epoch
        => Range(result.pairs) = Range(result.transit)

\* For segments that were sent in the order of the stream, in different
\* milliseconds, the two scripts report the jitter of every packet with a possible
\* transit time, if the first one has, to the millisecond that rfc-jitter.py cuts
\* off: the error of a difference never adds up.  (Otherwise they differ: one goes
\* through the segments in the order of sending, the other in that of the stream.)
\* No jitter exceeds the largest difference between two transit times.
JitterAgrees ==
    LET times   == transits(input)
        valid   == {k \in DOMAIN input : times[k] >= 0}
        spread  == Max({Distance(times[a], times[b]) : a, b \in valid})
        inorder == \A i, j \in DOMAIN input : i < j => input[i].send < input[j].send
    IN  Ran("jitter") /\ times[1] >= 0 =>
            /\ Len(result.rfc) = Cardinality(valid)
            /\ \A k \in valid : result.logs[k].num <= 16 ^ result.logs[k].k * spread
            /\ inorder => \A k \in valid :
                  LET r == result.rfc[Cardinality(valid \cap (1 .. k))]
                      l == result.logs[k]
                  IN  r.k = l.k /\ Distance(Ms * r.num, l.num) <= 16 ^ l.k * (Ms - 1)

\* Every byte of the stream is counted once, retransmitted or not: there are as
\* many frames as the segments fill, if no segment is larger than a frame, frames
\* are never complete in the wrong order, and the estimate fails exactly if the
\* segments fill no frame.
FramesFollowTheStream ==
    kind = "frames" /\ pc # "run" =>
        LET total == FoldLeft(LAMBDA n, p : n + p.len, 0, first_copies(input))
        IN  /\ FrameSize * Len(result.frames) + result.bytes = total
            /\ (\A p \in Range(input) : p.len <= FrameSize) => result.bytes < FrameSize
            /\ \A k \in 1 .. Len(result.frames) - 1 : result.frames[k] <= result.frames[k + 1]
            /\ pc = "crashed" <=> total < FrameSize

\* compute-iat.py compares the second gap between packets with a first gap of 0.
\* For packets that arrive at a steady pace that costs a sixteenth of the pace,
\* and the error only dies out.
SteadyFlowSettles ==
    Ran("iat") =>
        LET gap    == input[2] - input[1]
            steady == \A k \in 2 .. Len(input) : input[k] - input[k - 1] = gap
        IN  steady =>
                \A k \in 2 .. Len(result) :
                    /\ 16 * result[k].num <= gap * 16 ^ result[k].k
                    /\ k > 2 => result[k].num * 16 ^ result[k - 1].k
                               <= result[k - 1].num * 16 ^ result[k].k

=============================================================================
