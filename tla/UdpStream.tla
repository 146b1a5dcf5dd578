------------------------------ MODULE UdpStream ------------------------------
(***************************************************************************)
(* The statistics of one UDP stream: the sender numbers its datagrams, the *)
(* network loses, duplicates and reorders them, the receiver counts losses *)
(* and reordering from the numbers alone (iperf_udp.c), cuts its counters  *)
(* into intervals, starts afresh when the omitted period ends, and both    *)
(* sides report at the end (iperf_stats_callback, iperf_reset_stats,       *)
(* get_results and iperf_print_results of iperf_api.c).                    *)
(*                                                                         *)
(* One datagram stands for blksize bytes. Which side is client or server   *)
(* does not matter: results travel from the receiver to the sender.        *)
(***************************************************************************)
EXTENDS Integers, FiniteSets

CONSTANTS
    MaxSent,        \* bound on the datagrams sent
    MaxArrivals,    \* bound on the datagrams that arrive, duplicates included
    MaxIntervals    \* bound on the intervals recorded

ASSUME UdpAssumption ==
    MaxSent \in Nat /\ MaxArrivals \in Nat /\ MaxIntervals \in Nat

VARIABLES
    snd,        \* the sender's stream
    rcv,        \* the receiver's stream
    ivl,        \* the receiver's intervals
    net,        \* the datagrams that may still arrive
    got         \* the datagrams that have arrived at least once

vars == <<snd, rcv, ivl, net, got>>

Packets == 1 .. MaxSent

\* packet_count, omitted_packet_count and test->omitting on both sides; the
\* receiver's cnt_error, outoforder_packets, bytes_received and
\* bytes_received_this_interval; what a side has reported at the end.
Report == [lost : Int, total : Int]
Sender ==
    [count : 0 .. MaxSent, omitted : 0 .. MaxSent, omitting : BOOLEAN,
     report : SUBSET Report]
Receiver ==
    [count : 0 .. MaxSent, omitted : 0 .. MaxSent, omitting : BOOLEAN,
     errors : Nat, late : Nat, bytes : Nat, bytesNow : Nat,
     arrivals : 0 .. MaxArrivals, done : BOOLEAN, report : SUBSET Report]
Intervals ==
    [n : 0 .. MaxIntervals + 1, count : 0 .. MaxSent, errors : Nat, late : Nat,
     lost : Int, lostSum : Int, lateSum : Int, bytesSum : Nat, bytesAt : Nat]

TypeOK ==
    /\ snd \in Sender
    /\ rcv \in Receiver
    /\ ivl \in Intervals
    /\ net \subseteq Packets
    /\ got \subseteq Packets

Init ==
    /\ \E omitting \in BOOLEAN :
        /\ snd = [count |-> 0, omitted |-> 0, omitting |-> omitting, report |-> {}]
        /\ rcv = [count |-> 0, omitted |-> 0, omitting |-> omitting, errors |-> 0,
                  late |-> 0, bytes |-> 0, bytesNow |-> 0, arrivals |-> 0, done |-> FALSE,
                  report |-> {}]
    /\ ivl = [n |-> 0, count |-> 0, errors |-> 0, late |-> 0, lost |-> 0, lostSum |-> 0,
              lateSum |-> 0, bytesSum |-> 0, bytesAt |-> 0]
    /\ net = {}
    /\ got = {}

\* Both sides have reported.
Over == rcv.report # {}

-----------------------------------------------------------------------------
(* iperf_udp_send and the network. *)

\* The number is used up whether or not the write succeeds.
SendPacket ==
    /\ ~Over /\ snd.count < MaxSent
    /\ snd' = [snd EXCEPT !.count = @ + 1]
    /\ net' \in {net, net \cup {snd.count + 1}}
    /\ UNCHANGED <<rcv, ivl, got>>

Lose ==
    /\ \E p \in net : net' = net \ {p}
    /\ UNCHANGED <<snd, rcv, ivl, got>>

-----------------------------------------------------------------------------
(* iperf_udp_recv. *)

\* Mutant: a gap is counted one too long.
GapOneTooLong(p) == IF p > rcv.count + 1 THEN p - rcv.count ELSE 0

\* The datagrams skipped by one that is ahead.
Gap(p) == IF p > rcv.count + 1 THEN (p - 1) - rcv.count ELSE 0

Counted ==
    [rcv EXCEPT !.bytes = @ + 1, !.bytesNow = @ + 1, !.arrivals = @ + 1]

\* Datagram p arrives; it may arrive again.
Recv(p) ==
    /\ ~Over /\ rcv.arrivals < MaxArrivals
    /\ p \in net
    /\ net' \in {net, net \ {p}}
    /\ got' = got \cup {p}
    /\ rcv' = IF p >= rcv.count + 1
                THEN [Counted EXCEPT !.errors = @ + Gap(p), !.count = p]
                ELSE [Counted EXCEPT !.late = @ + 1]
    /\ UNCHANGED <<snd, ivl>>

-----------------------------------------------------------------------------
(* Intervals and the omitted period. *)

\* Mutant: the interval takes the total bytes.
RecordedTotals ==
    [n |-> ivl.n + 1, count |-> rcv.count, errors |-> rcv.errors, late |-> rcv.late,
     lost |-> rcv.errors - ivl.errors,
     lostSum |-> ivl.lostSum + rcv.errors, lateSum |-> ivl.lateSum + rcv.late,
     bytesSum |-> IF rcv.omitting THEN ivl.bytesSum ELSE ivl.bytesSum + rcv.bytes,
     bytesAt |-> rcv.bytes]

\* iperf_stats_callback: the counters minus those of the interval before. lost
\* is the interval's interval_cnt_error; lostSum, lateSum and bytesSum add up
\* what the intervals show, bytes without the omitted ones.
Recorded ==
    [n |-> ivl.n + 1, count |-> rcv.count, errors |-> rcv.errors, late |-> rcv.late,
     lost |-> rcv.errors - ivl.errors,
     lostSum |-> ivl.lostSum + (rcv.errors - ivl.errors),
     lateSum |-> ivl.lateSum + (rcv.late - ivl.late),
     bytesSum |-> IF rcv.omitting THEN ivl.bytesSum ELSE ivl.bytesSum + rcv.bytesNow,
     bytesAt |-> rcv.bytes]

StatsTimer ==
    /\ ~rcv.done /\ ivl.n < MaxIntervals
    /\ ivl' = Recorded
    /\ rcv' = [rcv EXCEPT !.bytesNow = 0]
    /\ UNCHANGED <<snd, net, got>>

\* Mutant: iperf_reset_stats forgets omitted_packet_count.
ResetKeepsOmitted ==
    [rcv EXCEPT !.omitting = FALSE, !.errors = 0, !.late = 0, !.bytes = 0, !.bytesNow = 0]

\* iperf_reset_stats: the receiver's omitted period ends. The intervals already
\* recorded are not touched; bytesAt follows the counter it is compared with.
ResetStats ==
    [rcv EXCEPT !.omitting = FALSE, !.omitted = rcv.count, !.errors = 0, !.late = 0,
                !.bytes = 0, !.bytesNow = 0]

OmitEndsAtReceiver ==
    /\ ~rcv.done /\ rcv.omitting
    /\ rcv' = ResetStats
    /\ ivl' = [ivl EXCEPT !.bytesAt = 0]
    /\ UNCHANGED <<snd, net, got>>

\* The sender's omitted period ends by its own timer.
OmitEndsAtSender ==
    /\ ~Over /\ snd.omitting
    /\ snd' = [snd EXCEPT !.omitting = FALSE, !.omitted = snd.count]
    /\ UNCHANGED <<rcv, ivl, net, got>>

-----------------------------------------------------------------------------
(* The end of the test. *)

\* The test is done: the last interval is recorded, outside the timer. The
\* client leaves its loop only when it is not omitting; the server's timer may
\* still be to come.
Done ==
    /\ ~rcv.done
    /\ ~snd.omitting \/ ~rcv.omitting
    /\ ivl' = Recorded
    /\ rcv' = [rcv EXCEPT !.bytesNow = 0, !.done = TRUE]
    /\ UNCHANGED <<snd, net, got>>

\* The receiver's report, from its own counters.
ReceiverReport == [lost |-> rcv.errors, total |-> rcv.count - rcv.omitted]
\* The sender's, from the counters it has received and its own
\* omitted_packet_count.
SenderReport == [lost |-> rcv.errors, total |-> rcv.count - snd.omitted]

\* The exchange of results and the final reports. A receiver that is the client
\* goes on reading until then.
ExchangeResults ==
    /\ rcv.done /\ ~Over
    /\ rcv' = [rcv EXCEPT !.report = {ReceiverReport}]
    /\ snd' = [snd EXCEPT !.report = {SenderReport}]
    /\ UNCHANGED <<ivl, net, got>>

-----------------------------------------------------------------------------
Next ==
    \/ SendPacket \/ Lose \/ (\E p \in Packets : Recv(p)) \/ StatsTimer
    \/ OmitEndsAtReceiver \/ OmitEndsAtSender \/ Done \/ ExchangeResults

Spec == Init /\ [][Next]_vars

-----------------------------------------------------------------------------
(* Properties. *)

\* The datagrams since the omitted period that have not arrived, although a
\* later one has.
Missing == (rcv.omitted + 1 .. rcv.count) \ got

\* The loss the receiver reports is never too small, and too large by at most
\* the number of datagrams it calls out of order: late ones are counted as lost
\* and never taken back (iperf_udp_recv), whatever is lost, duplicated or
\* reordered across the end of the omitted period.
LossBounds ==
    /\ Cardinality(Missing) <= rcv.errors
    /\ rcv.errors - rcv.late <= Cardinality(Missing)

\* At the receiver losses are a proper part of the total, so that the
\* percentage of loss is below 100, and the total is one of datagrams sent.
ReceiverTotals ==
    /\ rcv.errors < rcv.count - rcv.omitted \/ (rcv.errors = 0 /\ rcv.count = rcv.omitted)
    /\ rcv.count <= snd.count

\* The intervals add up to the counters they were cut from, reordering and the
\* reset at the end of the omitted period included: an omitted interval's
\* losses are subtracted again by the first interval after it, and the bytes of
\* the intervals not marked omitted are those of the final report.
IntervalsAddUp ==
    /\ ivl.lostSum = ivl.errors /\ ivl.lateSum = ivl.late
    /\ ivl.bytesSum = ivl.bytesAt \/ rcv.omitting
    /\ ivl.bytesAt + rcv.bytesNow = rcv.bytes

\* "Lost/Total Datagrams": the sender's final report shows losses out of a
\* total.
SenderLossWithinTotal == \A r \in snd.report : r.lost <= r.total
=============================================================================
