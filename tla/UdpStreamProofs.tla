--------------------------- MODULE UdpStreamProofs ---------------------------
(***************************************************************************)
(* Theorems about UdpStream, for any number of datagrams, arrivals and     *)
(* intervals.                                                              *)
(***************************************************************************)
EXTENDS UdpStream, FiniteSetTheorems, TLAPS

\* What the receiver's totals and the sums of the intervals rest on: nothing
\* arrives that was not sent, omitted intervals add no bytes, and only the end of
\* the test records one interval more than the timer may.
Books ==
    /\ \A p \in net : p <= snd.count
    /\ rcv.omitting => ivl.bytesSum = 0
    /\ ~rcv.done => ivl.n <= MaxIntervals

UdpInv == TypeOK /\ Books /\ ReceiverTotals /\ IntervalsAddUp

LEMMA UdpInit == Init => UdpInv
<1> USE UdpAssumption
<1> SUFFICES ASSUME Init PROVE UdpInv
  OBVIOUS
<1>1. TypeOK
  BY DEF Init, TypeOK, Sender, Receiver, Intervals
<1>2. Books /\ ReceiverTotals /\ IntervalsAddUp
  BY DEF Init, Books, ReceiverTotals, IntervalsAddUp
<1> QED
  BY <1>1, <1>2 DEF UdpInv

\* Recording an interval, at a timer or at the end.
LEMMA RecordKeepsBooks ==
    ASSUME UdpInv, ivl.n <= MaxIntervals, ivl' = Recorded,
           rcv'.bytesNow = 0,
           rcv'.bytes = rcv.bytes, rcv'.omitting = rcv.omitting
    PROVE  /\ ivl' \in Intervals
           /\ IntervalsAddUp'
           /\ rcv'.omitting => ivl'.bytesSum = 0
<1> USE UdpAssumption
<1>1. /\ ivl.n \in 0 .. MaxIntervals + 1 /\ rcv.count \in 0 .. MaxSent
      /\ rcv.errors \in Nat /\ rcv.late \in Nat /\ ivl.errors \in Nat /\ ivl.late \in Nat
      /\ ivl.lostSum \in Int /\ ivl.lateSum \in Int /\ ivl.bytesSum \in Nat
      /\ ivl.bytesAt \in Nat /\ rcv.bytes \in Nat /\ rcv.bytesNow \in Nat
      /\ rcv.omitting \in BOOLEAN
  BY DEF UdpInv, TypeOK, Sender, Receiver, Intervals
<1>2. ivl' \in Intervals
  BY <1>1 DEF Recorded, Intervals
<1>3. IntervalsAddUp'
  BY <1>1 DEF Recorded, IntervalsAddUp, UdpInv
<1>4. rcv'.omitting => ivl'.bytesSum = 0
  BY <1>1 DEF Recorded, Books, UdpInv
<1> QED
  BY <1>2, <1>3, <1>4

LEMMA UdpNext == UdpInv /\ [Next]_vars => UdpInv'
<1> USE UdpAssumption
<1> SUFFICES ASSUME UdpInv, [Next]_vars PROVE UdpInv'
  OBVIOUS
<1> USE DEF UdpInv
<1>1. CASE SendPacket
  <2>1. TypeOK'
    BY <1>1 DEF SendPacket, TypeOK, Sender, Receiver, Intervals, Packets
  <2>2. Books' /\ ReceiverTotals' /\ IntervalsAddUp'
    BY <1>1 DEF SendPacket, TypeOK, Sender, Receiver, Intervals, Packets, Books,
       ReceiverTotals, IntervalsAddUp
  <2> QED
    BY <2>1, <2>2
<1>2. CASE Lose
  BY <1>2 DEF Lose, TypeOK, Sender, Receiver, Intervals, Books, ReceiverTotals,
     IntervalsAddUp
<1>3. ASSUME NEW p \in Packets, Recv(p) PROVE UdpInv'
  <2>0. p \in 1 .. MaxSent /\ p \in net /\ p <= snd.count
    BY <1>3 DEF Recv, Packets, Books
  <2>1. /\ snd' = snd /\ ivl' = ivl
        /\ net' \subseteq net /\ got' \subseteq Packets
    BY <1>3 DEF Recv, TypeOK, Sender, Receiver, Intervals
  <2>2. /\ Counted \in Receiver
        /\ Counted.count = rcv.count /\ Counted.omitted = rcv.omitted
        /\ Counted.omitting = rcv.omitting /\ Counted.errors = rcv.errors
        /\ Counted.bytes = rcv.bytes + 1 /\ Counted.bytesNow = rcv.bytesNow + 1
        /\ Counted.done = rcv.done
    <3>1. /\ rcv.arrivals + 1 \in 0 .. MaxArrivals
          /\ rcv.bytes + 1 \in Nat /\ rcv.bytesNow + 1 \in Nat
      BY <1>3 DEF Recv, TypeOK, Sender, Receiver, Intervals
    <3> QED
      BY <3>1 DEF Counted, TypeOK, Sender, Receiver, Intervals
  <2>3. /\ rcv' \in Receiver
        /\ rcv'.omitted = rcv.omitted /\ rcv'.omitting = rcv.omitting
        /\ rcv'.bytes = rcv.bytes + 1 /\ rcv'.bytesNow = rcv.bytesNow + 1
        /\ rcv'.done = rcv.done
        /\ \/ rcv'.count = p /\ p > rcv.count /\ rcv'.errors = rcv.errors + (p - 1 - rcv.count)
           \/ rcv'.count = rcv.count /\ rcv'.errors = rcv.errors
    <3>1. CASE p >= rcv.count + 1
      <4>1. rcv' = [Counted EXCEPT !.errors = @ + Gap(p), !.count = p]
        BY <1>3, <3>1 DEF Recv
      <4>2. Gap(p) = p - 1 - rcv.count /\ Gap(p) \in Nat /\ p > rcv.count
        BY <2>0, <3>1 DEF Gap, TypeOK, Sender, Receiver, Intervals
      <4>3. p \in 0 .. MaxSent /\ Counted.errors + Gap(p) \in Nat
        BY <2>0, <2>2, <4>2 DEF Receiver
      <4> QED
        BY <2>2, <4>1, <4>2, <4>3 DEF Receiver
    <3>2. CASE ~(p >= rcv.count + 1)
      <4>1. rcv' = [Counted EXCEPT !.late = @ + 1]
        BY <1>3, <3>2 DEF Recv
      <4> QED
        BY <2>2, <4>1 DEF Receiver
    <3> QED
      BY <3>1, <3>2
  <2>4. TypeOK'
    BY <2>1, <2>3 DEF TypeOK, Sender, Receiver, Intervals
  <2>5. Books'
    BY <2>1, <2>3 DEF Books
  <2>6. ReceiverTotals'
    BY <2>0, <2>1, <2>3 DEF TypeOK, Sender, Receiver, Intervals, ReceiverTotals
  <2>7. IntervalsAddUp'
    BY <2>1, <2>3 DEF TypeOK, Sender, Receiver, Intervals, IntervalsAddUp
  <2> QED
    BY <2>4, <2>5, <2>6, <2>7
<1>4. CASE StatsTimer
  <2>1. ivl.n <= MaxIntervals /\ ivl' = Recorded
    BY <1>4 DEF StatsTimer, TypeOK, Sender, Receiver, Intervals
  <2>2. /\ rcv' = [rcv EXCEPT !.bytesNow = 0]
        /\ rcv'.bytesNow = 0 /\ rcv'.bytes = rcv.bytes /\ rcv'.omitting = rcv.omitting
    BY <1>4 DEF StatsTimer, TypeOK, Sender, Receiver, Intervals
  <2>3. TypeOK'
    BY <1>4, <2>1, <2>2, RecordKeepsBooks DEF StatsTimer, TypeOK, Sender, Receiver,
       Intervals
  <2>4. ivl'.n <= MaxIntervals
    BY <1>4 DEF StatsTimer, Recorded, TypeOK, Sender, Receiver, Intervals
  <2>5. Books'
    BY <1>4, <2>1, <2>2, <2>4, RecordKeepsBooks DEF StatsTimer, Books
  <2>6. ReceiverTotals' /\ IntervalsAddUp'
    BY <1>4, <2>1, <2>2, RecordKeepsBooks DEF StatsTimer, TypeOK, Sender, Receiver,
       Intervals, ReceiverTotals
  <2> QED
    BY <2>3, <2>5, <2>6
<1>5. CASE OmitEndsAtReceiver
  <2>1. TypeOK'
    BY <1>5 DEF OmitEndsAtReceiver, ResetStats, TypeOK, Sender, Receiver, Intervals
  <2>2. Books' /\ ReceiverTotals' /\ IntervalsAddUp'
    BY <1>5 DEF OmitEndsAtReceiver, ResetStats, TypeOK, Sender, Receiver, Intervals,
       Books, ReceiverTotals, IntervalsAddUp
  <2> QED
    BY <2>1, <2>2
<1>6. CASE OmitEndsAtSender
  BY <1>6 DEF OmitEndsAtSender, TypeOK, Sender, Receiver, Intervals, Books,
     ReceiverTotals, IntervalsAddUp
<1>7. CASE Done
  <2>1. ivl.n <= MaxIntervals /\ ivl' = Recorded
    BY <1>7 DEF Done, Books
  <2>2. /\ rcv' = [rcv EXCEPT !.bytesNow = 0, !.done = TRUE]
        /\ rcv'.bytesNow = 0 /\ rcv'.bytes = rcv.bytes /\ rcv'.omitting = rcv.omitting
    BY <1>7 DEF Done, TypeOK, Sender, Receiver, Intervals
  <2>3. TypeOK'
    <3>1. rcv' \in Receiver
      BY <2>2 DEF TypeOK, Sender, Receiver, Intervals
    <3>2. ivl' \in Intervals
      BY <2>1, <2>2, RecordKeepsBooks
    <3> QED
      BY <1>7, <3>1, <3>2 DEF Done, TypeOK, Sender, Receiver, Intervals
  <2>4. rcv'.done
    BY <2>2 DEF TypeOK, Sender, Receiver, Intervals
  <2>5. Books'
    BY <1>7, <2>1, <2>2, <2>4, RecordKeepsBooks DEF Done, Books
  <2>6. ReceiverTotals' /\ IntervalsAddUp'
    BY <1>7, <2>1, <2>2, RecordKeepsBooks DEF Done, TypeOK, Sender, Receiver,
       Intervals, ReceiverTotals
  <2> QED
    BY <2>3, <2>5, <2>6
<1>8. CASE ExchangeResults
  <2>1. ReceiverReport \in Report /\ SenderReport \in Report
    BY DEF ReceiverReport, SenderReport, Report, TypeOK, Sender, Receiver, Intervals
  <2>2. TypeOK'
    BY <1>8, <2>1 DEF ExchangeResults, TypeOK, Sender, Receiver, Intervals
  <2>3. Books' /\ ReceiverTotals' /\ IntervalsAddUp'
    BY <1>8 DEF ExchangeResults, TypeOK, Sender, Receiver, Intervals, Books,
       ReceiverTotals, IntervalsAddUp
  <2> QED
    BY <2>2, <2>3
<1>9. CASE UNCHANGED vars
  BY <1>9 DEF vars, TypeOK, Sender, Receiver, Intervals, Books, ReceiverTotals,
     IntervalsAddUp
<1> QED
  BY <1>1, <1>2, <1>3, <1>4, <1>5, <1>6, <1>7, <1>8, <1>9 DEF Next

\* In every test, however long: the receiver's losses are a proper part of its
\* total, which never exceeds what was sent.
THEOREM TotalsHold == Spec => []ReceiverTotals
<1>1. UdpInv => ReceiverTotals
  BY DEF UdpInv
<1> QED
  BY <1>1, UdpInit, UdpNext, PTL DEF Spec

\* In every test, however it is cut into intervals and whenever the omitted
\* period ends: the intervals add up to the counters of the final report.
THEOREM IntervalsHold == Spec => []IntervalsAddUp
<1>1. UdpInv => IntervalsAddUp
  BY DEF UdpInv
<1> QED
  BY <1>1, UdpInit, UdpNext, PTL DEF Spec

-----------------------------------------------------------------------------
(* The loss the receiver counts against the datagrams that are missing. *)

\* Nothing has arrived that is ahead of the highest number seen.
LossInv == LossBounds /\ got \subseteq 1 .. rcv.count

\* The library's facts in the form in which they are used here.
LEMMA SpanFinite ==
    ASSUME NEW a \in Nat, NEW b \in Nat
    PROVE  /\ IsFiniteSet(a + 1 .. b)
           /\ b >= a => Cardinality(a + 1 .. b) = b - a
<1>1. a + 1 \in Int /\ b \in Int
  OBVIOUS
<1>2. /\ IsFiniteSet(a + 1 .. b)
      /\ Cardinality(a + 1 .. b) = IF a + 1 > b THEN 0 ELSE b - (a + 1) + 1
  BY <1>1, FS_Interval
<1> QED
  BY <1>2

LEMMA DisjointUnion ==
    ASSUME NEW S, NEW T, IsFiniteSet(S), IsFiniteSet(T), S \cap T = {}
    PROVE  Cardinality(S \cup T) = Cardinality(S) + Cardinality(T)
<1>1. Cardinality(S \cup T) = Cardinality(S) + Cardinality(T) - Cardinality(S \cap T)
  BY FS_Union
<1>2. Cardinality(S \cap T) = 0
  BY FS_EmptySet
<1>3. Cardinality(S) \in Nat /\ Cardinality(T) \in Nat
  BY FS_CardinalityType
<1> QED
  BY <1>1, <1>2, <1>3

\* The numbers of the receiver, and the set of the missing datagrams is finite.
LEMMA ReceiverFacts ==
    ASSUME UdpInv
    PROVE  /\ rcv.count \in Nat /\ rcv.omitted \in Nat /\ rcv.omitted <= rcv.count
           /\ rcv.errors \in Nat /\ rcv.late \in Nat
           /\ IsFiniteSet(Missing) /\ Cardinality(Missing) \in Nat
<1>1. /\ rcv.count \in Nat /\ rcv.omitted \in Nat
      /\ rcv.errors \in Nat /\ rcv.late \in Nat
  BY UdpAssumption DEF UdpInv, TypeOK, Receiver
<1>2. rcv.omitted <= rcv.count
  BY <1>1 DEF UdpInv, ReceiverTotals
<1>3. IsFiniteSet(rcv.omitted + 1 .. rcv.count)
  BY <1>1, SpanFinite
<1>4. IsFiniteSet(Missing)
  BY <1>3, FS_Difference DEF Missing
<1> QED
  BY <1>1, <1>2, <1>4, FS_CardinalityType

\* A datagram ahead adds those it skips to the missing ones.
LEMMA AheadMisses ==
    ASSUME UdpInv, LossInv, NEW p \in Nat, p >= rcv.count + 1,
           got' = got \cup {p}, rcv'.count = p, rcv'.omitted = rcv.omitted
    PROVE  Cardinality(Missing') = Cardinality(Missing) + (p - 1 - rcv.count)
<1> DEFINE skipped == rcv.count + 1 .. p - 1
<1>1. Missing' = Missing \cup skipped /\ Missing \cap skipped = {}
  BY ReceiverFacts DEF Missing, LossInv
<1>2. IsFiniteSet(skipped) /\ Cardinality(skipped) = p - 1 - rcv.count
  <2>1. rcv.count \in Nat /\ p - 1 \in Nat /\ p - 1 >= rcv.count
    BY ReceiverFacts
  <2> QED
    BY <2>1, SpanFinite
<1> HIDE DEF skipped
<1>3. Cardinality(Missing \cup skipped) = Cardinality(Missing) + Cardinality(skipped)
  BY <1>1, <1>2, ReceiverFacts, DisjointUnion
<1> QED
  BY <1>1, <1>2, <1>3, ReceiverFacts

\* A late one takes at most itself away.
LEMMA LateFills ==
    ASSUME UdpInv, NEW p, got' = got \cup {p}, rcv'.count = rcv.count,
           rcv'.omitted = rcv.omitted
    PROVE  Cardinality(Missing') \in {Cardinality(Missing), Cardinality(Missing) - 1}
<1>1. Missing' = Missing \ {p}
  BY DEF Missing
<1> QED
  BY <1>1, ReceiverFacts, FS_RemoveElement

LEMMA LossNext == UdpInv /\ LossInv /\ [Next]_vars => LossInv'
<1> SUFFICES ASSUME UdpInv, LossInv, [Next]_vars PROVE LossInv'
  OBVIOUS
<1>0. rcv \in Receiver
  BY DEF UdpInv, TypeOK
<1>1. ASSUME UNCHANGED got, rcv'.count = rcv.count, rcv'.omitted = rcv.omitted,
             rcv'.errors = rcv.errors, rcv'.late = rcv.late
      PROVE  LossInv'
  BY <1>1 DEF LossInv, LossBounds, Missing
<1>2. CASE SendPacket \/ Lose \/ StatsTimer \/ OmitEndsAtSender \/ Done \/ ExchangeResults
           \/ UNCHANGED vars
  BY <1>0, <1>1, <1>2 DEF SendPacket, Lose, StatsTimer, OmitEndsAtSender, Done,
     ExchangeResults, vars, Receiver
<1>3. CASE OmitEndsAtReceiver
  <2>1. /\ UNCHANGED got /\ rcv'.count = rcv.count /\ rcv'.omitted = rcv.count
        /\ rcv'.errors = 0 /\ rcv'.late = 0
    BY <1>0, <1>3 DEF OmitEndsAtReceiver, ResetStats, Receiver
  <2>2. Missing' = {}
    BY <2>1, ReceiverFacts DEF Missing
  <2> QED
    BY <2>1, <2>2, FS_EmptySet DEF LossInv, LossBounds
<1>4. ASSUME NEW p \in Packets, Recv(p) PROVE LossInv'
  <2>1. got' = got \cup {p} /\ p \in Nat /\ p >= 1
    BY <1>4, UdpAssumption DEF Recv, Packets
  <2>2. /\ Counted.count = rcv.count /\ Counted.omitted = rcv.omitted
        /\ Counted.errors = rcv.errors /\ Counted.late = rcv.late
        /\ DOMAIN Counted = DOMAIN rcv
    BY <1>0 DEF Counted, Receiver
  <2>3. CASE p >= rcv.count + 1
    <3>1. rcv' = [Counted EXCEPT !.errors = @ + Gap(p), !.count = p]
      BY <1>4, <2>3 DEF Recv
    <3>2. Gap(p) = p - 1 - rcv.count
      BY <2>1, <2>3, ReceiverFacts DEF Gap
    <3>3. /\ rcv'.count = p /\ rcv'.omitted = rcv.omitted /\ rcv'.late = rcv.late
          /\ rcv'.errors = rcv.errors + (p - 1 - rcv.count)
      BY <1>0, <2>2, <3>1, <3>2 DEF Receiver
    <3>4. Cardinality(Missing') = Cardinality(Missing) + (p - 1 - rcv.count)
      BY <2>1, <2>3, <3>3, AheadMisses
    <3>5. LossBounds'
      BY <2>1, <2>3, <3>3, <3>4, ReceiverFacts DEF LossInv, LossBounds
    <3>6. got' \subseteq 1 .. rcv'.count
      BY <2>1, <2>3, <3>3, ReceiverFacts DEF LossInv
    <3> QED
      BY <3>5, <3>6 DEF LossInv
  <2>4. CASE ~(p >= rcv.count + 1)
    <3>1. rcv' = [Counted EXCEPT !.late = @ + 1]
      BY <1>4, <2>4 DEF Recv
    <3>2. /\ rcv'.count = rcv.count /\ rcv'.omitted = rcv.omitted
          /\ rcv'.errors = rcv.errors /\ rcv'.late = rcv.late + 1
      BY <1>0, <2>2, <3>1 DEF Receiver
    <3>3. Cardinality(Missing') \in {Cardinality(Missing), Cardinality(Missing) - 1}
      BY <2>1, <3>2, LateFills
    <3>4. LossBounds'
      BY <3>2, <3>3, ReceiverFacts DEF LossInv, LossBounds
    <3>5. got' \subseteq 1 .. rcv'.count
      BY <2>1, <2>4, <3>2, ReceiverFacts DEF LossInv
    <3> QED
      BY <3>4, <3>5 DEF LossInv
  <2> QED
    BY <2>3, <2>4
<1> QED
  BY <1>2, <1>3, <1>4 DEF Next

\* In every test, however many datagrams are lost, duplicated or reordered
\* across the end of the omitted period: the loss iperf_udp_recv has counted is
\* at least what is missing, and exceeds it by no more than its out-of-order
\* count.
THEOREM LossWithinBounds == Spec => []LossBounds
<1>1. Init => LossInv
  <2> SUFFICES ASSUME Init PROVE LossInv
    OBVIOUS
  <2>1. Missing = {} /\ rcv.errors = 0 /\ rcv.late = 0 /\ got = {}
    BY DEF Init, Missing
  <2> QED
    BY <2>1, FS_EmptySet DEF LossInv, LossBounds
<1>2. LossInv => LossBounds
  BY DEF LossInv
<1> QED
  BY <1>1, <1>2, UdpInit, UdpNext, LossNext, PTL DEF Spec
==============================================================================
