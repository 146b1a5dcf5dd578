--------------------------- MODULE ScanMergeProofs ---------------------------
(***************************************************************************)
(* The scan list is right for every list of results the system returns.    *)
(***************************************************************************)
EXTENDS ScanMerge, TLAPS

\* Every entry was made from a result already handled.
EntriesFromResults ==
    \A k \in DOMAIN temps : \E j \in DOMAIN results : j < at /\ temps[k].result = results[j]

MergeInv ==
    /\ TypeOK /\ Sorted(results) /\ EntriesFromResults
    /\ OneEntryPerName /\ BandsMerged /\ StrongestFirst

-----------------------------------------------------------------------------
(* The operators. *)

\* The codes of one frequency and of the bands it is on agree.
LEMMA FrequencySupportRight ==
    ASSUME NEW f \in Frequencies
    PROVE  FrequencySupport(f) \in 0 .. 3 /\ Shown(FrequencySupport(f)) = Heard(f)
<1>1. f \in 1000 .. 9999
  BY ScanAssumption
<1>2. /\ f \div 2000 = 1 <=> 2000 <= f /\ f < 4000
      /\ f \div 5000 = 1 <=> 5000 <= f
  BY <1>1
<1>3. CASE 2000 <= f /\ f < 4000
  <2>1. FrequencySupport(f) = 1
    BY <1>1, <1>2, <1>3 DEF FrequencySupport
  <2> QED
    BY <1>1, <1>3, <2>1 DEF Shown, Heard
<1>4. CASE 5000 <= f
  <2>1. FrequencySupport(f) = 2
    BY <1>1, <1>2, <1>4 DEF FrequencySupport
  <2> QED
    BY <1>1, <1>4, <2>1 DEF Shown, Heard
<1>5. CASE ~(2000 <= f /\ f < 4000) /\ ~(5000 <= f)
  <2>1. FrequencySupport(f) = 0
    BY <1>1, <1>2, <1>5 DEF FrequencySupport
  <2> QED
    BY <1>1, <1>5, <2>1 DEF Shown, Heard
<1> QED
  BY <1>3, <1>4, <1>5

\* Merging a frequency into a code adds its bands and nothing else.
LEMMA MergeFreqRight ==
    ASSUME NEW f \in Frequencies, NEW freq \in 0 .. 3
    PROVE  MergeFreq(freq, f) \in 0 .. 3 /\ Shown(MergeFreq(freq, f)) = Shown(freq) \cup Heard(f)
<1>1. f \in 1000 .. 9999
  BY ScanAssumption
<1>2. /\ f \div 2000 = 1 <=> 2000 <= f /\ f < 4000
      /\ f \div 5000 = 1 <=> 5000 <= f
  BY <1>1
<1>3. CASE 2000 <= f /\ f < 4000
  <2>1. MergeFreq(freq, f) = IF freq \in {2, 3} THEN 3 ELSE 1
    BY <1>1, <1>2, <1>3 DEF MergeFreq
  <2>2. Heard(f) = {"2.4G"}
    BY <1>1, <1>3 DEF Heard
  <2> QED
    BY <2>1, <2>2 DEF Shown
<1>4. CASE 5000 <= f
  <2>1. MergeFreq(freq, f) = IF freq \in {1, 3} THEN 3 ELSE 2
    BY <1>1, <1>2, <1>4 DEF MergeFreq
  <2>2. Heard(f) = {"5G"}
    BY <1>1, <1>4 DEF Heard
  <2>3. CASE freq \in {1, 3}
    <3>1. MergeFreq(freq, f) = 3 /\ Shown(3) = {"2.4G", "5G"}
      BY <2>1, <2>3 DEF Shown
    <3>2. Shown(freq) \cup {"5G"} = {"2.4G", "5G"}
      BY <2>3 DEF Shown
    <3> QED
      BY <2>2, <3>1, <3>2
  <2>4. CASE freq \in {0, 2}
    <3>1. MergeFreq(freq, f) = 2 /\ Shown(2) = {"5G"}
      BY <2>1, <2>4 DEF Shown
    <3>2. Shown(freq) \cup {"5G"} = {"5G"}
      BY <2>4 DEF Shown
    <3> QED
      BY <2>2, <3>1, <3>2
  <2> QED
    BY <2>3, <2>4
<1>5. CASE ~(2000 <= f /\ f < 4000) /\ ~(5000 <= f)
  <2>1. MergeFreq(freq, f) = freq
    BY <1>1, <1>2, <1>5 DEF MergeFreq
  <2>2. Heard(f) = {}
    BY <1>1, <1>5 DEF Heard
  <2>3. Shown(freq) \cup {} = Shown(freq)
    OBVIOUS
  <2> QED
    BY <2>1, <2>2, <2>3
<1> QED
  BY <1>3, <1>4, <1>5

-----------------------------------------------------------------------------
(* The loop. *)

LEMMA MergeInit == Init => MergeInv
<1> SUFFICES ASSUME Init PROVE MergeInv
  OBVIOUS
<1>1. PICK n \in 0 .. MaxResults : results \in [1 .. n -> Result]
  BY DEF Init
<1>0. n \in Nat
  BY ScanAssumption
<1>2. results \in Seq(Result) /\ Len(results) = n
  BY <1>0, <1>1
<1>3. TypeOK
  BY <1>2, ScanAssumption DEF Init, TypeOK
<1>4. EntriesFromResults /\ OneEntryPerName /\ BandsMerged /\ StrongestFirst
  BY DEF Init, EntriesFromResults, OneEntryPerName, BandsMerged, StrongestFirst
<1> QED
  BY <1>3, <1>4 DEF Init, MergeInv

\* One turn: a hidden name, a new name, a name that has an entry.
LEMMA MergeNext == MergeInv /\ [Next]_vars => MergeInv'
<1> SUFFICES ASSUME MergeInv, [Next]_vars PROVE MergeInv'
  OBVIOUS
<1>1. CASE UNCHANGED vars
  BY <1>1 DEF vars, MergeInv, TypeOK, Sorted, EntriesFromResults, OneEntryPerName,
     BandsMerged, StrongestFirst, Handled
<1>2. CASE Turn
  <2> DEFINE r == results[at]
  <2>0. /\ results \in Seq(Result) /\ temps \in Seq(Info)
        /\ at \in 1 .. Len(results) /\ at \in DOMAIN results /\ at \in Nat
        /\ results' = results /\ at' = at + 1 /\ temps' = Merge(r)
        /\ DOMAIN results = 1 .. Len(results) /\ DOMAIN temps = 1 .. Len(temps)
        /\ Len(temps) \in Nat /\ Len(results) \in Nat
    BY <1>2 DEF Turn, MergeInv, TypeOK
  <2>1. /\ \A j \in DOMAIN results : results[j] \in Result
        /\ \A k \in DOMAIN temps : temps[k] \in Info
        /\ r \in Result
    BY <2>0
  <2>2. \A x \in Result : /\ x.frequency \in Frequencies /\ x.level \in Int /\ x.level <= 0
    <3>1. \A x \in Result : x.frequency \in Frequencies /\ x.level \in Levels
      BY DEF Result
    <3>2. \A l \in Levels : l \in Int /\ l <= 0
      BY ScanAssumption
    <3> QED
      BY <3>1, <3>2
  <2>3. \A j \in DOMAIN results : j < at => results[j].level >= r.level
    <3>1. \A j \in DOMAIN results : j < at => Abs(results[j].level) <= Abs(r.level)
      BY <2>0 DEF MergeInv, Sorted
    <3> QED
      BY <2>0, <2>1, <2>2, <3>1 DEF Abs
  <2>4. Sorted(results)'
    BY <2>0 DEF MergeInv, Sorted
  <2>5. \A j : j \in 1 .. at' - 1 <=> j \in 1 .. at - 1 \/ j = at
    BY <2>0
  <2>6. \A x \in Info : x.result \in Result /\ x.freq \in 0 .. 3
    BY DEF Info
  <2> HIDE DEF r
  <2>7. CASE r.ssid = Hidden
    <3>1. temps' = temps
      BY <2>0, <2>7 DEF Merge
    <3>2. TypeOK' /\ EntriesFromResults'
      BY <2>0, <3>1 DEF MergeInv, TypeOK, EntriesFromResults
    <3>3. \A k \in DOMAIN temps : temps[k].result.ssid # Hidden
      BY DEF MergeInv, OneEntryPerName
    <3>4. OneEntryPerName'
      BY <2>0, <2>5, <2>7, <3>1 DEF MergeInv, OneEntryPerName, r
    <3>5. \A k \in DOMAIN temps : \A j :
              (j \in 1 .. at' - 1 /\ results[j].ssid = temps[k].result.ssid)
                  <=> Handled(j, temps[k].result.ssid)
      BY <2>5, <2>7, <3>3 DEF Handled, r
    <3>6. BandsMerged' /\ StrongestFirst'
      BY <2>0, <3>1, <3>5 DEF MergeInv, BandsMerged, StrongestFirst, Handled
    <3> QED
      BY <2>4, <3>2, <3>4, <3>6 DEF MergeInv
  <2>8. CASE r.ssid # Hidden /\ Adds(r)
    <3> DEFINE e == [result |-> r, freq |-> FrequencySupport(r.frequency)]
               n == Len(temps) + 1
    <3>1. temps' = Append(temps, e)
      BY <2>0, <2>8 DEF Merge
    <3>2. e \in Info /\ Shown(e.freq) = Heard(r.frequency) /\ e.result = r
      BY <2>1, <2>2, FrequencySupportRight DEF Info
    <3>3. /\ temps' \in Seq(Info) /\ DOMAIN temps' = 1 .. n /\ temps'[n] = e /\ n \in Nat
          /\ \A k \in 1 .. n : k # n => k \in DOMAIN temps /\ temps'[k] = temps[k]
      BY <2>0, <3>1, <3>2
    <3>4. \A k \in DOMAIN temps : temps[k].result.ssid # r.ssid
      BY <2>8 DEF Adds, HasDup
    <3>5. \A j \in 1 .. at - 1 : results[j].ssid # r.ssid
      BY <2>8, <3>4 DEF MergeInv, OneEntryPerName
    <3> HIDE DEF e, n
    <3>6. TypeOK'
      BY <2>0, <3>3 DEF TypeOK
    <3>7. EntriesFromResults'
      <4>1. ASSUME NEW k \in 1 .. n
            PROVE  \E j \in DOMAIN results : j < at' /\ temps'[k].result = results[j]
        <5>1. CASE k = n
          BY <2>0, <3>2, <3>3, <5>1 DEF r
        <5>2. CASE k # n
          BY <2>0, <3>3, <5>2 DEF MergeInv, EntriesFromResults
        <5> QED
          BY <5>1, <5>2
      <4> QED
        BY <2>0, <3>3, <4>1 DEF EntriesFromResults
    <3>8. OneEntryPerName'
      <4>1. \A k, m \in 1 .. n : temps'[k].result.ssid = temps'[m].result.ssid => k = m
        BY <3>2, <3>3, <3>4 DEF MergeInv, OneEntryPerName
      <4>2. \A k \in 1 .. n : temps'[k].result.ssid # Hidden
        BY <2>8, <3>2, <3>3 DEF MergeInv, OneEntryPerName
      <4>3. ASSUME NEW j \in 1 .. at' - 1, results[j].ssid # Hidden
            PROVE  \E k \in 1 .. n : temps'[k].result.ssid = results[j].ssid
        <5>1. CASE j = at
          <6>1. n \in 1 .. n /\ temps'[n].result = r
            BY <2>0, <3>2, <3>3 DEF n
          <6> QED
            BY <5>1, <6>1 DEF r
        <5>2. CASE j \in 1 .. at - 1
          <6>1. PICK k \in DOMAIN temps : temps[k].result.ssid = results[j].ssid
            BY <4>3, <5>2 DEF MergeInv, OneEntryPerName
          <6>2. k \in 1 .. n /\ temps'[k] = temps[k]
            BY <2>0, <3>1, <6>1 DEF n
          <6> QED
            BY <6>1, <6>2
        <5> QED
          BY <2>5, <5>1, <5>2
      <4> QED
        BY <2>0, <3>3, <4>1, <4>2, <4>3 DEF OneEntryPerName
    <3>9. \A k \in DOMAIN temps : \A j :
              (j \in 1 .. at' - 1 /\ results[j].ssid = temps[k].result.ssid)
                  <=> Handled(j, temps[k].result.ssid)
      BY <2>5, <3>4 DEF Handled, r
    <3>10. \A j : (j \in 1 .. at' - 1 /\ results[j].ssid = r.ssid) <=> j = at
      BY <2>0, <2>5, <3>5 DEF r
    <3>11. BandsMerged'
      <4>1. ASSUME NEW k \in 1 .. n, NEW band \in {"2.4G", "5G"}
            PROVE  band \in Shown(temps'[k].freq)
                    <=> \E j \in DOMAIN results :
                            /\ j \in 1 .. at' - 1 /\ results[j].ssid = temps'[k].result.ssid
                            /\ band \in Heard(results[j].frequency)
        <5>1. CASE k = n
          BY <2>0, <3>2, <3>3, <3>10, <5>1 DEF r
        <5>2. CASE k # n
          BY <3>3, <3>9, <5>2 DEF MergeInv, BandsMerged
        <5> QED
          BY <5>1, <5>2
      <4> QED
        BY <2>0, <3>3, <4>1 DEF BandsMerged, Handled
    <3>12. StrongestFirst'
      <4>1. ASSUME NEW k \in 1 .. n, NEW j \in DOMAIN results,
                   j \in 1 .. at' - 1, results[j].ssid = temps'[k].result.ssid
            PROVE  temps'[k].result.level >= results[j].level
        <5>1. CASE k = n
          BY <2>1, <2>2, <3>2, <3>3, <3>10, <4>1, <5>1 DEF r
        <5>2. CASE k # n
          BY <3>3, <3>9, <4>1, <5>2 DEF MergeInv, StrongestFirst
        <5> QED
          BY <5>1, <5>2
      <4>2. ASSUME NEW k \in 1 .. n, NEW m \in 1 .. n, k < m
            PROVE  temps'[k].result.level >= temps'[m].result.level
        <5>1. CASE m = n
          <6>1. k \in DOMAIN temps /\ temps'[k] = temps[k]
            BY <3>3, <4>2, <5>1
          <6>2. PICK j \in DOMAIN results : j < at /\ temps[k].result = results[j]
            BY <6>1 DEF MergeInv, EntriesFromResults
          <6> QED
            BY <2>3, <3>2, <3>3, <5>1, <6>1, <6>2
        <5>2. CASE m # n
          <6>1. k # n
            BY <3>3, <4>2, <5>2
          <6>2. /\ k \in DOMAIN temps /\ temps'[k] = temps[k]
                /\ m \in DOMAIN temps /\ temps'[m] = temps[m]
            BY <3>3, <5>2, <6>1
          <6> QED
            BY <4>2, <6>2 DEF MergeInv, StrongestFirst
        <5> QED
          BY <5>1, <5>2
      <4> QED
        BY <2>0, <3>3, <4>1, <4>2 DEF StrongestFirst, Handled
    <3> QED
      BY <2>4, <3>6, <3>7, <3>8, <3>11, <3>12 DEF MergeInv
  <2>9. CASE r.ssid # Hidden /\ ~Adds(r)
    <3> DEFINE Same(k) == temps[k].result.ssid = r.ssid
    <3>1. /\ DOMAIN temps' = DOMAIN temps
          /\ \A k \in DOMAIN temps : temps'[k] =
                IF Same(k) THEN [temps[k] EXCEPT !.freq = MergeFreq(@, r.frequency)]
                           ELSE temps[k]
      BY <2>0, <2>9 DEF Merge
    <3>2. \A k \in DOMAIN temps : /\ temps'[k] \in Info /\ temps'[k].result = temps[k].result
                                   /\ temps'[k].freq = IF Same(k)
                                        THEN MergeFreq(temps[k].freq, r.frequency)
                                        ELSE temps[k].freq
      <4>1. TAKE k \in DOMAIN temps
      <4>2. MergeFreq(temps[k].freq, r.frequency) \in 0 .. 3
        BY <2>1, <2>2, <2>6, MergeFreqRight
      <4> QED
        BY <2>1, <3>1, <4>2 DEF Info
    <3>3. PICK d \in DOMAIN temps : Same(d)
      BY <2>9 DEF Adds, HasDup
    <3>4. TypeOK'
      <4>1. temps' \in [1 .. Len(temps) -> Info]
        BY <2>0, <2>9, <3>1, <3>2 DEF Merge
      <4>2. temps' \in Seq(Info)
        BY <2>0, <4>1
      <4> QED
        BY <2>0, <4>2 DEF TypeOK
    <3>5. EntriesFromResults'
      <4>1. ASSUME NEW k \in DOMAIN temps
            PROVE  \E j \in DOMAIN results : j < at' /\ temps'[k].result = results[j]
        <5>1. PICK j \in DOMAIN results : j < at /\ temps[k].result = results[j]
          BY DEF MergeInv, EntriesFromResults
        <5> QED
          BY <2>0, <3>2, <5>1
      <4> QED
        BY <2>0, <3>1, <4>1 DEF EntriesFromResults
    <3>6. OneEntryPerName'
      <4>1. ASSUME NEW j \in 1 .. at' - 1, results[j].ssid # Hidden
            PROVE  \E k \in DOMAIN temps : temps[k].result.ssid = results[j].ssid
        BY <2>5, <3>3, <4>1 DEF MergeInv, OneEntryPerName, r
      <4>2. \A k \in DOMAIN temps : temps'[k].result.ssid = temps[k].result.ssid
        BY <3>2
      <4>3. \A k, m \in DOMAIN temps : temps'[k].result.ssid = temps'[m].result.ssid => k = m
        BY <4>2 DEF MergeInv, OneEntryPerName
      <4>4. \A k \in DOMAIN temps : temps'[k].result.ssid # Hidden
        BY <4>2 DEF MergeInv, OneEntryPerName
      <4>5. \A j \in 1 .. at' - 1 : results[j].ssid # Hidden =>
                \E k \in DOMAIN temps : temps'[k].result.ssid = results[j].ssid
        BY <4>1, <4>2
      <4> QED
        BY <2>0, <3>1, <4>3, <4>4, <4>5 DEF OneEntryPerName
    <3>7. \A k \in DOMAIN temps : \A j :
              (j \in 1 .. at' - 1 /\ results[j].ssid = temps[k].result.ssid)
                  <=> Handled(j, temps[k].result.ssid) \/ (j = at /\ Same(k))
      BY <2>5 DEF Handled, r
    <3>8. BandsMerged'
      <4>1. ASSUME NEW k \in DOMAIN temps, NEW band \in {"2.4G", "5G"}
            PROVE  band \in Shown(temps'[k].freq)
                    <=> \E j \in DOMAIN results :
                            /\ j \in 1 .. at' - 1 /\ results[j].ssid = temps[k].result.ssid
                            /\ band \in Heard(results[j].frequency)
        <5>0. band \in Shown(temps[k].freq)
                <=> \E j \in DOMAIN results : /\ Handled(j, temps[k].result.ssid)
                                             /\ band \in Heard(results[j].frequency)
          BY DEF MergeInv, BandsMerged
        <5>1. CASE Same(k)
          <6>1. Shown(temps'[k].freq) = Shown(temps[k].freq) \cup Heard(r.frequency)
            BY <2>1, <2>2, <2>6, <3>2, <5>1, MergeFreqRight
          <6> QED
            BY <2>0, <3>7, <5>0, <5>1, <6>1 DEF r
        <5>2. CASE ~Same(k)
          BY <3>2, <3>7, <5>0, <5>2
        <5> QED
          BY <5>1, <5>2
      <4>2. \A k \in DOMAIN temps : temps'[k].result = temps[k].result
        BY <3>2
      <4>3. \A k \in DOMAIN temps : \A band \in {"2.4G", "5G"} :
                band \in Shown(temps'[k].freq)
                    <=> \E j \in DOMAIN results :
                            /\ j \in 1 .. at' - 1 /\ results[j].ssid = temps'[k].result.ssid
                            /\ band \in Heard(results[j].frequency)
        BY <4>1, <4>2
      <4> QED
        BY <2>0, <3>1, <4>3 DEF BandsMerged, Handled
    <3>9. StrongestFirst'
      <4>1. ASSUME NEW k \in DOMAIN temps, NEW j \in DOMAIN results,
                   j \in 1 .. at' - 1, results[j].ssid = temps[k].result.ssid
            PROVE  temps[k].result.level >= results[j].level
        <5>1. CASE j = at
          <6>1. PICK i \in DOMAIN results : i < at /\ temps[k].result = results[i]
            BY DEF MergeInv, EntriesFromResults
          <6> QED
            BY <2>3, <5>1, <6>1 DEF r
        <5>2. CASE j # at
          BY <3>7, <4>1, <5>2 DEF MergeInv, StrongestFirst
        <5> QED
          BY <5>1, <5>2
      <4>2. \A k, m \in DOMAIN temps : k < m => temps[k].result.level >= temps[m].result.level
        BY DEF MergeInv, StrongestFirst
      <4>3. \A k \in DOMAIN temps : temps'[k].result = temps[k].result
        BY <3>2
      <4>4. \A k \in DOMAIN temps : \A j \in DOMAIN results :
                j \in 1 .. at' - 1 /\ results[j].ssid = temps'[k].result.ssid
                    => temps'[k].result.level >= results[j].level
        BY <4>1, <4>3
      <4>5. \A k, m \in DOMAIN temps :
                k < m => temps'[k].result.level >= temps'[m].result.level
        BY <4>2, <4>3
      <4> QED
        BY <2>0, <3>1, <4>4, <4>5 DEF StrongestFirst, Handled
    <3> QED
      BY <2>4, <3>4, <3>5, <3>6, <3>8, <3>9 DEF MergeInv
  <2> QED
    BY <2>7, <2>8, <2>9
<1> QED
  BY <1>1, <1>2 DEF Next

\* The list the app shows has one entry per name, whatever the scan returns.
THEOREM NamesHold == Spec => []OneEntryPerName
<1>1. MergeInv => OneEntryPerName
  BY DEF MergeInv
<1> QED
  BY <1>1, MergeInit, MergeNext, PTL DEF Spec

\* Every entry shows exactly the bands its name was heard on.
THEOREM BandsHold == Spec => []BandsMerged
<1>1. MergeInv => BandsMerged
  BY DEF MergeInv
<1> QED
  BY <1>1, MergeInit, MergeNext, PTL DEF Spec

\* Every entry shows the strongest result of its name, strongest names first.
THEOREM StrengthHolds == Spec => []StrongestFirst
<1>1. MergeInv => StrongestFirst
  BY DEF MergeInv
<1> QED
  BY <1>1, MergeInit, MergeNext, PTL DEF Spec
==============================================================================
