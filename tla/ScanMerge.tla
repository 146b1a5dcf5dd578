------------------------------ MODULE ScanMerge ------------------------------
(***************************************************************************)
(* The list of networks the app shows after a scan (onReceive of           *)
(* AgingTestActivity.java, SCAN_RESULTS_AVAILABLE_ACTION): the results are *)
(* sorted by strength and merged into one entry per name, which says on    *)
(* which bands the name was heard. One step of the specification is one    *)
(* turn of the loop over the results.                                      *)
(***************************************************************************)
EXTENDS Integers, Sequences

CONSTANTS
    Names,          \* the SSIDs that are not empty
    Hidden,         \* the empty SSID
    Frequencies,    \* in MHz
    Levels,         \* in dBm, negative
    MaxResults      \* bound on the results of a scan

ASSUME ScanAssumption ==
    /\ Hidden \notin Names /\ MaxResults \in Nat
    /\ Frequencies \subseteq 1000 .. 9999
    /\ Levels \subseteq Int /\ \A x \in Levels : x <= 0

VARIABLES
    results,        \* Results, sorted
    at,             \* the index of the next result of the loop
    temps           \* temps, the merged entries

vars == <<results, at, temps>>

Result == [ssid : Names \cup {Hidden}, level : Levels, frequency : Frequencies]
\* MyWifiInfo: the result an entry was made from and supportFreq, "2.4G=1; 5G = 2;
\* 2.4/5G=3".
Info == [result : Result, freq : 0 .. 3]

Abs(x) == IF x < 0 THEN -x ELSE x

\* Mutant: weakest first.
SortedTheOtherWay(rs) ==
    \A i, j \in DOMAIN rs : i < j => Abs(rs[i].level) >= Abs(rs[j].level)

\* What Collections.sort leaves.
Sorted(rs) == \A i, j \in DOMAIN rs : i < j => Abs(rs[i].level) <= Abs(rs[j].level)

TypeOK ==
    /\ results \in Seq(Result)
    /\ at \in 1 .. Len(results) + 1
    /\ temps \in Seq(Info)

\* The list the system returns is any list.
Init ==
    /\ \E n \in 0 .. MaxResults : results \in [1 .. n -> Result]
    /\ Sorted(results)
    /\ at = 1
    /\ temps = <<>>

\* frequencySupport(frequency, 0x0001).
FrequencySupport(f) ==
    LET bits == (IF f \div 2000 = 1 THEN 2 ELSE 1) * (IF f \div 5000 = 1 THEN 4 ELSE 1)
    IN  IF (bits \div 2) % 2 = 1 THEN 1
        ELSE IF (bits \div 4) % 2 = 1 THEN 2
        ELSE IF (bits \div 8) % 2 = 1 THEN 3
        ELSE 0

\* Mutant: a name heard on 5G first is taken for a 2.4G one.
MergeFreqOverwrites(freq, f) ==
    IF freq = 3 THEN 3
    ELSE LET first == IF freq # 1 /\ f \div 2000 = 1 THEN 1 ELSE freq
         IN  IF first # 2 /\ f \div 5000 = 1
               THEN IF first = 1 THEN 3 ELSE 2
               ELSE first

\* What the inner loop makes of the supportFreq of an entry with the same name.
MergeFreq(freq, f) ==
    IF freq = 3 THEN 3
    ELSE LET first == IF freq # 1 /\ f \div 2000 = 1
                        THEN IF freq = 2 THEN 3 ELSE 1
                        ELSE freq
         IN  IF first # 2 /\ f \div 5000 = 1
               THEN IF first = 1 THEN 3 ELSE 2
               ELSE first

\* hasdup.
HasDup(r) == \E k \in DOMAIN temps : temps[k].result.ssid = r.ssid

\* Mutant: hasdup is not reset for each result.
AddOnlyOnce(r) == temps = <<>> /\ ~HasDup(r)

Adds(r) == ~HasDup(r)

\* One turn of the loop.
Merge(r) ==
    IF r.ssid = Hidden THEN temps
    ELSE IF Adds(r) THEN Append(temps, [result |-> r, freq |-> FrequencySupport(r.frequency)])
    ELSE [k \in DOMAIN temps |->
            IF temps[k].result.ssid = r.ssid
              THEN [temps[k] EXCEPT !.freq = MergeFreq(@, r.frequency)]
              ELSE temps[k]]

Turn ==
    /\ at <= Len(results)
    /\ temps' = Merge(results[at])
    /\ at' = at + 1
    /\ UNCHANGED results

Next == Turn

Spec == Init /\ [][Next]_vars

-----------------------------------------------------------------------------
(* Properties. *)

Heard(f) ==
    (IF 2000 <= f /\ f < 4000 THEN {"2.4G"} ELSE {}) \cup (IF 5000 <= f THEN {"5G"} ELSE {})
Shown(freq) ==
    (IF freq \in {1, 3} THEN {"2.4G"} ELSE {}) \cup (IF freq \in {2, 3} THEN {"5G"} ELSE {})
\* A result handled so far has this name.
Handled(j, name) == j \in 1 .. at - 1 /\ results[j].ssid = name

\* "去重", "合并相同ssid": the results handled so far and the entries have the same
\* names, hidden ones left out, and no name has two entries.
OneEntryPerName ==
    /\ \A k, m \in DOMAIN temps : temps[k].result.ssid = temps[m].result.ssid => k = m
    /\ \A k \in DOMAIN temps : temps[k].result.ssid # Hidden
    /\ \A j \in 1 .. at - 1 : results[j].ssid # Hidden =>
            \E k \in DOMAIN temps : temps[k].result.ssid = results[j].ssid

\* An entry shows exactly the bands on which its name was heard, in whatever
\* order and however often.
BandsMerged ==
    \A k \in DOMAIN temps : \A band \in {"2.4G", "5G"} :
        band \in Shown(temps[k].freq)
            <=> \E j \in DOMAIN results : /\ Handled(j, temps[k].result.ssid)
                                         /\ band \in Heard(results[j].frequency)

\* An entry shows the strongest result of its name, and stronger names come first.
StrongestFirst ==
    /\ \A k \in DOMAIN temps : \A j \in DOMAIN results :
            Handled(j, temps[k].result.ssid) => temps[k].result.level >= results[j].level
    /\ \A k, m \in DOMAIN temps : k < m => temps[k].result.level >= temps[m].result.level
=============================================================================
