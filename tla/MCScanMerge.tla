---------------------------- MODULE MCScanMerge ----------------------------
\* A small instance of ScanMerge.
EXTENDS ScanMerge

CONSTANTS n1, n2, h
TwoNames == {n1, n2}
\* A channel of the 2.4 GHz band, one of the 5 GHz band, and one of neither.
Channels == {2412, 4920, 5180}
Strengths == {-70, -40}
=============================================================================
