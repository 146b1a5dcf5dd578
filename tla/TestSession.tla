----------------------------- MODULE TestSession -----------------------------
(***************************************************************************)
(* What the iperf3 server promises about its tests, without messages,      *)
(* blocking calls or failures of the peer: it serves one connection at a   *)
(* time, a test goes through its phases in order and none is skipped, and  *)
(* the data transfer starts with exactly the requested number of streams.  *)
(* A test may be abandoned in any phase.                                   *)
(***************************************************************************)
EXTENDS Naturals

CONSTANTS Conn, Nobody, StreamsWanted

VARIABLES
    owner,      \* the connection being served
    phase,      \* how far its test is
    streams     \* how many data streams it has

sessionVars == <<owner, phase, streams>>

SessionInit == owner = Nobody /\ phase = "free" /\ streams = 0

\* A free server takes a connection.
Admit ==
    /\ owner = Nobody
    /\ owner' \in Conn
    /\ phase' = "setup"
    /\ UNCHANGED streams

\* The parameters are known, and streams may come.
Open ==
    /\ phase = "setup" /\ phase' = "streams"
    /\ UNCHANGED <<owner, streams>>

Join ==
    /\ phase = "streams" /\ streams + 1 < StreamsWanted
    /\ streams' = streams + 1
    /\ UNCHANGED <<owner, phase>>

\* The last stream starts the transfer.
Start ==
    /\ phase = "streams" /\ streams + 1 = StreamsWanted
    /\ streams' = streams + 1
    /\ phase' = "transfer"
    /\ UNCHANGED owner

Finish ==
    /\ phase = "transfer" /\ phase' = "results"
    /\ UNCHANGED <<owner, streams>>

Report ==
    /\ phase = "results" /\ phase' = "report"
    /\ UNCHANGED <<owner, streams>>

\* The test is over, or given up.
Release ==
    /\ owner # Nobody
    /\ owner' = Nobody /\ phase' = "free" /\ streams' = 0

SessionNext == Admit \/ Open \/ Join \/ Start \/ Finish \/ Report \/ Release

Session == SessionInit /\ [][SessionNext]_sessionVars
==============================================================================
