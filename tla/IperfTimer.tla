----------------------------- MODULE IperfTimer -----------------------------
(***************************************************************************)
(* The timer package of iperf3 (timer.c) and the timers of one process's   *)
(* tests: the end of the test, the statistics and reporter intervals, the  *)
(* end of the omitted period and one pacing timer per stream (the create_* *)
(* functions and timer procedures of iperf_client_api.c,                   *)
(* iperf_server_api.c and iperf_api.c).                                    *)
(*                                                                         *)
(* Timers live in cells. A cell is malloc'ed once and then moves between   *)
(* the active list, sorted by time, and the free list. A test holds        *)
(* handles, that is pointers to cells. tmr_run walks the active list while *)
(* the procedures it calls change that list. One unit of time stands for   *)
(* the shortest difference of times that matters.                          *)
(***************************************************************************)
EXTENDS Integers, Sequences, FiniteSets

CONSTANTS
    Roles,          \* subset of {"client", "server"}: what the process runs as
    NumStreams,     \* streams of a test
    Interval,       \* stats_interval = reporter_interval, the -i option
    Omit,           \* the -O option
    Duration,       \* the -t option
    SendPeriod,     \* the period of the pacing timers (0.1 s in the code)
    Jitter,         \* how far the clock moves while the timers are created
    MaxTime,        \* bound on the length of a test
    MaxCells        \* bound on the cells malloc'ed

ASSUME TimerAssumption ==
    /\ Roles \subseteq {"client", "server"}
    /\ NumStreams \in Nat
    /\ Interval \in Nat \ {0} /\ Omit \in Nat \ {0} /\ SendPeriod \in Nat \ {0}
    /\ Duration \in Nat \ {0} /\ Jitter \in Nat /\ Jitter < Duration
    /\ MaxTime \in Nat
    /\ MaxCells \in Nat /\ MaxCells > 4 + NumStreams

VARIABLES
    clock,      \* time since the test began
    tm,         \* the timer package and the handles of the test
    test,       \* the test
    run         \* the local variables of tmr_run

vars == <<clock, tm, test, run>>

\* The pointers to timers in struct iperf_test and struct iperf_stream.
Timer == <<"timer", 0>>
Stats == <<"stats", 0>>
Reporter == <<"reporter", 0>>
OmitTimer == <<"omit", 0>>
Send(i) == <<"send", i>>
Sends == {Send(i) : i \in 1 .. NumStreams}
Handles == {Timer, Stats, Reporter, OmitTimer} \cup Sends

Periodic(h) == h \in {Stats, Reporter} \cup Sends

Cells == 1 .. MaxCells
NULL == 0

Phases == {"idle", "creating", "running", "ending", "over"}

TypeOK ==
    /\ clock \in 0 .. MaxTime
    /\ tm \in [active : Seq(Cells), free : Seq(Cells),
               cell : [Cells -> [owner : Handles, time : Nat, usecs : Nat]],
               handle : [Handles -> Cells \cup {NULL}]]
    /\ test \in [phase : Phases, role : Roles, timed : BOOLEAN, done : BOOLEAN,
                 omit : {0, Omit}, omitting : BOOLEAN, todo : Seq(Handles),
                 owed : Int]
    /\ run \in [on : BOOLEAN, now : 0 .. MaxTime, t : Cells \cup {NULL}]

Unused == [owner |-> Timer, time |-> 0, usecs |-> 0]

InSeq(s) == {s[i] : i \in 1 .. Len(s)}

Idle == [on |-> FALSE, now |-> 0, t |-> NULL]

Init ==
    /\ clock = 0
    /\ tm = [active |-> <<>>, free |-> <<>>,
             cell |-> [c \in Cells |-> Unused],
             handle |-> [h \in Handles |-> NULL]]
    /\ \E role \in Roles :
        test = [phase |-> "idle", role |-> role, timed |-> FALSE, done |-> FALSE,
                omit |-> 0, omitting |-> FALSE, todo |-> <<>>, owed |-> 0]
    /\ run = Idle

-----------------------------------------------------------------------------
(* timer.c: operations on the record tm. *)

\* Mutant: a new timer goes before the timers of the same time.
PlaceBeforeEqual(m, c) ==
    CHOOSE i \in 1 .. Len(m.active) + 1 :
        /\ i <= Len(m.active) => m.cell[c].time <= m.cell[m.active[i]].time
        /\ \A j \in 1 .. i - 1 : ~(m.cell[c].time <= m.cell[m.active[j]].time)

\* Where list_add puts cell c: before the first timer that is later.
Place(m, c) ==
    CHOOSE i \in 1 .. Len(m.active) + 1 :
        /\ i <= Len(m.active) => m.cell[c].time < m.cell[m.active[i]].time
        /\ \A j \in 1 .. i - 1 : ~(m.cell[c].time < m.cell[m.active[j]].time)

list_add(m, c) ==
    LET p == Place(m, c) IN
    [m EXCEPT !.active = [i \in 1 .. Len(m.active) + 1 |->
        IF i < p THEN m.active[i] ELSE IF i = p THEN c ELSE m.active[i - 1]]]

list_remove(m, c) ==
    LET p == CHOOSE i \in 1 .. Len(m.active) : m.active[i] = c IN
    [m EXCEPT !.active = [i \in 1 .. Len(m.active) - 1 |->
        IF i < p THEN m.active[i] ELSE m.active[i + 1]]]

list_resort(m, c) == list_add(list_remove(m, c), c)

\* A cell from the free list, or a new one; the caller keeps the pointer.
tmr_create(m, h, now, usecs) ==
    LET c == IF m.free # <<>> THEN Head(m.free) ELSE 1 + Len(m.active) IN
    list_add([m EXCEPT !.free = IF m.free # <<>> THEN Tail(m.free) ELSE m.free,
                       !.cell[c] = [owner |-> h, time |-> now + usecs, usecs |-> usecs],
                       !.handle[h] = c], c)

\* Mutant: the new time is set and the list is not sorted again.
tmr_reset_unsorted(m, c, now) == [m EXCEPT !.cell[c].time = now + m.cell[c].usecs]

tmr_reset(m, c, now) ==
    list_resort([m EXCEPT !.cell[c].time = now + m.cell[c].usecs], c)

\* What a free cell still holds is forgotten: tmr_create overwrites it, and
\* RunStaysOnList says that nobody reads it before.
tmr_cancel(m, c) ==
    LET r == list_remove(m, c) IN
    [r EXCEPT !.free = <<c>> \o r.free, !.cell[c] = Unused]

\* c->next: the successor of a cell in the list it is on.
After(list, c) ==
    LET p == CHOOSE i \in 1 .. Len(list) : list[i] = c IN
    IF p < Len(list) THEN list[p + 1] ELSE NULL
NextOf(m, c) == IF c \in InSeq(m.active) THEN After(m.active, c) ELSE After(m.free, c)

-----------------------------------------------------------------------------
(* The timer procedures: what they do to the test and to the package. *)

\* Mutant: test_timer_proc does not set test->done.
AfterProcWithoutDone(h) ==
    CASE h = OmitTimer -> [test EXCEPT !.omitting = FALSE]
      [] h = Stats /\ ~test.done -> [test EXCEPT !.owed = @ + 1]
      [] h = Reporter /\ ~test.done -> [test EXCEPT !.owed = @ - 1]
      [] OTHER -> test

\* owed counts the intervals that stats_callback has recorded and that
\* reporter_callback has not shown yet.
AfterProc(h) ==
    CASE h = Timer -> [test EXCEPT !.done = TRUE]
      [] h = OmitTimer -> [test EXCEPT !.omitting = FALSE]
      [] h = Stats /\ ~test.done -> [test EXCEPT !.owed = @ + 1]
      [] h = Reporter /\ ~test.done -> [test EXCEPT !.owed = @ - 1]
      [] OTHER -> test

ResetHandle(m, h, now) ==
    IF m.handle[h] # NULL THEN tmr_reset(m, m.handle[h], now) ELSE m

\* Mutant: client_omit_timer_proc leaves test->omit_timer as it is.
ProcKeepsOmitHandle(m, h, now) ==
    CASE h = Timer -> [m EXCEPT !.handle[Timer] = NULL]
      [] h = OmitTimer -> ResetHandle(ResetHandle(m, Stats, now), Reporter, now)
      [] OTHER -> m

\* The procedure of a one-shot timer clears the test's pointer to it; the one
\* that ends the omitted period starts the intervals afresh.
Proc(m, h, now) ==
    CASE h = Timer -> [m EXCEPT !.handle[Timer] = NULL]
      [] h = OmitTimer ->
            ResetHandle(ResetHandle([m EXCEPT !.handle[OmitTimer] = NULL], Stats, now),
                        Reporter, now)
      [] OTHER -> m

\* Mutant: a periodic timer goes back into the list with the time it had.
SettleWithoutTime(m, c) ==
    IF Periodic(m.cell[c].owner) THEN list_resort(m, c) ELSE tmr_cancel(m, c)

\* What tmr_run does with the timer after its procedure: rescheduled from the
\* time it was due, not from now, or put on the free list.
Settle(m, c) ==
    IF Periodic(m.cell[c].owner)
      THEN list_resort([m EXCEPT !.cell[c].time = @ + m.cell[c].usecs], c)
      ELSE tmr_cancel(m, c)

-----------------------------------------------------------------------------
(* The life of a test. *)

\* The order in which the timers of a test are created and cancelled.
SendsInOrder == [i \in 1 .. NumStreams |-> Send(i)]
CreateOrder(role, timed, reports, omit, paced) ==
    (IF role = "client" /\ timed THEN <<Timer>> ELSE <<>>)
    \o (IF reports THEN <<Stats, Reporter>> ELSE <<>>)
    \o (IF omit # 0 THEN <<OmitTimer>> ELSE <<>>)
    \o (IF paced THEN SendsInOrder ELSE <<>>)
CancelOrder ==
    IF test.role = "client" THEN SendsInOrder \o <<OmitTimer, Timer, Stats, Reporter>>
    ELSE <<Stats, Reporter, OmitTimer>> \o SendsInOrder

\* TEST_START: the settings decide which timers there are. A test without
\* duration ends at a byte or block limit; the sender of a rate-limited test
\* paces its streams. Pointers left by an earlier test are overwritten.
StartTest ==
    /\ test.phase = "idle"
    /\ \E timed, reports, paced \in BOOLEAN, omit \in {0, Omit} :
        /\ test' = [test EXCEPT !.phase = "creating", !.timed = timed, !.omit = omit,
                        !.omitting = (omit # 0), !.owed = 0,
                        !.todo = CreateOrder(test.role, timed, reports, omit, paced)]
        /\ tm' = [tm EXCEPT !.handle = [h \in Handles |->
                     IF \/ h \in {Stats, Reporter} \cup Sends
                        \/ h = Timer /\ test.role = "client"
                        \/ h = OmitTimer /\ omit = 0
                       THEN NULL ELSE tm.handle[h]]]
    /\ UNCHANGED <<clock, run>>

\* Mutant: the test timer does not allow for the omitted period.
UsecsWithoutOmit(h) ==
    CASE h = Timer -> Duration
      [] h \in {Stats, Reporter} -> Interval
      [] h = OmitTimer -> Omit
      [] OTHER -> SendPeriod

Usecs(h) ==
    CASE h = Timer -> Duration + test.omit
      [] h \in {Stats, Reporter} -> Interval
      [] h = OmitTimer -> Omit
      [] OTHER -> SendPeriod

\* The first three timers are counted from one reading of the clock.
CreateTimer ==
    /\ test.phase = "creating" /\ test.todo # <<>>
    /\ LET h == Head(test.todo)
           now == IF h \in {Timer, Stats, Reporter} THEN 0 ELSE clock
       IN  tm' = tmr_create(tm, h, now, Usecs(h))
    /\ test' = [test EXCEPT !.todo = Tail(@)]
    /\ UNCHANGED <<clock, run>>

\* malloc fails: the server cleans the test up, the client process ends.
CreateFails ==
    /\ test.phase = "creating" /\ test.todo # <<>> /\ tm.free = <<>>
    /\ test' = IF test.role = "client" THEN [test EXCEPT !.phase = "over"]
               ELSE [test EXCEPT !.phase = "ending", !.todo = CancelOrder]
    /\ UNCHANGED <<clock, tm, run>>

RunTest ==
    /\ test.phase = "creating" /\ test.todo = <<>>
    /\ test' = [test EXCEPT !.phase = "running"]
    /\ UNCHANGED <<clock, tm, run>>

\* The byte or block limit of the client, or TEST_END arriving at the server.
SetDone ==
    /\ test.phase = "running" /\ ~run.on /\ ~test.done
    /\ test.role = "client" => ~test.omitting /\ ~test.timed
    /\ test' = [test EXCEPT !.done = TRUE]
    /\ UNCHANGED <<clock, tm, run>>

\* The server's test may end at any time, the client's when it is done.
EndTest ==
    /\ test.phase = "running" /\ ~run.on
    /\ test.role = "server" \/ (test.done /\ ~test.omitting)
    /\ test' = [test EXCEPT !.phase = "ending", !.todo = CancelOrder]
    /\ UNCHANGED <<clock, tm, run>>

\* cleanup_server and iperf_reset_test, or iperf_free_test, one pointer after
\* the other.
CancelTimer ==
    /\ test.phase = "ending" /\ test.todo # <<>>
    /\ LET h == Head(test.todo) IN
       tm' = IF tm.handle[h] = NULL THEN tm
             ELSE [tmr_cancel(tm, tm.handle[h]) EXCEPT !.handle[h] = NULL]
    /\ test' = [test EXCEPT !.todo = Tail(@)]
    /\ UNCHANGED <<clock, run>>

\* The server goes on with its next test.
Ended ==
    /\ test.phase = "ending" /\ test.todo = <<>>
    /\ test' = IF test.role = "client" THEN [test EXCEPT !.phase = "over"]
               ELSE [test EXCEPT !.phase = "idle", !.done = FALSE]
    /\ clock' = 0
    /\ UNCHANGED <<tm, run>>

Tick ==
    /\ test.phase = "running" \/ (test.phase = "creating" /\ clock < Jitter)
    /\ clock < MaxTime
    /\ clock' = clock + 1
    /\ UNCHANGED <<tm, test, run>>

-----------------------------------------------------------------------------
(* tmr_run. *)

\* The timeout computed from the head of the list has passed.
Due(now) == tm.active # <<>> /\ tm.cell[Head(tm.active)].time <= now

RunTimers ==
    /\ test.phase = "running" /\ ~run.on
    /\ Due(clock)
    /\ run' = [on |-> TRUE, now |-> clock, t |-> Head(tm.active)]
    /\ UNCHANGED <<clock, tm, test>>

RunNotDue ==
    /\ run.on
    /\ tm.cell[run.t].time > run.now
    /\ run' = Idle
    /\ UNCHANGED <<clock, tm, test>>

\* Mutant: the next timer is looked up after the procedure has run.
RunTimerThenNext ==
    /\ run.on
    /\ tm.cell[run.t].time <= run.now
    /\ LET h == tm.cell[run.t].owner IN
       /\ test' = AfterProc(h)
       /\ tm' = Settle(Proc(tm, h, run.now), run.t)
       /\ run' = LET next == NextOf(tm', run.t)
                 IN  IF next = NULL THEN Idle ELSE [run EXCEPT !.t = next]
    /\ UNCHANGED clock

\* The next timer is remembered before the procedure runs, which may move it.
RunTimer ==
    /\ run.on
    /\ tm.cell[run.t].time <= run.now
    /\ LET h == tm.cell[run.t].owner
           next == NextOf(tm, run.t)
       IN  /\ test' = AfterProc(h)
           /\ tm' = Settle(Proc(tm, h, run.now), run.t)
           /\ run' = IF next = NULL THEN Idle ELSE [run EXCEPT !.t = next]
    /\ UNCHANGED clock

-----------------------------------------------------------------------------
Next ==
    \/ StartTest \/ CreateTimer \/ CreateFails \/ RunTest \/ SetDone \/ EndTest
    \/ CancelTimer \/ Ended \/ Tick \/ RunTimers \/ RunNotDue \/ RunTimer

Spec == Init /\ [][Next]_vars

\* Time passes and the loop of the test comes back to tmr_run, which ends. The
\* last two are weak fairness with the enabling condition written out.
Fairness ==
    /\ WF_vars(Tick) /\ WF_vars(RunTimers) /\ WF_vars(RunTest)
    /\ []<>~(test.phase = "creating" /\ test.todo # <<>>) \/ []<><<CreateTimer>>_vars
    /\ []<>~run.on \/ []<><<RunNotDue \/ RunTimer>>_vars
FairSpec == Spec /\ Fairness

-----------------------------------------------------------------------------
(* Properties. *)

\* tmr_timeout and tmr_run look at the head of the list only: they are right
\* because the list stays sorted through every create, reset and reschedule,
\* also those made by a procedure in the middle of tmr_run.
TimersSorted ==
    \A i, j \in 1 .. Len(tm.active) :
        i < j => tm.cell[tm.active[i]].time <= tm.cell[tm.active[j]].time

\* A pointer a test holds names an active timer of its own, so no tmr_cancel or
\* tmr_reset is ever applied to a cell on the free list or to a cell that has
\* been reused; and an active timer belongs to the current test, so no procedure
\* runs for a stream or a test that has been freed.
HandlesLive ==
    test.phase # "over" =>
        /\ \A h \in Handles : tm.handle[h] # NULL =>
              tm.handle[h] \in InSeq(tm.active) /\ tm.cell[tm.handle[h]].owner = h
        /\ \A c \in InSeq(tm.active) : tm.handle[tm.cell[c].owner] = c

\* The timer tmr_run is about to look at is on the active list, although the
\* procedure that has just run may have moved it.
RunStaysOnList == run.on => run.t \in InSeq(tm.active)

\* Each interval the statistics timer records is shown by the reporter timer
\* before the next one is recorded, and no report is made without a new
\* interval: the two timers stay next to each other in the list, through late
\* runs, catching up and the restart at the end of the omitted period.
IntervalsReported ==
    test.phase = "running" =>
        /\ test.owed \in {0, 1}
        /\ ~run.on /\ ~test.done => test.owed = 0

\* The client's test is not over before the omitted period is, so the final
\* statistics never cover omitted data.
OmitEndsFirst == test.role = "client" /\ test.done => ~test.omitting

\* A client's timed test ends.
TimedTestEnds ==
    test.phase = "creating" /\ test.role = "client" /\ test.timed
        ~> test.done \/ test.phase = "over"

\* A timer that is due is run, also one that tmr_run passed over because the
\* timer it had remembered moved to the end of the list.
DueTimersRun == Due(clock) /\ test.phase = "running" ~> ~Due(clock) \/ test.phase # "running"
=============================================================================
