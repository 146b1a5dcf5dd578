# A TLA+ verification of wifitesttool

wifitesttool is an Android application that tests Wi-Fi hardware, together with
the copy of iperf3 that it starts as a child process. This directory holds the
TLA+ models of its core logic, the TLC configurations that check them on small
instances, and TLAPS proofs that hold for every instance. `PROJECT.json` says,
definition by definition, which lines of the repository each part models.

Paths below are relative to `src/`; `iperf/` stands for
`iperf_jni/jni/iperf/src/` and `app/` for
`WifiTest/app/src/main/java/com/example/wifitest/`.

## 1. Inventory of the system

| part | code | state | operations | what is hard |
|---|---|---|---|---|
| iperf3 server | `iperf/main.c`, `iperf_server_api.c` | `struct iperf_test` (state, ctrl_sck, listener, streams), consecutive_errors | listen, accept/refuse, exchange parameters, accept streams, start, receive/send, exchange results, clean up and loop | one single-threaded process; every handler blocks in read()/write(); a peer may die at each of them |
| iperf3 client | `iperf/iperf_client_api.c` | the same structure on the other side | connect, answer each control message, transfer in one of three loops, end | the SIGALRM loop does not look at the control connection; reverse mode can deadlock |
| transports | `iperf_tcp.c`, `iperf_udp.c` | per-stream counters, sequence numbers | accept, connect, send, recv | cookies of half-open connections; lost and reordered datagrams |
| timers | `timer.c` and its users in `iperf_*_api.c` | sorted list, free list, five handles of a test | create, run, reset, cancel | callbacks change the list being walked; cells are reused by the next test |
| statistics and reports | `iperf_api.c` | counters per stream, list of intervals | stats callback, omit reset, reports | differences between counters that are reset and counters that are not |
| settings | `iperf_api.c` | `struct iperf_settings` | parse, send, receive, reset | what survives from one test of a server to the next |
| ageing test screen | `app/AgingTestActivity.java` | switches, counters, worker threads, preferences | switch Wi-Fi off and on n times, stop, reset, resume; reboot countdown; list of networks | UI handler, worker threads and broadcasts share fields without locks |
| iperf command screen | `app/IperfTestActivity.java`, `PopupWindowAdapter.java` | AsyncTask, toggle button, saved commands | run, cancel, show lines, save and delete commands | callbacks of an old task arrive after a new one has started; a task outlives its screen |
| report socket | `app/ReadIperfDataHelper.java`, `iprintf` and `send_info` of `iperf_api.c` | the helper's thread and listener, connections | start, stop, connect, send, read | threads that cannot be stopped; a process killed between connect and send |
| reboot test | `app/AgingTestActivity.java`, `BootReceive.java` | a preference, the dialog, its countdown | switch, count down, reboot, start again after the boot | only the preference outlives a reboot; fields are copies of it |

How they interact: the app starts the iperf3 binary; iperf3's `iprintf` sends
every output line over a local socket to a thread of the app; iperf3 client and
server talk over one TCP control connection and N data streams. The ageing test
drives the system's Wi-Fi service and hears of its state by broadcast and
callback.

What makes each part correct, in one line:

* control protocol: one test at a time; no connection of one client is ever
  counted in another's test; both sides are in the same phase; everyone ends;
* timers: the list stays sorted and every handle names a live cell; a report
  always has a fresh interval to show; a timed test ends;
* UDP statistics: losses, reordering and interval counts add up;
* ageing test: Wi-Fi is switched off only once it has connected, the counts are
  those since the last reset, the test ends unless it is in one of the traps of
  section 5;
* scan list: one entry per name, with its bands and its best strength;
* settings: a test runs with its own client's settings on both sides, in one
  direction, with one end condition;
* command screen: the button shows whether a task is there, what is stopped
  ends, what is started runs, and its output finds a reader;
* reboot test: it goes on by itself while the switch is on, and the app never
  reboots a device that was booted with the switch off.

The hazards found while reading the code, each at its line, are listed in
`PROJECT.json` under "hazards" with the properties that would catch them.

## 2. The control protocol (IperfControl, TestSession)

`IperfControl` models any number of client launches and one server process,
over TCP. Each process is single-threaded, so its state is a record: `pc` names
the blocking call it is in, `state` is `test->state`, and the other fields are
those of `struct iperf_test` that matter to control (`ctrl` is `ctrl_sck`,
`pend` the local variable `s` of an accept, `streams` the list of streams,
`errors` is `consecutive_errors` of `main.c`). A handler that blocks several
times is one action per stretch between two blocking calls: for instance
`iperf_accept` is `AcceptControl`, `ReadControlCookie` and `GetParameters`, and
between them the client may do anything, die included.

The kernel is modelled by the queue of completed connections (`listenQ`), the
set of connections that carry a cookie (`cookied`), the connections whose
server end is closed (`closed`), the control messages in flight (`c2s`, `s2c`)
and the number of data blocks buffered (`pipe`, at most `PipeCap`). A process
that ends closes its connections; bytes it sent can still be read. Undefined
values in the code are nondeterministic: the cookie buffer compared when the
peer closed before sending a cookie (`CookieCompare`), and the document
`JSON_read` makes of a length it did not read (`JsonCut`).

`TestSession` is the abstract specification: one owner at a time, the phases of
a test in order, data only with all the streams. `ImplementsSession` states
that `IperfControl` implements it under the mapping `Abstract`.

| run | instance | what it shows |
|---|---|---|
| `control` | 2 clients, 2 streams, all 3 modes, listener perhaps replaced, SIGPIPE perhaps fatal, 2 errors | type invariant; `StreamsCarryCookie`, `RunningTogether`, `OneTest`, `ResultsExchanged`, `DeniedNeverAdmitted`, `OrphansAreNotified`; `ImplementsSession` |
| `live` | 2 clients of one mode, the SIGALRM loop or reverse | `ClientsEnd`, `ServerFreed`: the drain after TEST_END prevents the deadlock of the reverse mode, and a client that does not read its control connection during the test still ends |

`SigpipeKills` and `Relisten` say what may happen: a write to a closed
connection fails, or ends the server where SIGPIPE is not ignored; the listener
is replaced when a client asks for socket options, or stays. `OneMode`, the
constraint of `live`, keeps the two clients to the same mode.

Bounds. Two clients are needed for one to be refused, to be queued across the
end of the other's test, or to abort it by dying while it is refused; a third
one was tried on the safety properties and showed nothing new. One stream
already separates the control and the data connection of a client, two are
needed for a test that has some of its streams. `ErrorLimit` is 5 in the code
and 2 in the runs: one failure that is survived and one that is not. `PipeCap`
= 1 with `Burst` = 2 makes a burst block half way.

Fairness. Both processes keep running (weak fairness of their steps). The
server's select loop looks at the control connection on every pass, so a
message there is not starved by data (`SF` on `HandleMessage`); every test has
a limit which it reaches (`SF` on `SendTestEnd`). No client is obliged to start
and nobody is obliged to send a signal. `CHECK_DEADLOCK FALSE`: once all
launches have ended and the server has exited nothing is left to do.

A result worth knowing: `ClientsEnd` excepts the clients that are `Stuck`.
When a second client dies while it is being refused, the server gives up the
running test and frees its streams without closing their sockets
(`iperf_free_stream`); the first client, blocked in write() on such a socket,
never returns. `OrphansAreNotified` shows that the server has at least closed
the control connection, so a client that gets back to select() does end.

Another one: a client that gives up before it has opened a stream says
CLIENT_TERMINATE to a server that has none. The server's handler prints the
results of the test, which begin with a look at the first stream
(`iperf_print_results`, `iperf_api.c:1991`), and dereferences NULL; in the model
the server exits there (`HandleLastMessage`). What else may fail in a handler
fails where the code calls it: the CPU affinity after CREATE_STREAMS, a new
stream, the timers between TEST_START and TEST_RUNNING on both sides, a receive
in the drain after TEST_END.

### Proofs (IperfControlProofs)

For every set of clients, number of streams, buffer size and error limit:

* `TypeCorrect`: `Spec => [](TypeOK /\ Blocked)`. `Blocked` ties each `pc` of
  the server to what it holds (in a read of the control connection there is a
  control connection, in a refusal there is an accepted socket, before the exit
  the errors are below the limit); the types are not inductive without it.
* `OneTestAtATime`: `Spec => []OneTest`. `OneTest` is not inductive; the
  strengthening `ServedOrDropped` says that whoever has been addressed by the
  server (a message is in flight to it, or its state has left START) is the
  owner of the control connection or has been dropped. 
* `CookiesGuardStreams`: `Spec => []StreamsCarryCookie`, with `CookieInv`.

* `TransfersAreShared`, `ResultsAreReal`, `RefusalsComeFirst`, `OrphansCanTell`:
  `RunningTogether`, `ResultsExchanged`, `DeniedNeverAdmitted` and
  `OrphansAreNotified`.
* `ServerImplementsSession`: `Spec => ImplementsSession`, the refinement of
  `TestSession`, from the initial states and step by step.

The last five rest on one invariant, `ProtocolInv`. Neither side checks the
order of what it reads: a handler does what the next byte says. That the two
sides nevertheless agree is due to the order of the queues and to what each side
has sent before it blocks. `ProtocolInv` says so by numbering the messages of a
test in each direction: `StageInv` ties the place where the server is blocked to
the state of its test and to the streams it has, which gives the number of
messages it has sent (`Sent`) and read (`Read`); `Course` does the same for a
client (`Heard`, `Said`); `Down` and `Up` say that what is under way is exactly
what lies between the two numbers, in order (`Ordered`), followed at most by the
byte with which a side that gives up says farewell. `Place` says that a control
connection is at one place only (queued, looked at, served, counted or closed),
and `Kept` that a live client's streams are served or closed. The argument for
`RunningTogether` is then short: a client that transfers has heard TEST_RUNNING,
so the server has sent it, and has not read TEST_END, because the client has not
said it (`RunsTogether`, `TestEndInTime`).

The lemmas `ServerShape` and `ClientShape` summarise what any step of the
server or of a client may do to the connections, so that each of the first
invariants is proved once against the summary and not against thirty actions.
For `ProtocolInv` the summaries are finer: every step of the server is one of
the effects `Opens`, `Admits`, `Looks`, `Refuses`, `Greets`, `AsksStreams`,
`Joins`, `Starts`, `Transfers`, `Collects`, `Reports` and `Drops`, every step of
a client one of ten others, and each effect keeps each part. The only assumption
is `ConstantsAssumption`. The refinement proof showed that the abstract phase of
a server without a client was not determined by the mapping (two guards of a
CASE held at once); `Phase` now says it is free. `ClientsEnd` and `ServerFreed`
need fairness and are model-checked only.


## 3. The timers (IperfTimer)

`timer.c` keeps a sorted list of active timers and a list of free cells;
`test->timer`, `stats_timer`, `reporter_timer`, `omit_timer` and a stream's
`send_timer` are pointers into them. The model has the cells, the two lists and
the handles, and takes one step per timer of `tmr_run`: the walk remembers
`next` before it calls the procedure, and the end of the omitted period
(`client_omit_timer_proc`) resets two timers, which moves them in the list
under the walk. A role is chosen at the start: a client runs one test, a server
runs test after test and reuses the cells. Time is counted from the start of a
test and may pass between any two steps, so `tmr_run` may be late. malloc may
fail in `tmr_create`. The contents of a cell on the free list are forgotten;
`RunStaysOnList` justifies it, since the walk never reads one.

| run | instance | what it shows |
|---|---|---|
| `timers` | interval 1, omitted period 2, duration 2, time up to 6 | the list is sorted (`TimersSorted`); a handle names an active cell of its own and every active cell has one (`HandlesLive`); the walk never leaves the list (`RunStaysOnList`); the reporter always finds the interval of the same tick recorded (`IntervalsReported`); the test never ends before its omitted period (`OmitEndsFirst`); a timed test ends (`TimedTestEnds`); a timer that is due is run, also one the walk has passed over (`DueTimersRun`) |

An omitted period as long as the test makes the two one-shot timers meet the
periodic ones in both orders. Fairness: the loop of `iperf_run_client` and
`iperf_run_server` calls `tmr_run` again and again, and the clock advances. In
the fairness conditions ENABLED is written out by hand, as the guards of the
actions.

### Proofs (IperfTimerProofs)

The five invariants hold for any number of streams, any interval, omitted
period and duration, and any series of tests (`TimersStaySorted`,
`PointersLive`, `RunOnList`, `IntervalsAreReported`, `OmittedPeriodEnds`), from
`TimerAssumption`. Of its conjuncts one is about the program: creating the
timers of a test takes less time than the test lasts (`Jitter < Duration`, where
the duration of a test with `-t` is at least a second). `MaxTime` bounds the
clock, and `MaxCells` is shown to be large enough: a new timer always finds a
cell, because there are never more active timers than pointers (`RoomForOne`).

The inductive invariant `TimerInv` has, beside the types, six parts:

* `ListsOK`: both lists have no duplicates, share no cell and hold all that is
  malloc'ed, and the active one is sorted;
* `Live`: pointers and active timers are the same thing. It is inductive only
  with `PhaseInv`, which says which pointers may be set while a test is created
  (a pointer about to be written is NULL) and while it is cancelled (a pointer
  still set is in the rest of the list);
* `RunInv`: while `tmr_run` walks, the timer it looks at is active;
* `OmitInv`: the end of the omitted period is at most `Jitter + Omit` and the end
  of the test at `Duration + Omit`, and the walk has not passed the first, so it
  meets it before the second;
* `PairInv`: the statistics and the reporter timer have the same time and are
  neighbours (`Together`), except that between their two procedures the
  statistics timer is one interval ahead and later than every timer after it
  (`Apart`), so that the reporter, put back behind equal times, follows it again.
  The number of intervals owed is one exactly when the walk is at the reporter.

What `list_add`, `list_remove`, `list_resort`, `tmr_create` and `tmr_cancel` do
to a package is stated once each (`Added`, `Removed`, `Resorted`, `Created`,
`Cancelled`), with what they preserve of `NotAfter`, `Follows` and `LastOf`; the
steps use only that. The proof that the search in `list_add` finds a place needs
that a non-empty set of positions has a first element (`FirstOf`). The step of
`tmr_run` is proved in three cases: a periodic timer, the end of the test, the
end of the omitted period. `TimedTestEnds` and `DueTimersRun` need fairness and
are model-checked only.

## 4. UDP statistics (UdpStream)

One stream with its sender, its receiver and a network that loses, duplicates
and reorders. `snd` and `rcv` are the counters of the two `struct iperf_stream`,
`ivl` is the last `iperf_interval_results` with the sums of all intervals, and
`got` remembers what arrived, to say what was really lost. Both sides leave the
omitted period by their own timers, at different moments.

| run | instance | what it shows |
|---|---|---|
| `udp` | 4 datagrams, 4 arrivals, 2 intervals | the loss reported is never below the datagrams that are missing and above them by at most the late ones (`LossBounds`); losses are a proper part of the total (`ReceiverTotals`); the intervals add up to the final counters across the reset (`IntervalsAddUp`) |
| `udp_sender_total` | the same | the sender's report can show more losses than datagrams |

One more observation follows from the definitions alone: the losses of omitted
intervals are subtracted by the first interval after them, which can therefore
show a negative loss (`Recorded`). The line about datagrams out of order, which
is not part of the model, prints `cnt_error`, the losses (`iperf_api.c:2044`).

Four datagrams allow a gap, a late arrival into it, a duplicate, and one
datagram on each side of the end of the omitted period.

### Proofs (UdpStreamProofs)

`TotalsHold` and `IntervalsHold` prove `ReceiverTotals` and `IntervalsAddUp` for
any number of datagrams, arrivals and intervals, from `UdpAssumption`. The
inductive invariant adds `Books`: nothing arrives that was not sent; as long as
the receiver is omitting, the sum of the bytes of intervals not omitted is
zero (without it the reset would break the sum); before the end the number of
intervals is within the timer's bound.

`LossWithinBounds` proves `LossBounds`. It compares a counter with the number of
elements of a set: the invariant `LossInv` adds that nothing has arrived ahead
of the highest number seen, so that a datagram ahead of it adds exactly the
numbers it skips to the set of the missing ones, and a late or repeated one
takes at most one away.

## 5. The Wi-Fi on/off test (AgingTest)

The fields of `AgingTestActivity` (`ui`), the counts in SharedPreferences
(`prefs`), the messages to `mHandler` (`queue`), the `MyThread` objects
(`loop`), the threads each click starts to call `setWifiEnabled` (`setters`)
and what the system does (`wifi`). Before Android N a connection is counted by
the connectivity broadcast on the main thread, in one action (`SaveOnMain`);
since N by a NetworkCallback on a thread of its own, in the four steps that
other threads can come between (`CallLooks`, `CallMarks`, `CallReads`,
`CallCommits`). The three reads of `MyThread`'s condition are one step: their
values come from one state, or from two states between which the same answer
held. Fields that are not volatile are read as last written, because the loop
goes through synchronised calls at every turn. What the user and the outside
world do is limited by `Budget`, kind by kind.

`Prompt` is the assumption that ten seconds, the thread's sleep, are enough for
the messages, callbacks and threads that are under way when the sleep begins:
`LoopSleeps` passes a moment at which nothing is under way. It does not order
two threads. Between that moment and the look of the thread (`LoopLooks`)
another `MyThread`, the user or the system may have begun something that is
still under way. `crowded` remembers that two threads have been alive at once.

| run | instance | what it shows |
|---|---|---|
| `aging` | both systems, opened with Wi-Fi off or linked, one press of each button, one return to the app, one link lost or another network found, `Prompt` off | `CountsSinceReset`: before N the counts are exact; since N a reset can be lost, a connection cannot. `OffForgets`: a switch that is off never keeps a scan, and before N no connection |
| `aging_orderly` | both systems, opened with Wi-Fi off or linked, no count or the two of a finished test in the preferences, a test of 2 started, reset and started again, one network that comes or goes, `Prompt` on | `TestEnds`: a test that never ends is in one of five traps for good; `AutomaticOffEarned`; `StoppedLoopsEnd`, also with the two threads a quick restart leaves |
| `aging_stuck` | since N, one test of 3 and one network that comes or goes | `TestReachesTarget` fails: a callback sets `isConnected` after the click that reset it, and the thread waits for a state that never comes |

The five traps (`Trapped`). `TestEnds` fails if any one of them is left out:

1. The count is above the number. The thread compares with `==`, and the count
   outlives the test: a finished test of 2 leaves 2 in the preferences, an app
   opened again while Wi-Fi is connected counts that connection, and a test of 2
   started at 3 never ends unless it is stopped or reset. A network that comes
   or goes can make the count skip its number too.
2. The switch is off and `isConnected` is set: the callback's assignment came
   after the click's. This is what `aging_stuck` shows.
3. The radio is opposite to the switch: every click starts a thread of its own
   that calls `setWifiEnabled`, and the threads may overtake each other.
4. Wi-Fi is connected and nothing more will say so: `networkInfo` is from a time
   without a connection, or the news came while the switch was off.
5. Two `MyThread`s undo each other's clicks.

`AutomaticOffEarned` speaks of a test whose thread is alone and of a switch
nobody has pressed. Two threads that wake together can both ask for a click
while Wi-Fi is off; the first click switches it on, and the second switches it
off before it has connected.

An app opened with Wi-Fi off fails `TestReachesTarget` too, undisturbed, by the
fourth trap: `networkInfo` is a snapshot of `onResume`, so every connection is
counted as a failure and `isConnected` is never set.

Fairness: the looper and every thread get their turn; Wi-Fi that is on finds a
network and a scan finds something, which is what the test is run for. Users
need not do anything, hence `CHECK_DEADLOCK FALSE`. The bounds on
notifications and setters are two, and so is that on the queue where two threads
may fill it: one message that is followed by another is enough to tell the orders
apart. In `aging`, which has one thread, the queue holds one.

### Proofs (AgingTestProofs)

`AgingTypes`, `CountsHold` and `SwitchForgets` hold for any numbers of threads,
presses, notifications and interruptions. `CountsSinceReset` is not inductive,
because a callback that has read a count commits it later: `CallInv` says what
such a callback carries (more than the preferences hold now, a reset in between
included, and with the other count no more than was ever counted). `OffForgets`
needs, beside the types, only that callbacks belong to the new interface.
`OffIsEarned` proves `AutomaticOffEarned` from `Prompt` alone, for any number of
tests, resets, returns to the app and networks. As long as nobody has pressed
the switch and no two threads have met (`Calm`), there is one thread at most and
nothing is queued when it looks (`AloneInv`). So a request for a click is the
first message of the queue, and one that would switch Wi-Fi off was made after it
had connected and scanned (`DueInv`); nothing undoes that before the message is
handled, because a reset stops the test.
`StoppedLoopsEnd`, `TestEnds` and `TestReachesTarget` are liveness and stay with
TLC.

## 6. The scan list (ScanMerge)

`onReceive` sorts the results of a scan by strength and merges them by name.
One step is one turn of the loop; the sort is taken as its specification, so the
initial states are all sorted lists. `frequencySupport` and the nested
conditions that merge the codes 0 to 3 are translated as they are, and compared
with sets of bands. The run `scan_merge` checks all lists of up to four results
over two names and a hidden one, three channels and two strengths: two names
and three results of one of them are enough for every branch of the merge.

### Proofs (ScanMergeProofs)

`NamesHold`, `BandsHold` and `StrengthHolds` prove the three properties for
every list, every set of names and all frequencies from 1000 to 9999 MHz
(`ScanAssumption`). The lemmas `FrequencySupportRight` and `MergeFreqRight`
say that the codes and the sets of bands agree; the invariant adds
`EntriesFromResults`, which with the sorting gives the strength, and one turn
is split into its three branches.

## 7. Settings (IperfSettings)

Each process parses its command line option by option (`Parsed`), with the
limits of `iperf_parse_arguments` (`Refused`) and the checks after its loop
(`Rejected`); a client sends its parameters (`Parameters`), the server takes
them (`Taken`) into a test that holds what the tests before have left, and
`iperf_reset_test` (`Reset`) follows, also when the client goes away before or
after the exchange. `HasSendfile` says whether the build has sendfile, without
which `-Z` is refused. Strings and switches have a value or two; numbers are those
of the code, times in hundredths of a second where the code has fractions.

| run | instance | what it shows |
|---|---|---|
| `settings` | any three options of a list with values on both sides of each limit, any number of clients one after the other | `SettingsAgree`: every setting that is cleared between tests has this client's value; `OneSender`: one side sends, whichever came first of `-c` and `-R`; `RetransmitsKnown`; `OneEnd`: at most one of `-t`, `-n`, `-k` |

Three options are enough for each pair of options in each order beside the role.
Observations on the way: `-R` given twice makes both sides senders (`RepeatR`
leaves it out); the server keeps `-n`, `-k`, `-S` and `-L` of an earlier test
where the next client gives none; `iperf_reset_test` frees the address of `-B`,
so that from its second test on a server listens on all interfaces; `-P 0` is
accepted; the usage text says `--num` and `--nodelay` where the program takes
`--bytes` and `--no-delay`.

### Proofs (IperfSettingsProofs)

The four properties hold for every set of options that `getopt_long` knows
(`OptionsAssumption`), command lines of any length and any number of clients
(`EveryTestItsOwn`, `RetransmitsAlwaysKnown`, `AlwaysOneEnd`, `OneSideSends`; the
last assumes that no command line repeats `-R`). None is inductive: what makes a
client's settings arrive unmixed is that the server's test is clear before
(`Cleared`), after its own command line because a server refuses every option
of a client, and between tests because of `iperf_reset_test`. So a process
(`IsProc`) keeps its exchanged settings at their defaults until `client_flag` is
set, and a test (`IsTest`) keeps the retransmit flag, and without `RepeatR` the
direction, a function of its other fields. `Inv` adds what is on its way
(`LinkFit`) and that a running client has passed the checks (`ClientFit`); each
operation on a test has a lemma, and each group of actions a lemma on top.

## 8. The command screen and the report socket (IperfScreen)

The actors are the main thread, with a queue of posted messages (`mainQ`), the
one worker of AsyncTask's serial executor (`executor`), the iperf3 processes,
and the threads of `ReadIperfDataHelper` (`thread`). An activity is the button,
`isDoExecCommand` and `mIperTask`; a screen that is left leaves its task
behind, and a rotation makes a new activity whose button is pressed again by
the restored state. `cancel(true)` ends a task that has not begun and
interrupts one that has; in both cases `onCancelled` runs later on the main
thread, and its `setChecked(false)` is a change, with all of
`onCheckedChanged`, if a new task has been started meanwhile. The report socket
is a queue of connections; a process killed between its `connect` and its
`send` leaves an empty one, for which `readLine` returns null and
`onProgressUpdate` throws (`ShowLineThrows`).

A thread of the helper is made (`Background`) and started (`StartServer`) in two
steps, because the main thread may call `stop()` between them; then
`mThread.start()` is a call on null and the app crashes (`StartServerThrows`). An
IOException of bind, accept, readLine or close ends the thread for good
(`Bind`, `ReadFails`, `ReadLine`). It is then lost: its socket, which nobody
closes, keeps the address, so that processes still connect and no one reads; or,
once the socket has been collected (`Collect`), gone. In both cases `mThread`
stays set until some task ends, and `startServer` starts no other.

AsyncTask, Activity and sockets are modelled from how the code uses them and
marked external.

| run | instance | what it shows |
|---|---|---|
| `screen` | 2 tasks, 2 screens, an endless and an ending command, one line each | `ButtonMatchesTask`; `StopStops`: at rest a cancelled task is over and its process dead; `HeldUpByLeftTestOnly`: only the endless test of a screen that was left keeps a command from running; `HasListener`; `NothingOverwritten` |

Two tasks are enough for the callbacks of an old one to meet a new one, two
screens for a task whose screen is gone, two commands for a removal followed by
a save. Three tasks without lines were checked too. After an exception the app
starts afresh with the saved commands, so that lists of every shape are met.
`CHECK_DEADLOCK FALSE`: the user may stop.

`HasListener` says that a running process has a thread that listens or is about
to, or that an IOException has ended a thread. Without the second alternative it
is violated: after such an exception a process runs with nobody to read its lines.

Two results a maintainer may want to know. `HasListener` and
`NothingOverwritten` hold for reasons that look like mistakes: interrupting a
thread in `accept()` does nothing, so that the listener a later task relies on
survives the end of an earlier one; and a save after a removal throws a
NullPointerException before it could overwrite a command. And the app copies its
asset to `bin/iperf` but starts `bin/iperf3`.

### Proofs (IperfScreenProofs)

For any commands and any numbers of tasks and screens: `ButtonsHold`
(`ButtonMatchesTask`), `ListenersHold` (`HasListener`), `CommandsHold`
(`NothingOverwritten`), `StopsHold` (`StopStops`) and `OnlyLeftTestsHoldUp`
(`HeldUpByLeftTestOnly`). The invariant `ScreenInv` adds to the types and to the
first property `Known` (a task that a message or the helper names has been
started) and `Helped`: once a task has run there is a thread of the helper that
has not died of another one, which is kept because a thread finds the address
taken only where another one listens, or was lost, with its socket bound. So if
no thread was ended by an IOException, one of them listens or is about to.
`onCancelled` calls the whole of `onCheckedChanged` through `setChecked(false)`; what follows from one such call is
summarised by `Follows`, which says that the tasks have only moved on.
`NothingOverwritten` is an action property: a save writes under the number of
saved commands as its key, and throws where the keys have a gap.

`StopStops` and `HeldUpByLeftTestOnly` speak of states at rest. `AtRest` lists what
the main thread, the worker and the processes could still do for a task, and says
that they can do none of it; it is weaker than "no step of `App` is possible"
(a line may still be read), so the properties say more than with ENABLED, which the
prover does not reason about. That a state is `AtRest`
when no step of `App` is possible, other than those on the report socket, was
checked with TLC (up to the bound on tasks). Neither property is
inductive, because rest alone does not tell where a task is. `RestInv` adds that,
for each task (`Fit`): until its end is posted it is in the executor, and at its
head once begun; a task that returned has its end in `mainQ` until
it is finished; only a task that waits or returned has a live process; and one
that is neither over nor cancelled is the `mIperTask` of its activity. So a
cancelled task at rest can only be finished. `Numbered` (tasks are
numbered as they start, so a new one takes no other's place) and `Lined` (tasks of an older activity come first in the
executor) give the second property: a test of the screen in front that held the
worker would be the `mIperTask` of the newest activity, and so would the task
behind it.

## 9. The reboot test (RebootLoop)

The reboot switch writes the preference `reboot`; after a boot `BootReceive`
opens the screen, with an extra, if it is set; there `countDownTimerDialog`
opens a dialog and starts a countdown, if Wi-Fi is on, from `onResume`, from the
switch and from every scan. The negative button ends the countdown; the back key
only dismisses the dialog, and the next scan starts the same CountDownTimer
again, which adds a second chain of messages (`timer.chains`). The reboot
command may fail. The device may be power-cycled at any time.

| run | instance | what it shows |
|---|---|---|
| `reboot` | 9 presses, countdown of 2, 2 failing commands, any number of boots | `RebootsOnlyIfBootedOn`; `StaysOff`; `LoopGoesOn`: with the switch and Wi-Fi on the device is rebooted again and again |

Nine presses allow the switch, a first boot, three dismissals and a switch
turned back. Fairness: time passes, a device told to reboot does, and Wi-Fi
that is on keeps scanning. `LoopGoesOn` asks that `isOpenReboot` is set too,
because it is a copy made in `onResume`: with the switch turned on after that,
while Wi-Fi is off, no scan opens the dialog and the test stands still. The
other way round, a switch turned off leaves `isOpenReboot` set, and the next
scan reboots the device once more; `RebootsOnlyIfBootedOn` says that this is the
last time.

`StaysOff` says when the test is really over: the switch is off, the screen that
a boot opened is gone or has read that in `onResume`, and no countdown is left,
of all those the back key may have left running (`Off`). From then on no scan,
dialog, return to the app or boot starts a countdown or a reboot, until the
switch is turned on. A switch turned off alone is not enough: with a stale
`isOpenReboot` the next scan counts down, and a chain that the back key has left
reboots the device at its end.

### Proofs (RebootLoopProofs)

`OffStays` (`StaysOff`) and `RebootsOnlyAfterOnBoot` hold for any countdown and any number
of presses, chains and failures (`RebootAssumption`). The invariant `IInv`
follows what the receiver read at the boot: the extra, the dialog and the
countdown exist only if the switch was on then (`OnlyThere`), a dialog has a
countdown (`ShownCounts`), and a device that is down has none of them
(`DownForgets`). `OffStays` rests on `ShownCounts`, which excludes a dialog without
a countdown, and on what `onResume` reads. The lemma `DialogKeeps` serves the four callers of
`countDownTimerDialog`.

## 10. Findings

Two runs of kind "violation" record where the code disagrees with its own
comments or texts: one in the UDP statistics, one in the on/off test. Each is
quoted with its lines under "findings" in `PROJECT.json`. The client that stays
blocked on an orphaned stream (section 2) is not counted among them, because
nothing in the repository promises otherwise.

## 11. What is not modelled

* SCTP is compiled out; `cjson.c` is vendored; `units.c`, `locale.c` and most of
  the reports format text.
* Socket options, window sizes and TCP statistics have no effect on the state of
  the program.
* The hello datagrams that open a UDP stream, the jitter estimate, and 32-bit
  wrap-around of datagram numbers.
* Pacing (`iperf_check_throttle`, green lights): a send is a step that may wait.
* The child's standard output. The app never reads it (`IperfTestActivity.java:470`),
  although `iprintf` prints every line (`iperf_api.c:2629`): a long run may fill the
  pipe and block iperf3 in its write.
* The copying of the iperf binary, the chart, and the parsing of a line for it.
* A rotation of the device during the reboot countdown, which leaks the dialog's
  window; what follows is up to the system.
* A host that vanishes without closing its connections: no read has a timeout,
  so every liveness property would fail by itself.
* Liveness, refinement with fairness, and recursive definitions are left to
  TLC: they are beyond the proof system used here.

## 12. What is proved and what is left

| module | theorems about properties of its runs | model-checked only |
|---|---|---|
| `IperfControl` | `TypeOK`, `OneTest`, `StreamsCarryCookie`, `RunningTogether`, `ResultsExchanged`, `DeniedNeverAdmitted`, `OrphansAreNotified`, `ImplementsSession` | `ClientsEnd`, `ServerFreed` (fairness) |
| `IperfTimer` | `TimersSorted`, `HandlesLive`, `RunStaysOnList`, `IntervalsReported`, `OmitEndsFirst` | `TimedTestEnds`, `DueTimersRun` (fairness) |
| `UdpStream` | `ReceiverTotals`, `IntervalsAddUp`, `LossBounds` | |
| `AgingTest` | `CountsSinceReset`, `OffForgets`, `AutomaticOffEarned` | `StoppedLoopsEnd`, `TestEnds` (fairness) |
| `ScanMerge` | `OneEntryPerName`, `BandsMerged`, `StrongestFirst` | |
| `IperfSettings` | `SettingsAgree`, `RetransmitsKnown`, `OneEnd`, `OneSender` | |
| `IperfScreen` | `ButtonMatchesTask`, `StopStops`, `HeldUpByLeftTestOnly`, `HasListener`, `NothingOverwritten` | |
| `RebootLoop` | `StaysOff`, `RebootsOnlyIfBootedOn` | `LoopGoesOn` (fairness) |

Left:

1. `Throttle`: `iperf_check_throttle`, green lights and send timers, composed
   with `IperfTimer`.
