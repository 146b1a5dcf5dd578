------------------------------ MODULE AgingTest ------------------------------
(***************************************************************************)
(* The Wi-Fi on/off test of the app (AgingTestActivity.java): the switch,  *)
(* the thread that asks every ten seconds for a click, the main thread     *)
(* that clicks, the threads that call setWifiEnabled, the broadcasts and   *)
(* callbacks of the system, and the counts kept in SharedPreferences.      *)
(*                                                                         *)
(* Before Android N the connectivity broadcast is handled on the main      *)
(* thread; since N a NetworkCallback is, on a thread of its own.           *)
(***************************************************************************)
EXTENDS Naturals, Sequences, FiniteSets

CONSTANTS
    Loops,          \* the MyThread objects that may be alive at a time
    Targets,        \* the numbers the user may enter
    Opened,         \* the Wi-Fi states, of "off", "on", "linked", the app is opened in
    Apis,           \* the systems it runs on, of "old" (before N) and "new"
    Budget,         \* how often each of Kinds may happen
    Past,           \* the successes earlier runs may have left in the preferences
    MaxQueue,       \* bound on the messages waiting at mHandler
    MaxNews,        \* bound on the notifications not yet delivered
    MaxSetters,     \* bound on the threads about to call setWifiEnabled
    Prompt          \* ten seconds are enough for what is under way when they begin

\* What users and the world outside do, each at most so many times: presses of
\* the test button, of the switch and of reset, returns to the app with and
\* without a stop; and outside, losses of the Wi-Fi link and other networks that
\* become available.
Kinds == {"test", "switch", "reset", "resume", "outside"}

ASSUME AgingAssumption ==
    /\ Targets \subseteq Nat /\ Past \subseteq Nat
    /\ Opened \subseteq {"off", "on", "linked"} /\ Apis \subseteq {"old", "new"}
    /\ Budget \in [Kinds -> Nat] /\ MaxQueue \in Nat /\ MaxNews \in Nat \ {0}
    /\ MaxSetters \in Nat /\ Prompt \in BOOLEAN

VARIABLES
    ui,         \* the fields of the activity
    prefs,      \* SharedPreferences "data"
    queue,      \* messages to mHandler
    loop,       \* the MyThread objects
    call,       \* the NetworkCallback in progress
    setters,    \* how many threads are about to call setWifiEnabled(b)
    wifi,       \* api, radio, link, registrations and undelivered notifications
    left,       \* what remains of Budget
    counted,    \* history: connections counted, in all and since the last reset
    crowded     \* history: two MyThreads have been alive at the same time

vars == <<ui, prefs, queue, loop, call, setters, wifi, left, counted, crowded>>

\* mWifiSwitch.isChecked, isTestStart, mTestCount, isConnected, isScanResult and
\* networkInfo.isConnected, a snapshot taken by onResume.
Fields == [on : BOOLEAN, start : BOOLEAN, target : Targets \cup {0}, conn : BOOLEAN,
           scan : BOOLEAN, known : BOOLEAN]

TypeOK ==
    /\ ui \in Fields
    /\ prefs \in [success : Nat, fail : Nat]
    /\ queue \in Seq({"WIFI_SWITCH", "WIFI_TEST_STOP"}) /\ Len(queue) <= MaxQueue
    /\ loop \in [Loops -> {"none", "top", "sleep", "awake", "count"}]
    /\ call \in [at : {"idle", "mark", "read", "commit"}, key : {"success", "fail"}, value : Nat]
    /\ setters \in [BOOLEAN -> Nat]
    /\ wifi \in [api : Apis, radio : BOOLEAN, link : BOOLEAN, reg : Nat, news : 0 .. MaxNews]
    /\ wifi.link => wifi.radio
    /\ left \in [Kinds -> Nat]
    /\ counted \in [all : Nat, since : Nat] /\ crowded \in BOOLEAN

Idle == [at |-> "idle", key |-> "fail", value |-> 0]

\* onCreate and the first onResume. Registering brings news of a link that is up.
Init ==
    /\ \E state \in Opened, api \in Apis, past \in Past :
        /\ ui = [on |-> state # "off", start |-> FALSE, target |-> 0, conn |-> FALSE,
                 scan |-> FALSE, known |-> state = "linked"]
        /\ prefs = [success |-> past, fail |-> 0]
        /\ wifi = [api |-> api, radio |-> state # "off", link |-> state = "linked", reg |-> 1,
                   news |-> IF state = "linked" THEN 1 ELSE 0]
        /\ counted = [all |-> past, since |-> past]
    /\ queue = <<>>
    /\ loop = [l \in Loops |-> "none"]
    /\ call = Idle
    /\ setters = [b \in BOOLEAN |-> 0]
    /\ left = Budget /\ crowded = FALSE

Count == prefs.success + prefs.fail
Use(kind) == left[kind] > 0 /\ left' = [left EXCEPT ![kind] = @ - 1]
\* Nothing is under way.
Quiet ==
    /\ queue = <<>> /\ call = Idle /\ wifi.news = 0
    /\ \A b \in BOOLEAN : setters[b] = 0

-----------------------------------------------------------------------------
(* Clicks and buttons, on the main thread. *)

\* Mutant: isScanResult is not reset.
ClickKeepsScan(u) ==
    [u EXCEPT !.on = ~@, !.conn = @ /\ ~u.on]

\* onCheckedChanged of mWifiSwitch: switching off forgets the connection and
\* the scan.
Click(u) ==
    [u EXCEPT !.on = ~@, !.conn = @ /\ ~u.on, !.scan = @ /\ ~u.on]
\* ... and a new thread sets the radio.
SetterStarts(u) ==
    /\ setters[TRUE] + setters[FALSE] < MaxSetters
    /\ setters' = [setters EXCEPT ![~u.on] = @ + 1]

PressSwitch ==
    /\ Use("switch")
    /\ ui' = Click(ui) /\ SetterStarts(ui)
    /\ UNCHANGED <<prefs, queue, loop, call, wifi, counted, crowded>>

\* The test button, with n in the text field: the new target holds also for a
\* test that is stopped. A new thread is started whether or not an older one has
\* ended.
PressTest(n) ==
    /\ Use("test")
    /\ ui' = [ui EXCEPT !.target = n, !.start = ~@]
    /\ IF ui.start THEN UNCHANGED <<loop, crowded>>
       ELSE /\ \E l \in Loops : loop[l] = "none" /\ loop' = [loop EXCEPT ![l] = "top"]
            /\ crowded' = (crowded \/ \E l \in Loops : loop[l] # "none")
    /\ UNCHANGED <<prefs, queue, call, setters, wifi, counted>>

PressReset ==
    /\ Use("reset")
    /\ LET u == [ui EXCEPT !.target = 0, !.start = FALSE] IN
        IF u.on THEN ui' = Click(u) /\ SetterStarts(u)
                ELSE ui' = u /\ UNCHANGED setters
    /\ prefs' = [success |-> 0, fail |-> 0]
    /\ counted' = [counted EXCEPT !.since = 0]
    /\ UNCHANGED <<queue, loop, call, wifi, crowded>>

\* onResume, after onStop (unregisterNetworkCallback) or after a mere onPause.
\* Registering a second time adds a second delivery; networkInfo is read again.
Resume ==
    /\ Use("resume")
    /\ ui' = [ui EXCEPT !.known = wifi.link]
    /\ \E stopped \in BOOLEAN :
        LET pending == IF stopped /\ wifi.api = "new" THEN 0 ELSE wifi.news
            fresh   == IF wifi.api = "new" /\ wifi.link THEN 1 ELSE 0
        IN  /\ pending + fresh <= MaxNews
            /\ wifi' = [wifi EXCEPT !.reg = IF stopped THEN 1 ELSE @ + 1,
                                    !.news = pending + fresh]
    /\ UNCHANGED <<prefs, queue, loop, call, setters, counted, crowded>>

\* Mutant: only the button's text changes.
StopKeepsRunning(u) == u

Stop(u) == [u EXCEPT !.start = FALSE]

\* handleMessage of mHandler.
HandleMessage ==
    /\ queue # <<>>
    /\ queue' = Tail(queue)
    /\ IF Head(queue) = "WIFI_TEST_STOP"
         THEN ui' = Stop(ui) /\ UNCHANGED setters
       ELSE IF ui.start /\ Count < ui.target
         THEN ui' = Click(ui) /\ SetterStarts(ui)
         ELSE UNCHANGED <<ui, setters>>
    /\ UNCHANGED <<prefs, loop, call, wifi, left, counted, crowded>>

-----------------------------------------------------------------------------
(* MyThread. *)

\* Mutants: the loop is never left; a scan is not waited for.
GoesOnForEver == TRUE
ClickDueUnscanned == ui.on = ui.conn

GoesOn == ui.start
\* The switch has had its effect: on, connected and scanned, or none of these.
ClickDue == ui.on = ui.conn /\ ui.on = ui.scan

LoopTop(l) ==
    /\ loop[l] = "top"
    /\ loop' = [loop EXCEPT ![l] = IF GoesOn THEN "sleep" ELSE "none"]
    /\ UNCHANGED <<ui, prefs, queue, call, setters, wifi, left, counted, crowded>>

\* The sleep of ten seconds. What was under way when it began is over at some
\* moment of it; after that, other threads and the user may have made requests
\* that are still under way when this one looks.
LoopSleeps(l) ==
    /\ loop[l] = "sleep"
    /\ Prompt => Quiet
    /\ loop' = [loop EXCEPT ![l] = "awake"]
    /\ UNCHANGED <<ui, prefs, queue, call, setters, wifi, left, counted, crowded>>

LoopLooks(l) ==
    /\ loop[l] = "awake"
    /\ loop' = [loop EXCEPT ![l] = "count"]
    /\ IF ClickDue
         THEN Len(queue) < MaxQueue /\ queue' = Append(queue, "WIFI_SWITCH")
         ELSE UNCHANGED queue
    /\ UNCHANGED <<ui, prefs, call, setters, wifi, left, counted, crowded>>

\* ... and the test is over when the count equals the target.
LoopCounts(l) ==
    /\ loop[l] = "count"
    /\ loop' = [loop EXCEPT ![l] = "top"]
    /\ IF Count = ui.target
         THEN Len(queue) < MaxQueue /\ queue' = Append(queue, "WIFI_TEST_STOP")
         ELSE UNCHANGED queue
    /\ UNCHANGED <<ui, prefs, call, setters, wifi, left, counted, crowded>>

-----------------------------------------------------------------------------
(* saveWifiConnectState. *)

\* Mutant: edited, not committed.
SavedNot == prefs

Saved == IF ui.known THEN [prefs EXCEPT !.success = @ + 1] ELSE [prefs EXCEPT !.fail = @ + 1]

\* Before N: in the handler of CONNECTIVITY_ACTION, on the main thread.
SaveOnMain ==
    /\ wifi.api = "old" /\ wifi.news > 0
    /\ wifi' = [wifi EXCEPT !.news = @ - 1]
    /\ IF ui.on
         THEN /\ ui' = [ui EXCEPT !.conn = @ \/ ui.known]
              /\ prefs' = Saved
              /\ counted' = [all |-> counted.all + 1, since |-> counted.since + 1]
         ELSE UNCHANGED <<ui, prefs, counted>>
    /\ UNCHANGED <<queue, loop, call, setters, left, crowded>>

\* Since N: onAvailable, on the connectivity thread, looks at the switch,
CallLooks ==
    /\ wifi.api = "new" /\ wifi.news > 0 /\ call = Idle
    /\ wifi' = [wifi EXCEPT !.news = @ - 1]
    /\ call' = IF ~ui.on THEN Idle
               ELSE IF ui.known THEN [at |-> "mark", key |-> "success", value |-> 0]
                                ELSE [at |-> "read", key |-> "fail", value |-> 0]
    /\ UNCHANGED <<ui, prefs, queue, loop, setters, left, counted, crowded>>

\* sets isConnected,
CallMarks ==
    /\ call.at = "mark"
    /\ ui' = [ui EXCEPT !.conn = TRUE]
    /\ call' = [call EXCEPT !.at = "read"]
    /\ UNCHANGED <<prefs, queue, loop, setters, wifi, left, counted, crowded>>

\* reads the count,
CallReads ==
    /\ call.at = "read"
    /\ call' = [call EXCEPT !.at = "commit", !.value = prefs[call.key] + 1]
    /\ UNCHANGED <<ui, prefs, queue, loop, setters, wifi, left, counted, crowded>>

\* and commits it.
CallCommits ==
    /\ call.at = "commit"
    /\ prefs' = [prefs EXCEPT ![call.key] = call.value]
    /\ call' = Idle
    /\ counted' = [all |-> counted.all + 1, since |-> counted.since + 1]
    /\ UNCHANGED <<ui, queue, loop, setters, wifi, left, crowded>>

-----------------------------------------------------------------------------
(* The system: the threads that call setWifiEnabled, links, scans. *)

\* A notification of a network that has become available, to every registration;
\* before N, of any change, to the one receiver.
Notify(w) ==
    LET n == w.news + (IF w.api = "new" THEN w.reg ELSE 1) IN
    n <= MaxNews /\ wifi' = [w EXCEPT !.news = n]
NotifyChange(w) == IF w.api = "new" THEN wifi' = w ELSE Notify(w)

Radio(b) == [wifi EXCEPT !.radio = b, !.link = @ /\ b]

\* A thread started by the switch gets its turn; the threads are not ordered.
SetWifi(b) ==
    /\ setters[b] > 0
    /\ setters' = [setters EXCEPT ![b] = @ - 1]
    /\ IF Radio(b).link # wifi.link THEN NotifyChange(Radio(b)) ELSE wifi' = Radio(b)
    /\ UNCHANGED <<ui, prefs, queue, loop, call, left, counted, crowded>>

LinkUp ==
    /\ wifi.radio /\ ~wifi.link
    /\ Notify([wifi EXCEPT !.link = TRUE])
    /\ UNCHANGED <<ui, prefs, queue, loop, call, setters, left, counted, crowded>>

LinkFlaps ==
    /\ wifi.link /\ Use("outside")
    /\ NotifyChange([wifi EXCEPT !.link = FALSE])
    /\ UNCHANGED <<ui, prefs, queue, loop, call, setters, counted, crowded>>

\* The NetworkRequest asks for no particular transport.
OtherNetwork ==
    /\ Use("outside")
    /\ Notify(wifi)
    /\ UNCHANGED <<ui, prefs, queue, loop, call, setters, counted, crowded>>

\* SCAN_RESULTS_AVAILABLE_ACTION with a list that is not empty; without effect
\* on this state when the switch is off.
ScanResults ==
    /\ ui.on /\ ~ui.scan
    /\ ui' = [ui EXCEPT !.scan = TRUE]
    /\ UNCHANGED <<prefs, queue, loop, call, setters, wifi, left, counted, crowded>>

-----------------------------------------------------------------------------
LoopStep(l) == LoopTop(l) \/ LoopSleeps(l) \/ LoopLooks(l) \/ LoopCounts(l)
CallStep == CallLooks \/ CallMarks \/ CallReads \/ CallCommits

Next ==
    \/ PressSwitch \/ (\E n \in Targets : PressTest(n)) \/ PressReset \/ Resume
    \/ HandleMessage \/ (\E l \in Loops : LoopStep(l))
    \/ SaveOnMain \/ CallStep
    \/ (\E b \in BOOLEAN : SetWifi(b)) \/ LinkUp \/ LinkFlaps \/ OtherNetwork
    \/ ScanResults

Spec == Init /\ [][Next]_vars

\* Threads and the looper get their turn, a configured network in reach is
\* joined, and a scan finds something.
Fairness ==
    /\ WF_vars(HandleMessage) /\ \A l \in Loops : WF_vars(LoopStep(l))
    /\ WF_vars(SaveOnMain) /\ WF_vars(CallStep)
    /\ \A b \in BOOLEAN : WF_vars(SetWifi(b))
    /\ WF_vars(LinkUp) /\ WF_vars(ScanResults)

FairSpec == Spec /\ Fairness

-----------------------------------------------------------------------------
(* Properties. *)

\* The counts in the preferences are the connections counted since the last
\* reset. Since N, where a callback may read before a reset and commit after it
\* (saveWifiConnectState), they may keep what came before, and never lose one.
CountsSinceReset ==
    /\ counted.since <= Count /\ Count <= counted.all
    /\ wifi.api = "old" => Count = counted.since

\* A switch that is off has forgotten the scan, and before N the connection too:
\* whatever the order of clicks, scans and broadcasts, the thread can ask for it
\* to be switched on again.
OffForgets == ~ui.on => ~ui.scan /\ (wifi.api = "old" => ~ui.conn)

\* A test that is stopped, by whatever way, leaves no MyThread behind.
StoppedLoopsEnd == <>[](~ui.start) => <>[](\A l \in Loops : loop[l] = "none")

\* As long as nobody has pressed the switch and no test was started beside the
\* thread of an older one, Wi-Fi is switched off by the test only after it has
\* connected and scanned since it was switched on.
AutomaticOffEarned ==
    [][/\ left["switch"] = Budget["switch"] /\ ~crowded
       /\ queue' # queue /\ ui.on /\ ~ui'.on
       => ui.conn /\ ui.scan]_vars

\* Two MyThreads are alive.
Crowd == \E l, m \in Loops : l # m /\ loop[l] # "none" /\ loop[m] # "none"

\* What keeps a test from ending: the count has passed its number, which the thread
\* compares with ==, as where an earlier test has left its count; a callback has set
\* isConnected after the click that reset it; two setWifiEnabled threads have
\* overtaken one another, as they may after two quick clicks; Wi-Fi is connected and
\* nothing more will tell so, since networkInfo is from a time without a connection
\* or the news came while the switch was off; or two MyThreads undo each other's
\* clicks.
Trapped ==
    \/ Count > ui.target
    \/ ~ui.on /\ ui.conn
    \/ ui.on # wifi.radio
    \/ ui.on /\ wifi.link /\ ~ui.conn /\ wifi.news = 0
    \/ Crowd

\* "输入开关测试次数" (enter the number of on/off tests): a test ends, unless it is in
\* one of these traps for good.
TestEnds == <>[](ui.start) => <>[]Trapped

\* "输入开关测试次数": a test below its number gets on, until the number is reached.
TestReachesTarget ==
    ui.start /\ Count < ui.target ~> ~ui.start \/ Count >= ui.target
=============================================================================
