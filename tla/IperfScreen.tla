---------------------------- MODULE IperfScreen ----------------------------
(***************************************************************************)
(* The iperf screen of the app (IperfTestActivity.java): the toggle        *)
(* button, the tasks it starts and cancels, the list of saved commands,    *)
(* and the local socket on which the iperf3 processes report their lines   *)
(* (ReadIperfDataHelper.java, send_info of iperf_api.c).                   *)
(*                                                                         *)
(* Actors: the main thread (clicks and a queue of posted messages), the    *)
(* one worker of AsyncTask's serial executor, the threads of the report    *)
(* socket and the iperf3 processes. A task is named by the number of the   *)
(* execute() that started it; its process has the same name. Of a command  *)
(* only this matters: is it empty, does it pass the pattern, and does its  *)
(* process end by itself. The text can be edited at any time and is read   *)
(* when the button is pressed, so it is chosen there. Leaving the screen   *)
(* destroys the activity and nothing else; a task goes on belonging to the *)
(* activity it was made by.                                                *)
(***************************************************************************)
EXTENDS Integers, Sequences, FiniteSets

CONSTANTS
    Endless,        \* valid commands whose process runs until it is killed (-s)
    Ending,         \* valid commands whose process ends by itself (-c)
    Invalid,        \* commands the pattern does not accept
    MaxTasks,       \* bound: tasks started
    MaxScreens,     \* bound: times the screen is opened
    MaxLines        \* bound: lines a process reports

Empty == ""
Commands == Endless \cup Ending \cup Invalid
Tasks == 1 .. MaxTasks
Screens == 1 .. MaxScreens
Missing == 0       \* null: no task, no thread, no screen

ASSUME ScreenAssumption ==
    /\ Empty \notin Commands
    /\ MaxTasks \in Nat /\ MaxScreens \in Nat /\ MaxLines \in Nat

VARIABLES
    screen,     \* the activity in front, or Missing
    opened,     \* activities made so far
    act,        \* each activity: the button, isDoExecCommand, mIperTask
    prefs,      \* the saved commands, by number: "cmd" + number
    popup,      \* rows in the list under the text, or Hidden
    task,       \* each task
    executor,   \* tasks in the serial executor; the first one has the worker
    mainQ,      \* messages posted to the main thread
    mListener,  \* the task whose listener the helper calls
    mThread,    \* the helper's thread, or Missing
    thread,     \* the threads made, in order: see below
    conns       \* connections on the report socket, oldest first

tasks == <<task, executor, mainQ>>
helper == <<mListener, mThread, thread>>
list == <<prefs, popup>>
vars == <<screen, opened, act, list, tasks, helper, conns>>

NewActivity == [checked |-> FALSE, doExec |-> FALSE, mIperTask |-> Missing]
NoTask == [st |-> "none", of |-> Missing, command |-> Empty, cancelled |-> FALSE,
           process |-> "none", lines |-> 0]

Hidden == -1

\* The messages a task posts: its end, and a line for onProgressUpdate, or null.
Finish(t) == [what |-> "finish", task |-> t]
Progress(t, line) == [what |-> "progress", task |-> t, line |-> line]

Init ==
    /\ screen = Missing /\ opened = 0
    /\ act = [a \in Screens |-> NewActivity]
    /\ prefs = <<>> /\ popup = Hidden
    /\ task = [t \in Tasks |-> NoTask]
    /\ executor = <<>> /\ mainQ = <<>>
    /\ mListener = Missing /\ mThread = Missing
    /\ thread = <<>> /\ conns = <<>>

\* An exception on the main thread or the worker ends the app and its iperf3 processes; the
\* saved commands stay.
Crash ==
    /\ screen' = Missing /\ opened' = 0
    /\ act' = [a \in Screens |-> NewActivity]
    /\ popup' = Hidden
    /\ task' = [t \in Tasks |-> NoTask]
    /\ executor' = <<>> /\ mainQ' = <<>>
    /\ mListener' = Missing /\ mThread' = Missing
    /\ thread' = <<>> /\ conns' = <<>>
    /\ UNCHANGED prefs

Alive(t) == task[t].process = "alive"
Started == {t \in Tasks : task[t].st # "none"}
NextId == Cardinality(Started) + 1

-----------------------------------------------------------------------------
(* The saved commands. *)

Size == Cardinality(DOMAIN prefs)

\* saveCommandList finds the command, and stops looking.
FoundAt(c, i) ==
    /\ i \in DOMAIN prefs /\ i < Size /\ prefs[i] = c
    /\ \A j \in 0 .. i - 1 : j \in DOMAIN prefs

\* Mutant: a missing key is passed over instead of being dereferenced.
SaveFailsNever(c) == c = Empty /\ c # Empty

\* saveCommandList meets a missing key before it finds the command: the value is
\* null, and calling equals on it throws.
SaveFails(c) ==
    /\ c # Empty
    /\ \E i \in 0 .. Size - 1 : i \notin DOMAIN prefs
    /\ ~\E i \in 0 .. Size - 1 : FoundAt(c, i)

\* saveCommandList: a new command is stored under the size of the list.
Saved(c) ==
    IF c = Empty \/ \E i \in 0 .. Size - 1 : i \in DOMAIN prefs /\ prefs[i] = c
    THEN prefs
    ELSE [k \in DOMAIN prefs \cup {Size} |-> IF k = Size THEN c ELSE prefs[k]]

\* showListPopulWindow, on focus or on the arrow: getPopupWindowList makes one row
\* for each number below the size, an empty one where the key is missing.
ShowPopup ==
    /\ screen # Missing /\ popup = Hidden
    /\ popup' = Size
    /\ UNCHANGED <<screen, opened, act, prefs, tasks, helper, conns>>

\* The cross of a row: the row goes, and the key with the row's number.
RemoveRow ==
    /\ \E i \in 0 .. popup - 1 :
        /\ popup' = popup - 1
        /\ prefs' = [k \in DOMAIN prefs \ {i} |-> prefs[k]]
    /\ UNCHANGED <<screen, opened, act, tasks, helper, conns>>

\* A row is picked, or the list is dismissed.
ClosePopup ==
    /\ popup # Hidden
    /\ popup' = Hidden
    /\ UNCHANGED <<screen, opened, act, prefs, tasks, helper, conns>>

-----------------------------------------------------------------------------
(* The toggle button and the tasks. *)

\* AsyncTask.execute: onPreExecute reads the command, the serial executor gets
\* the task.
Execute(a, command, tk) ==
    /\ NextId \in Tasks
    /\ task' = [tk EXCEPT ![NextId] = [st |-> "queued", of |-> a, command |-> command,
                                       cancelled |-> FALSE, process |-> "none",
                                       lines |-> MaxLines]]
    /\ executor' = Append(executor, NextId)
    /\ act' = [act EXCEPT ![a] = [checked |-> TRUE, doExec |-> TRUE, mIperTask |-> NextId]]

\* Mutant: the reference to the cancelled task is kept.
ReleasedOnly(a) == [act[a] EXCEPT !.checked = FALSE, !.doExec = FALSE]

\* The activity once its task is cancelled.
Released(a) == [act[a] EXCEPT !.checked = FALSE, !.doExec = FALSE, !.mIperTask = Missing]

\* AsyncTask.cancel(true): a task the worker has not begun is over at once, one
\* that runs is interrupted; in both cases the main thread hears of it later.
Cancel(a, tk, queue) ==
    LET t == act[a].mIperTask
        waiting == tk[t].st = "queued"
    IN  /\ task' = [tk EXCEPT ![t].cancelled = TRUE,
                              ![t].st = IF waiting THEN "returned" ELSE @]
        /\ mainQ' = IF waiting THEN Append(queue, Finish(t)) ELSE queue
        /\ act' = [act EXCEPT ![a] = Released(a)]
        /\ UNCHANGED <<prefs, executor>>

\* onCheckedChanged, for the button of activity a after a change of its state.
OnCheckedChanged(a, text, tk, queue) ==
    \/ act[a].doExec /\ Cancel(a, tk, queue)
    \/ /\ ~act[a].doExec
       /\ ~SaveFails(text)
       /\ prefs' = Saved(text)
       /\ IF act[a].mIperTask = Missing
            THEN Execute(a, text, tk)
            ELSE /\ act' = [act EXCEPT ![a].checked = ~@, ![a].doExec = TRUE]
                 /\ task' = tk /\ UNCHANGED executor
       /\ mainQ' = queue

Click ==
    /\ screen # Missing /\ popup = Hidden
    /\ \E text \in Commands \cup {Empty} : OnCheckedChanged(screen, text, task, mainQ)
    /\ UNCHANGED <<screen, opened, popup, helper, conns>>

ClickThrows ==
    /\ screen # Missing /\ popup = Hidden
    /\ ~act[screen].doExec
    /\ \E text \in Commands : SaveFails(text)
    /\ Crash

Open ==
    /\ screen = Missing /\ opened < MaxScreens
    /\ screen' = opened + 1 /\ opened' = opened + 1
    /\ UNCHANGED <<act, list, tasks, helper, conns>>

\* Back: there is no onDestroy, so the task goes on.
Leave ==
    /\ screen # Missing
    /\ screen' = Missing /\ popup' = Hidden
    /\ UNCHANGED <<opened, act, prefs, tasks, helper, conns>>

\* A rotation makes a new activity. The button, which comes first in the layout,
\* is checked again as it was, when the text is still empty; then the text returns.
Rotate ==
    /\ screen # Missing /\ opened < MaxScreens
    /\ screen' = opened + 1 /\ opened' = opened + 1 /\ popup' = Hidden
    /\ \/ act[screen].checked /\ Execute(opened + 1, Empty, task)
       \/ ~act[screen].checked /\ UNCHANGED <<task, executor, act>>
    /\ UNCHANGED <<prefs, mainQ, helper, conns>>

\* The connections of a process that ends: one it had not written to yet ends empty.
Dropped(t) ==
    [i \in DOMAIN conns |->
        IF conns[i].from = t /\ conns[i].st = "open"
        THEN [conns[i] EXCEPT !.st = "eof"] ELSE conns[i]]

\* Mutant: accept() would be ended by the interrupt.
StoppedThreads(t) ==
    [r \in DOMAIN thread |-> IF r = t THEN "dead" ELSE thread[r]]

\* What interrupt() does to a thread: nothing, it waits in accept().
Interrupted(t) == thread

\* Mutant: a process that outlives its task is left running.
NotDestroyed(t) == [task EXCEPT ![t].st = "finished", ![t].lines = 0]

\* The task at its end: process.destroy and waitFor, where there is a process.
Destroyed(t) ==
    [task EXCEPT ![t].st = "finished", ![t].lines = 0,
                 ![t].process = IF Alive(t) THEN "dead" ELSE @]

\* onPostExecute and onCancelled, which are alike: the process is destroyed, the
\* helper is stopped, and the button is released, which is a change only if it
\* was pressed.
FinishTask ==
    /\ mainQ # <<>> /\ Head(mainQ).what = "finish"
    /\ LET t  == Head(mainQ).task
           a  == task[t].of
           tk == Destroyed(t)
       IN  /\ conns' = Dropped(t)
           /\ thread' = Interrupted(mThread)
           /\ mThread' = Missing
           /\ IF act[a].checked
                THEN \E text \in Commands \cup {Empty} :
                        OnCheckedChanged(a, text, tk, Tail(mainQ))
                ELSE /\ task' = tk /\ mainQ' = Tail(mainQ)
                     /\ UNCHANGED <<act, prefs, executor>>
    /\ UNCHANGED <<screen, opened, popup, mListener>>

\* onProgressUpdate shows the line.
ShowLine ==
    /\ mainQ # <<>> /\ Head(mainQ).what = "progress" /\ Head(mainQ).line
    /\ mainQ' = Tail(mainQ)
    /\ UNCHANGED <<screen, opened, act, list, task, executor, helper, conns>>

\* onProgressUpdate is given null, where the process died before it wrote.
ShowLineThrows ==
    /\ mainQ # <<>> /\ Head(mainQ).what = "progress" /\ ~Head(mainQ).line
    /\ Crash

-----------------------------------------------------------------------------
(* The worker of the serial executor. *)

Worker(t, st) == executor # <<>> /\ t = Head(executor) /\ task[t].st = st

\* doInBackground returns: the result is posted and the worker takes the next task.
Return(t) ==
    /\ task' = [task EXCEPT ![t].st = "returned"]
    /\ executor' = Tail(executor)
    /\ mainQ' = Append(mainQ, Finish(t))
    /\ UNCHANGED <<screen, opened, act, list, conns>>

\* A task cancelled before its turn is passed over.
Skip(t) ==
    /\ Worker(t, "returned") \/ Worker(t, "finished")
    /\ executor' = Tail(executor)
    /\ UNCHANGED <<screen, opened, act, list, task, mainQ, helper, conns>>

\* An empty or invalid command, or one for whose lines the listener is set;
\* startServer makes a thread unless the helper has one,
Background(t) ==
    /\ Worker(t, "queued")
    /\ \/ /\ task[t].command \in Invalid \cup {Empty}
          /\ Return(t)
          /\ UNCHANGED helper
       \/ /\ task[t].command \in Endless \cup Ending
          /\ mListener' = t
          /\ IF mThread = Missing
               THEN /\ thread' = Append(thread, "new") /\ mThread' = Len(thread) + 1
                    /\ task' = [task EXCEPT ![t].st = "serving"]
               ELSE /\ UNCHANGED <<thread, mThread>>
                    /\ task' = [task EXCEPT ![t].st = "launching"]
          /\ UNCHANGED <<screen, opened, act, list, executor, mainQ, conns>>

\* and starts it,
StartServer(t) ==
    /\ Worker(t, "serving") /\ mThread # Missing
    /\ thread' = [thread EXCEPT ![mThread] = "starting"]
    /\ task' = [task EXCEPT ![t].st = "launching"]
    /\ UNCHANGED <<screen, opened, act, list, executor, mainQ, mListener, mThread, conns>>

\* unless the main thread has called stop() in between.
StartServerThrows(t) ==
    /\ Worker(t, "serving") /\ mThread = Missing
    /\ Crash

\* ProcessBuilder.start, which fails where there is no bin/iperf3 to run.
Launch(t) ==
    /\ Worker(t, "launching")
    /\ \/ /\ task' = [task EXCEPT ![t].st = "waiting", ![t].process = "alive"]
          /\ UNCHANGED <<screen, opened, act, list, executor, mainQ, helper, conns>>
       \/ Return(t) /\ UNCHANGED helper

\* Mutant: cancel(false), which interrupts nothing.
WaitEndsUninterrupted(t) == task[t].process = "dead"

\* Process.waitFor ends with the process or with the interrupt.
WaitEnds(t) == task[t].process = "dead" \/ task[t].cancelled

Wait(t) ==
    /\ Worker(t, "waiting")
    /\ WaitEnds(t)
    /\ Return(t)
    /\ UNCHANGED helper

-----------------------------------------------------------------------------
(* The iperf3 processes and the report socket. *)

\* A thread is new until start(), starting until it has the address, listening, and
\* dead if it did not get it. An IOException ends it too: it is lost as long as its
\* socket, which nobody closes, keeps the address, and gone when it does not.
Bound == {r \in DOMAIN thread : thread[r] \in {"listening", "lost"}}

ProcessEnds(t) ==
    /\ Alive(t) /\ task[t].command \in Ending
    /\ task' = [task EXCEPT ![t].process = "dead"]
    /\ conns' = Dropped(t)
    /\ UNCHANGED <<screen, opened, act, list, executor, mainQ, helper>>

\* send_info connects, or gives the line up when nobody has the address.
Connect(t) ==
    /\ Alive(t) /\ task[t].lines > 0
    /\ \A i \in DOMAIN conns : conns[i].from = t => conns[i].st # "open"
    /\ task' = [task EXCEPT ![t].lines = @ - 1]
    /\ conns' = IF Bound = {} THEN conns ELSE Append(conns, [from |-> t, st |-> "open"])
    /\ UNCHANGED <<screen, opened, act, list, executor, mainQ, helper>>

\* send_info writes its line and closes.
Send(t) ==
    /\ Alive(t)
    /\ \E i \in DOMAIN conns :
        /\ conns[i] = [from |-> t, st |-> "open"]
        /\ conns' = [conns EXCEPT ![i].st = "line"]
    /\ UNCHANGED <<screen, opened, act, list, tasks, helper>>

\* RunThread: the address is taken as long as another socket has it; the exception
\* ends the thread without a word.
Bind(r) ==
    /\ thread[r] = "starting"
    /\ IF Bound = {} THEN \E st \in {"listening", "gone"} : thread' = [thread EXCEPT ![r] = st]
                     ELSE thread' = [thread EXCEPT ![r] = "dead"]
    /\ UNCHANGED <<screen, opened, act, list, tasks, mListener, mThread, conns>>

\* accept, readLine and the listener, whose publishProgress posts the line unless
\* its task is cancelled. Closing the connection may fail.
ReadLine(r) ==
    /\ thread[r] = "listening"
    /\ conns # <<>> /\ Head(conns).st # "open"
    /\ conns' = Tail(conns)
    /\ mainQ' = IF task[mListener].cancelled THEN mainQ
                ELSE Append(mainQ, Progress(mListener, Head(conns).st = "line"))
    /\ \E st \in {"listening", "lost"} : thread' = [thread EXCEPT ![r] = st]
    /\ UNCHANGED <<screen, opened, act, list, task, executor, mListener, mThread>>

\* accept fails, or reading from the connection it has given. The helper keeps the
\* thread that has ended.
ReadFails(r) ==
    /\ thread[r] = "listening"
    /\ thread' = [thread EXCEPT ![r] = "lost"]
    /\ conns' = conns \/ (conns # <<>> /\ conns' = Tail(conns))
    /\ UNCHANGED <<screen, opened, act, list, tasks, mListener, mThread>>

\* The socket of such a thread is closed when it is garbage, with its connections.
Collect(r) ==
    /\ thread[r] = "lost"
    /\ thread' = [thread EXCEPT ![r] = "gone"]
    /\ conns' = <<>>
    /\ UNCHANGED <<screen, opened, act, list, tasks, mListener, mThread>>

-----------------------------------------------------------------------------
User == ShowPopup \/ RemoveRow \/ ClosePopup \/ Click \/ ClickThrows
        \/ Open \/ Leave \/ Rotate

\* What goes on without the user.
App ==
    \/ FinishTask \/ ShowLine \/ ShowLineThrows
    \/ \E t \in Tasks : Skip(t) \/ Background(t) \/ StartServer(t) \/ Launch(t) \/ Wait(t)
    \/ \E t \in Tasks : StartServerThrows(t)
    \/ \E t \in Tasks : Connect(t) \/ Send(t) \/ ProcessEnds(t)
    \/ \E r \in DOMAIN thread : Bind(r) \/ ReadLine(r) \/ ReadFails(r) \/ Collect(r)

Next == User \/ App

Spec == Init /\ [][Next]_vars

-----------------------------------------------------------------------------
(* Properties. *)

\* The button of every activity is pressed exactly while that activity has a
\* task, so that releasing it never cancels a null task.
ButtonMatchesTask ==
    \A a \in Screens : /\ act[a].checked = act[a].doExec
                       /\ act[a].checked = (act[a].mIperTask # Missing)

\* The main thread has handled its messages, the worker waits for a process if it
\* has a task, and no process is going to end by itself: whatever App can still
\* do concerns lines only.
AtRest ==
    /\ mainQ = <<>>
    /\ executor # <<>> =>
          task[Head(executor)].st = "waiting" /\ ~WaitEnds(Head(executor))
    /\ \A t \in Tasks : Alive(t) => task[t].command \notin Ending

\* When everything has come to rest, a task that was cancelled has ended and its
\* process is dead, wherever the interrupt met it.
StopStops ==
    AtRest => \A t \in Tasks : task[t].cancelled =>
                  task[t].st = "finished" /\ ~Alive(t)

\* When everything has come to rest, a task still waiting for the worker waits for
\* an endless test of a screen that was left, the one test no button can end: no
\* other order of presses keeps a command from being run.
HeldUpByLeftTestOnly ==
    AtRest => \A t \in Tasks : task[t].st = "queued" =>
        LET u == Head(executor)
        IN  /\ u # t /\ Alive(u) /\ ~task[u].cancelled
            /\ task[u].command \in Endless /\ task[u].of # screen

\* A running process has a thread that listens for its lines or is about to, although
\* the end of an older task may have stopped the helper in between and the new
\* thread dies of the old one: unless an IOException has ended a thread, for which
\* startServer starts no other.
HasListener ==
    \A t \in Tasks : Alive(t) =>
        \/ \E r \in DOMAIN thread : thread[r] \in {"new", "starting", "listening"}
        \/ \E r \in DOMAIN thread : thread[r] \in {"lost", "gone"}

\* No saved command is ever replaced by another.
NothingOverwritten ==
    [][\A k \in DOMAIN prefs \cap DOMAIN prefs' : prefs'[k] = prefs[k]]_vars
=============================================================================
