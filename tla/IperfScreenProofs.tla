-------------------------- MODULE IperfScreenProofs --------------------------
(***************************************************************************)
(* The button, the report socket, the saved commands and what comes to     *)
(* rest in IperfScreen, for any commands and any numbers of tasks, screens *)
(* and lines.                                                              *)
(***************************************************************************)
EXTENDS IperfScreen, FiniteSetTheorems, SequenceTheorems, TLAPS

-----------------------------------------------------------------------------
(* Types. *)

Activities == [checked : BOOLEAN, doExec : BOOLEAN, mIperTask : Tasks \cup {Missing}]

\* A task knows its activity once it is started, and has no process before.
TaskStates ==
    {r \in [st : {"none", "queued", "serving", "launching", "waiting", "returned", "finished"},
            of : Screens \cup {Missing}, command : Commands \cup {Empty},
            cancelled : BOOLEAN, process : {"none", "alive", "dead"}, lines : Nat] :
        IF r.st = "none" THEN r.process = "none" ELSE r.of \in Screens}

Messages == [what : {"finish"}, task : Tasks]
            \cup [what : {"progress"}, task : Tasks, line : BOOLEAN]
Connections == [from : Tasks, st : {"open", "line", "eof"}]
ThreadStates == {"new", "starting", "listening", "lost", "gone", "dead"}

ScreenTypes ==
    /\ screen \in Screens \cup {Missing} /\ opened \in 0 .. MaxScreens
    /\ act \in [Screens -> Activities]
    /\ IsFiniteSet(DOMAIN prefs)
    /\ task \in [Tasks -> TaskStates]
    /\ executor \in Seq(Tasks) /\ mainQ \in Seq(Messages)
    /\ thread \in Seq(ThreadStates)
    /\ conns \in Seq(Connections)

\* The task is about to have a process, or has one.
Running(r) == r.st \in {"serving", "launching"} \/ r.process = "alive"

\* The messages are of tasks that have been started, and so is the listener.
Known ==
    /\ \A i \in 1 .. Len(mainQ) : task[mainQ[i].task].st # "none"
    /\ thread # <<>> => mListener \in Tasks /\ task[mListener].st # "none"

\* A thread has been made for every process, and never have all of them died of
\* one another.
Helped ==
    /\ mThread # Missing => thread # <<>>
    /\ \A t \in Tasks : Running(task[t]) => thread # <<>>
    /\ thread # <<>> => \E r \in 1 .. Len(thread) : thread[r] # "dead"

ScreenInv == ScreenTypes /\ ButtonMatchesTask /\ Known /\ Helped

\* The tasks of new are those of tk some steps later, none of them put to work.
Follows(tk, new) ==
    /\ new \in [Tasks -> TaskStates]
    /\ \A t \in Tasks : /\ tk[t].st # "none" => new[t].st # "none"
                        /\ Running(new[t]) => Running(tk[t])

LEMMA FollowsOne ==
    ASSUME NEW tk \in [Tasks -> TaskStates], NEW t \in Tasks, NEW r \in TaskStates,
           tk[t].st # "none" => r.st # "none", Running(r) => Running(tk[t])
    PROVE  Follows(tk, [tk EXCEPT ![t] = r])
  BY DEF Follows

LEMMA FinishMessage == \A t \in Tasks : Finish(t) \in Messages /\ Finish(t).task = t
  BY DEF Finish, Messages

LEMMA AppendFacts ==
    ASSUME NEW S, NEW q \in Seq(S), NEW e \in S
    PROVE  /\ Append(q, e) \in Seq(S) /\ Append(q, e) # <<>>
           /\ Len(q) + 1 \in 1 .. Len(Append(q, e)) /\ Append(q, e)[Len(q) + 1] = e
  OBVIOUS

LEMMA TasksPositive == Missing \notin Tasks /\ \A t \in Tasks : t \in Nat
  BY ScreenAssumption DEF Missing, Tasks

-----------------------------------------------------------------------------
(* The toggle button. *)

\* Changing one activity to one whose button agrees with its task.
LEMMA ButtonSet ==
    ASSUME ScreenTypes, ButtonMatchesTask, NEW a \in Screens, NEW v \in Activities,
           v.checked = v.doExec, v.checked = (v.mIperTask # Missing),
           act' = [act EXCEPT ![a] = v]
    PROVE  act' \in [Screens -> Activities] /\ ButtonMatchesTask'
<1>1. act \in [Screens -> Activities]
  BY DEF ScreenTypes
<1>2. act' \in [Screens -> Activities]
  BY <1>1
<1>3. ASSUME NEW b \in Screens
      PROVE  act'[b].checked = act'[b].doExec /\ act'[b].checked = (act'[b].mIperTask # Missing)
  <2>1. act'[b] = IF b = a THEN v ELSE act[b]
    BY <1>1
  <2>2. act[b].checked = act[b].doExec /\ act[b].checked = (act[b].mIperTask # Missing)
    BY DEF ButtonMatchesTask
  <2> QED
    BY <2>1, <2>2
<1> QED
  BY <1>2, <1>3 DEF ButtonMatchesTask

LEMMA ExecuteStarts ==
    ASSUME ScreenTypes, ButtonMatchesTask, NEW a \in Screens,
           NEW command \in Commands \cup {Empty}, NEW tk \in [Tasks -> TaskStates],
           Execute(a, command, tk)
    PROVE  /\ act' \in [Screens -> Activities] /\ ButtonMatchesTask'
           /\ executor' \in Seq(Tasks) /\ Follows(tk, task')
<1> DEFINE r == [st |-> "queued", of |-> a, command |-> command, cancelled |-> FALSE,
                 process |-> "none", lines |-> MaxLines]
           v == [checked |-> TRUE, doExec |-> TRUE, mIperTask |-> NextId]
<1>1. /\ NextId \in Tasks /\ task' = [tk EXCEPT ![NextId] = r]
      /\ executor' = Append(executor, NextId) /\ act' = [act EXCEPT ![a] = v]
  BY DEF Execute
<1>2. r \in TaskStates /\ r.st # "none" /\ ~Running(r)
  BY ScreenAssumption DEF TaskStates, Running
<1>3. v \in Activities /\ v.checked = v.doExec /\ v.checked = (v.mIperTask # Missing)
  BY <1>1, TasksPositive DEF Activities
<1> HIDE DEF r, v
<1>4. Follows(tk, task')
  BY <1>1, <1>2, FollowsOne
<1>5. executor' \in Seq(Tasks)
  BY <1>1 DEF ScreenTypes
<1> QED
  BY <1>1, <1>3, <1>4, <1>5, ButtonSet

\* The state of the task cancel(true) leaves behind.
LEMMA CancelOne ==
    ASSUME NEW r \in TaskStates,
           NEW s, s = [r EXCEPT !.cancelled = TRUE,
                                !.st = IF r.st = "queued" THEN "returned" ELSE @]
    PROVE  /\ s \in TaskStates /\ (r.st # "none" => s.st # "none")
           /\ Running(s) => Running(r)
           /\ r.st = "queued" => s.st # "none"
  BY DEF TaskStates, Running

\* onCheckedChanged keeps the button and the task together, whatever the text.
LEMMA ButtonChange ==
    ASSUME ScreenTypes, ButtonMatchesTask, NEW a \in Screens,
           NEW text \in Commands \cup {Empty}, NEW tk \in [Tasks -> TaskStates],
           NEW queue \in Seq(Messages), OnCheckedChanged(a, text, tk, queue)
    PROVE  /\ act' \in [Screens -> Activities] /\ ButtonMatchesTask'
           /\ executor' \in Seq(Tasks) /\ mainQ' \in Seq(Messages)
           /\ Follows(tk, task')
           /\ \/ mainQ' = queue
              \/ \E t \in Tasks : mainQ' = Append(queue, Finish(t)) /\ task'[t].st # "none"
<1>0. act \in [Screens -> Activities] /\ executor \in Seq(Tasks)
  BY DEF ScreenTypes
<1>1. /\ act[a].checked = act[a].doExec /\ act[a].checked = (act[a].mIperTask # Missing)
      /\ act[a].mIperTask \in Tasks \cup {Missing}
  BY <1>0 DEF ButtonMatchesTask, Activities
<1>2. CASE act[a].doExec /\ Cancel(a, tk, queue)
  <2> DEFINE t == act[a].mIperTask
             r == [tk[t] EXCEPT !.cancelled = TRUE,
                                !.st = IF tk[t].st = "queued" THEN "returned" ELSE @]
  <2>1. t \in Tasks
    BY <1>1, <1>2
  <2>2. /\ task' = [tk EXCEPT ![t].cancelled = TRUE,
                              ![t].st = IF tk[t].st = "queued" THEN "returned" ELSE @]
        /\ mainQ' = IF tk[t].st = "queued" THEN Append(queue, Finish(t)) ELSE queue
        /\ act' = [act EXCEPT ![a] = Released(a)]
        /\ UNCHANGED executor
    BY <1>2 DEF Cancel
  <2> HIDE DEF t
  <2>3. task' = [tk EXCEPT ![t] = r]
    BY <2>1, <2>2 DEF TaskStates
  <2>4. tk[t] \in TaskStates
    BY <2>1
  <2>5. /\ r \in TaskStates /\ (tk[t].st # "none" => r.st # "none")
        /\ Running(r) => Running(tk[t])
        /\ tk[t].st = "queued" => r.st # "none"
    <3> HIDE DEF r
    <3> QED
      BY <2>4, CancelOne DEF r
  <2> HIDE DEF r
  <2>6. Follows(tk, task')
    BY <2>1, <2>3, <2>5, FollowsOne
  <2>7. mainQ' \in Seq(Messages) /\ task'[t] = r
    <3>1. Append(queue, Finish(t)) \in Seq(Messages)
      BY <2>1, FinishMessage
    <3>2. task'[t] = r
      BY <2>1, <2>3
    <3> QED
      BY <2>2, <3>1, <3>2
  <2>8. Released(a) \in Activities /\ ~Released(a).checked /\ ~Released(a).doExec
        /\ Released(a).mIperTask = Missing
    BY <1>0 DEF Released, Activities
  <2>9. act' \in [Screens -> Activities] /\ ButtonMatchesTask'
    <3> DEFINE v == Released(a)
    <3>1. act' = [act EXCEPT ![a] = v] /\ v \in Activities
          /\ v.checked = v.doExec /\ v.checked = (v.mIperTask # Missing)
      BY <2>2, <2>8 DEF Activities
    <3> HIDE DEF v
    <3> QED
      BY <3>1, ButtonSet
  <2> QED
    BY <1>0, <2>1, <2>2, <2>5, <2>6, <2>7, <2>9
<1>3. CASE ~act[a].doExec /\ mainQ' = queue /\ Execute(a, text, tk)
  BY <1>3, ExecuteStarts
<1>4. CASE ~act[a].doExec /\ act[a].mIperTask # Missing
  BY <1>1, <1>4
<1> QED
  BY <1>2, <1>3, <1>4 DEF OnCheckedChanged

\* Messages to tasks stay known when one of a known task is added, and when the
\* first is taken away.
LEMMA KnownAppend ==
    ASSUME NEW q \in Seq(Messages), NEW m \in Messages, NEW tk \in [Tasks -> TaskStates],
           \A i \in 1 .. Len(q) : tk[q[i].task].st # "none", tk[m.task].st # "none"
    PROVE  \A i \in 1 .. Len(Append(q, m)) : tk[Append(q, m)[i].task].st # "none"
<1> TAKE i \in 1 .. Len(Append(q, m))
<1>1. Append(q, m)[i] = IF i <= Len(q) THEN q[i] ELSE m
  OBVIOUS
<1> QED
  BY <1>1

LEMMA KnownFinish ==
    ASSUME NEW q \in Seq(Messages), NEW new, NEW tk \in [Tasks -> TaskStates],
           \A i \in 1 .. Len(q) : tk[q[i].task].st # "none",
           new = q \/ \E t \in Tasks : new = Append(q, Finish(t)) /\ tk[t].st # "none"
    PROVE  /\ new \in Seq(Messages)
           /\ \A i \in 1 .. Len(new) : tk[new[i].task].st # "none"
<1>1. ASSUME NEW t \in Tasks, new = Append(q, Finish(t)), tk[t].st # "none"
      PROVE  /\ new \in Seq(Messages)
             /\ \A i \in 1 .. Len(new) : tk[new[i].task].st # "none"
  <2>1. Finish(t) \in Messages /\ Finish(t).task = t
    BY FinishMessage
  <2> QED
    BY <1>1, <2>1, KnownAppend
<1> QED
  BY <1>1

LEMMA KnownTail ==
    ASSUME NEW q \in Seq(Messages), q # <<>>, NEW tk \in [Tasks -> TaskStates],
           \A i \in 1 .. Len(q) : tk[q[i].task].st # "none"
    PROVE  /\ Tail(q) \in Seq(Messages)
           /\ \A i \in 1 .. Len(Tail(q)) : tk[Tail(q)[i].task].st # "none"
<1>1. Tail(q) \in Seq(Messages) /\ \A i \in 1 .. Len(Tail(q)) : Tail(q)[i] = q[i + 1] /\ i + 1 \in 1 .. Len(q)
  OBVIOUS
<1> QED
  BY <1>1

LEMMA KnownFollows ==
    ASSUME NEW q \in Seq(Messages), NEW tk \in [Tasks -> TaskStates], NEW new,
           Follows(tk, new), \A i \in 1 .. Len(q) : tk[q[i].task].st # "none"
    PROVE  \A i \in 1 .. Len(q) : new[q[i].task].st # "none"
<1>1. \A m \in Messages : m.task \in Tasks
  BY DEF Messages
<1>2. \A i \in 1 .. Len(q) : q[i] \in Messages
  OBVIOUS
<1> QED
  BY <1>1, <1>2 DEF Follows

-----------------------------------------------------------------------------
(* The steps. *)

LEMMA FollowsSelf == ScreenTypes => Follows(task, task)
  BY DEF ScreenTypes, Follows

LEMMA FollowsTwice ==
    ASSUME NEW tk, NEW mid, NEW new, Follows(tk, mid), Follows(mid, new)
    PROVE  Follows(tk, new)
  BY DEF Follows

\* A step that starts no thread and puts no task to work keeps the invariant if
\* it keeps the types, the buttons and the messages.
LEMMA QuietStep ==
    ASSUME ScreenInv, screen' \in Screens \cup {Missing}, opened' \in 0 .. MaxScreens,
           act' \in [Screens -> Activities], ButtonMatchesTask',
           IsFiniteSet(DOMAIN prefs'), executor' \in Seq(Tasks), conns' \in Seq(Connections),
           Follows(task, task'), mainQ' \in Seq(Messages),
           \A i \in 1 .. Len(mainQ') : task'[mainQ'[i].task].st # "none",
           UNCHANGED <<mListener, thread>>, mThread' \in {mThread, Missing}
    PROVE  ScreenInv'
<1>1. ScreenTypes'
  BY DEF ScreenInv, ScreenTypes, Follows
<1>2. Known'
  BY DEF ScreenInv, Known, Follows
<1>3. Helped'
  BY DEF ScreenInv, Helped, Follows
<1> QED
  BY <1>1, <1>2, <1>3 DEF ScreenInv

\* The same for one that changes nothing but tasks, the worker's queue, messages
\* and connections.
LEMMA WorkStep ==
    ASSUME ScreenInv, UNCHANGED <<screen, opened, act, prefs, helper>>,
           executor' \in Seq(Tasks), conns' \in Seq(Connections),
           Follows(task, task'), mainQ' \in Seq(Messages),
           \A i \in 1 .. Len(mainQ') : task'[mainQ'[i].task].st # "none"
    PROVE  ScreenInv'
<1>1. /\ screen \in Screens \cup {Missing} /\ opened \in 0 .. MaxScreens
      /\ act \in [Screens -> Activities] /\ IsFiniteSet(DOMAIN prefs)
  BY DEF ScreenInv, ScreenTypes
<1>2. ButtonMatchesTask'
  BY DEF ScreenInv, ButtonMatchesTask
<1> QED
  BY <1>1, <1>2, QuietStep DEF helper

LEMMA ScreenInit == Init => ScreenInv
<1> SUFFICES ASSUME Init PROVE ScreenInv
  OBVIOUS
<1>1. NewActivity \in Activities /\ NewActivity.checked = NewActivity.doExec
      /\ NewActivity.checked = (NewActivity.mIperTask # Missing)
  BY DEF NewActivity, Activities
<1>2. NoTask \in TaskStates /\ ~Running(NoTask)
  BY DEF NoTask, TaskStates, Running
<1>3. IsFiniteSet(DOMAIN prefs)
  BY FS_EmptySet DEF Init
<1>4. ScreenTypes
  BY <1>1, <1>2, <1>3, ScreenAssumption DEF Init, ScreenTypes
<1>5. ButtonMatchesTask
  <2>1. \A a \in Screens : act[a] = NewActivity
    BY DEF Init
  <2> QED
    BY <1>1, <2>1 DEF ButtonMatchesTask
<1>6. thread = <<>> /\ mainQ = <<>> /\ mThread = Missing
      /\ \A t \in Tasks : ~Running(task[t])
  BY <1>2 DEF Init
<1>7. Known /\ Helped
  BY <1>6 DEF Known, Helped
<1> QED
  BY <1>4, <1>5, <1>7 DEF ScreenInv

LEMMA CrashStep == ScreenInv /\ Crash => ScreenInv'
<1> SUFFICES ASSUME ScreenInv, Crash PROVE ScreenInv'
  OBVIOUS
<1>1. NewActivity \in Activities /\ NewActivity.checked = NewActivity.doExec
      /\ NewActivity.checked = (NewActivity.mIperTask # Missing)
  BY DEF NewActivity, Activities
<1>2. NoTask \in TaskStates /\ ~Running(NoTask)
  BY DEF NoTask, TaskStates, Running
<1>3. IsFiniteSet(DOMAIN prefs')
  BY DEF Crash, ScreenInv, ScreenTypes
<1>4. ScreenTypes'
  BY <1>1, <1>2, <1>3, ScreenAssumption DEF Crash, ScreenTypes
<1>5. ButtonMatchesTask'
  <2>1. \A a \in Screens : act'[a] = NewActivity
    BY DEF Crash
  <2> QED
    BY <1>1, <2>1 DEF ButtonMatchesTask
<1>6. thread' = <<>> /\ mainQ' = <<>> /\ mThread' = Missing
      /\ \A t \in Tasks : ~Running(task'[t])
  BY <1>2 DEF Crash
<1>7. Known' /\ Helped'
  BY <1>6 DEF Known, Helped
<1> QED
  BY <1>4, <1>5, <1>7 DEF ScreenInv

\* The saved commands stay finitely many.
LEMMA PrefsFinite ==
    ASSUME IsFiniteSet(DOMAIN prefs),
           \/ UNCHANGED prefs
           \/ \E c : prefs' = Saved(c)
           \/ \E i : prefs' = [k \in DOMAIN prefs \ {i} |-> prefs[k]]
    PROVE  IsFiniteSet(DOMAIN prefs')
<1>1. ASSUME NEW c, prefs' = Saved(c) PROVE IsFiniteSet(DOMAIN prefs')
  <2>1. DOMAIN prefs' = DOMAIN prefs \/ DOMAIN prefs' = DOMAIN prefs \cup {Size}
    BY <1>1 DEF Saved
  <2>2. IsFiniteSet(DOMAIN prefs \cup {Size})
    BY FS_AddElement
  <2> QED
    BY <2>1, <2>2
<1>2. ASSUME NEW i, prefs' = [k \in DOMAIN prefs \ {i} |-> prefs[k]]
      PROVE  IsFiniteSet(DOMAIN prefs')
  <2>1. DOMAIN prefs' = DOMAIN prefs \ {i}
    BY <1>2
  <2> QED
    BY <2>1, FS_RemoveElement
<1> QED
  BY <1>1, <1>2

LEMMA UserStep == ScreenInv /\ User => ScreenInv'
<1> SUFFICES ASSUME ScreenInv, User PROVE ScreenInv'
  OBVIOUS
<1>0. /\ ScreenTypes /\ ButtonMatchesTask /\ Follows(task, task)
      /\ screen \in Screens \cup {Missing} /\ opened \in 0 .. MaxScreens
      /\ act \in [Screens -> Activities] /\ IsFiniteSet(DOMAIN prefs)
      /\ executor \in Seq(Tasks) /\ conns \in Seq(Connections) /\ mainQ \in Seq(Messages)
      /\ task \in [Tasks -> TaskStates]
      /\ \A i \in 1 .. Len(mainQ) : task[mainQ[i].task].st # "none"
  BY FollowsSelf DEF ScreenInv, ScreenTypes, Known
<1>1. CASE ShowPopup \/ ClosePopup
  BY <1>0, <1>1, WorkStep DEF ShowPopup, ClosePopup, tasks
<1>2. CASE RemoveRow
  <2>1. /\ UNCHANGED <<screen, opened, act, tasks, helper, conns>>
        /\ \E i : prefs' = [k \in DOMAIN prefs \ {i} |-> prefs[k]]
    BY <1>2 DEF RemoveRow
  <2>2. IsFiniteSet(DOMAIN prefs')
    BY <1>0, <2>1, PrefsFinite
  <2>3. ButtonMatchesTask'
    BY <1>0, <2>1 DEF ButtonMatchesTask
  <2> QED
    BY <1>0, <2>1, <2>2, <2>3, QuietStep DEF tasks, helper
<1>3. CASE Click
  <2>1. PICK text \in Commands \cup {Empty} : OnCheckedChanged(screen, text, task, mainQ)
    BY <1>3 DEF Click
  <2>2. screen \in Screens /\ UNCHANGED <<screen, opened, helper, conns>>
    BY <1>0, <1>3 DEF Click
  <2>3. /\ act' \in [Screens -> Activities] /\ ButtonMatchesTask'
        /\ executor' \in Seq(Tasks) /\ mainQ' \in Seq(Messages)
        /\ Follows(task, task')
        /\ \/ mainQ' = mainQ
           \/ \E t \in Tasks : mainQ' = Append(mainQ, Finish(t)) /\ task'[t].st # "none"
    BY <1>0, <2>1, <2>2, ButtonChange
  <2>4. \A i \in 1 .. Len(mainQ) : task'[mainQ[i].task].st # "none"
    BY <1>0, <2>3, KnownFollows
  <2>5. \A i \in 1 .. Len(mainQ') : task'[mainQ'[i].task].st # "none"
    BY <1>0, <2>3, <2>4, KnownFinish DEF Follows
  <2>6. IsFiniteSet(DOMAIN prefs')
    <3>1. UNCHANGED prefs \/ prefs' = Saved(text)
      BY <2>1 DEF OnCheckedChanged, Cancel
    <3> QED
      BY <1>0, <3>1, PrefsFinite
  <2> QED
    BY <1>0, <2>2, <2>3, <2>5, <2>6, QuietStep DEF helper
<1>4. CASE ClickThrows
  BY <1>4, CrashStep DEF ClickThrows
<1>5. CASE Open \/ Leave
  <2>1. screen' \in Screens \cup {Missing} /\ opened' \in 0 .. MaxScreens
    BY <1>0, <1>5, ScreenAssumption DEF Open, Leave, Screens
  <2>2. UNCHANGED <<act, prefs, tasks, helper, conns>>
    BY <1>5 DEF Open, Leave, list
  <2>3. ButtonMatchesTask'
    BY <1>0, <2>2 DEF ButtonMatchesTask
  <2> QED
    BY <1>0, <2>1, <2>2, <2>3, QuietStep DEF tasks, helper
<1>6. CASE Rotate
  <2>1. /\ screen' \in Screens /\ opened' \in 0 .. MaxScreens /\ opened + 1 \in Screens
        /\ UNCHANGED <<prefs, mainQ, helper, conns>>
    BY <1>0, <1>6, ScreenAssumption DEF Rotate, Screens
  <2>2. /\ act' \in [Screens -> Activities] /\ ButtonMatchesTask'
        /\ executor' \in Seq(Tasks) /\ Follows(task, task')
    <3>1. CASE Execute(opened + 1, Empty, task)
      BY <1>0, <2>1, <3>1, ExecuteStarts
    <3>2. CASE UNCHANGED <<task, executor, act>>
      BY <1>0, <3>2 DEF ButtonMatchesTask
    <3> QED
      BY <1>6, <3>1, <3>2 DEF Rotate
  <2>3. \A i \in 1 .. Len(mainQ) : task'[mainQ[i].task].st # "none"
    BY <1>0, <2>2, KnownFollows
  <2> QED
    BY <1>0, <2>1, <2>2, <2>3, QuietStep DEF helper
<1> QED
  BY <1>1, <1>2, <1>3, <1>4, <1>5, <1>6 DEF User

\* One task changes, within its type, and is not put to work.
LEMMA TaskChange ==
    ASSUME ScreenTypes, NEW t \in Tasks, NEW r \in TaskStates,
           task' = [task EXCEPT ![t] = r], r.st # "none", Running(r) => Running(task[t])
    PROVE  Follows(task, task') /\ task'[t] = r
  BY FollowsOne DEF ScreenTypes

\* doInBackground returns.
LEMMA ReturnStep ==
    ASSUME ScreenInv, NEW t \in Tasks, executor # <<>>, task[t].st # "none",
           Return(t), UNCHANGED helper
    PROVE  ScreenInv'
<1>1. /\ ScreenTypes /\ task[t] \in TaskStates /\ executor \in Seq(Tasks)
      /\ conns \in Seq(Connections) /\ mainQ \in Seq(Messages) /\ task \in [Tasks -> TaskStates]
      /\ \A i \in 1 .. Len(mainQ) : task[mainQ[i].task].st # "none"
  BY DEF ScreenInv, ScreenTypes, Known
<1> DEFINE r == [task[t] EXCEPT !.st = "returned"]
<1>2. r \in TaskStates /\ r.st # "none" /\ (Running(r) => Running(task[t]))
  BY <1>1 DEF TaskStates, Running
<1>3. task' = [task EXCEPT ![t] = r] /\ executor' = Tail(executor)
      /\ mainQ' = Append(mainQ, Finish(t)) /\ UNCHANGED <<screen, opened, act, list, conns>>
  BY DEF Return
<1> HIDE DEF r
<1>4. Follows(task, task') /\ task'[t].st # "none"
  BY <1>1, <1>2, <1>3, TaskChange
<1>5. \A i \in 1 .. Len(mainQ) : task'[mainQ[i].task].st # "none"
  BY <1>1, <1>4, KnownFollows
<1>6. mainQ' \in Seq(Messages) /\ \A i \in 1 .. Len(mainQ') : task'[mainQ'[i].task].st # "none"
  <2>1. task' \in [Tasks -> TaskStates]
    BY <1>4 DEF Follows
  <2>2. \E u \in Tasks : mainQ' = Append(mainQ, Finish(u)) /\ task'[u].st # "none"
    BY <1>3, <1>4
  <2> QED
    BY <1>1, <1>5, <2>1, <2>2, KnownFinish
<1>7. executor' \in Seq(Tasks)
  BY <1>1, <1>3
<1> QED
  BY <1>1, <1>3, <1>4, <1>6, <1>7, WorkStep DEF list

\* A step of a process changes its task only in process and lines, and the
\* connections.
LEMMA ProcessStep ==
    ASSUME ScreenInv, NEW t \in Tasks, NEW r \in TaskStates, task' = [task EXCEPT ![t] = r],
           r.st = task[t].st, task[t].st # "none", Running(r) => Running(task[t]),
           conns' \in Seq(Connections),
           UNCHANGED <<screen, opened, act, list, executor, mainQ, helper>>
    PROVE  ScreenInv'
<1>1. /\ ScreenTypes /\ executor \in Seq(Tasks)
      /\ mainQ \in Seq(Messages) /\ task \in [Tasks -> TaskStates]
      /\ \A i \in 1 .. Len(mainQ) : task[mainQ[i].task].st # "none"
  BY DEF ScreenInv, ScreenTypes, Known
<1>2. Follows(task, task')
  BY <1>1, TaskChange
<1>3. \A i \in 1 .. Len(mainQ) : task'[mainQ[i].task].st # "none"
  BY <1>1, <1>2, KnownFollows
<1> QED
  BY <1>1, <1>2, <1>3, WorkStep DEF list

LEMMA DroppedType ==
    ASSUME conns \in Seq(Connections), NEW t
    PROVE  Dropped(t) \in Seq(Connections)
<1>1. \A i \in DOMAIN conns : Dropped(t)[i] \in Connections
  <2> SUFFICES ASSUME NEW i \in DOMAIN conns PROVE Dropped(t)[i] \in Connections
    BY DEF Dropped
  <2>1. conns[i] \in Connections
    OBVIOUS
  <2>2. [conns[i] EXCEPT !.st = "eof"] \in Connections
    BY <2>1 DEF Connections
  <2> QED
    BY <2>1, <2>2 DEF Dropped
<1>2. Len(conns) \in Nat /\ DOMAIN conns = 1 .. Len(conns)
  OBVIOUS
<1>3. Dropped(t) \in [1 .. Len(conns) -> Connections]
  <2>1. DOMAIN Dropped(t) = 1 .. Len(conns) /\ Dropped(t) = [i \in DOMAIN conns |-> Dropped(t)[i]]
    BY <1>2 DEF Dropped
  <2> QED
    BY <1>1, <1>2, <2>1
<1> QED
  BY <1>2, <1>3, SeqDef

LEMMA FinishStep == ScreenInv /\ FinishTask => ScreenInv'
<1> SUFFICES ASSUME ScreenInv, FinishTask PROVE ScreenInv'
  OBVIOUS
<1> DEFINE t == Head(mainQ).task
           a == task[t].of
           tk == Destroyed(t)
           q == Tail(mainQ)
           r == [task[t] EXCEPT !.st = "finished", !.lines = 0,
                                !.process = IF Alive(t) THEN "dead" ELSE @]
<1>1. /\ ScreenTypes /\ ButtonMatchesTask /\ executor \in Seq(Tasks)
      /\ screen \in Screens \cup {Missing} /\ opened \in 0 .. MaxScreens
      /\ act \in [Screens -> Activities] /\ IsFiniteSet(DOMAIN prefs)
      /\ conns \in Seq(Connections) /\ mainQ \in Seq(Messages) /\ task \in [Tasks -> TaskStates]
      /\ \A i \in 1 .. Len(mainQ) : task[mainQ[i].task].st # "none"
  BY DEF ScreenInv, ScreenTypes, Known
<1>2. mainQ # <<>> /\ UNCHANGED <<screen, opened, mListener>>
      /\ conns' = Dropped(t) /\ UNCHANGED thread /\ mThread' = Missing
      /\ IF act[a].checked
           THEN \E text \in Commands \cup {Empty} : OnCheckedChanged(a, text, tk, q)
           ELSE task' = tk /\ mainQ' = q /\ UNCHANGED <<act, prefs, executor>>
  BY DEF FinishTask, Interrupted
<1>3. Head(mainQ) \in Messages /\ 1 \in 1 .. Len(mainQ) /\ Head(mainQ) = mainQ[1]
  BY <1>1, <1>2
<1>4. t \in Tasks /\ task[t].st # "none"
  BY <1>1, <1>3 DEF Messages
<1>5. task[t] \in TaskStates
  BY <1>1, <1>4
<1>6. r \in TaskStates /\ r.st # "none" /\ (Running(r) => Running(task[t]))
  <2> DEFINE w == IF Alive(t) THEN "dead" ELSE task[t].process
  <2>1. w \in {"none", "alive", "dead"} /\ w # "alive" /\ r = [task[t] EXCEPT !.st = "finished", !.lines = 0, !.process = w]
    BY <1>5 DEF Alive, TaskStates
  <2> HIDE DEF w, t, r
  <2> QED
    BY <1>4, <1>5, <2>1 DEF TaskStates, Running
<1>7. tk = [task EXCEPT ![t] = r]
  BY <1>1, <1>4 DEF Destroyed, TaskStates
<1>8. a \in Screens
  BY <1>4, <1>5 DEF TaskStates
<1> HIDE DEF t, a, tk, q, r
<1>9. tk \in [Tasks -> TaskStates] /\ Follows(task, tk)
  BY <1>1, <1>4, <1>6, <1>7, FollowsOne
<1>10. q \in Seq(Messages) /\ \A i \in 1 .. Len(q) : tk[q[i].task].st # "none"
  <2>1. \A i \in 1 .. Len(mainQ) : tk[mainQ[i].task].st # "none"
    BY <1>1, <1>9, KnownFollows
  <2> QED
    BY <1>1, <1>2, <1>9, <2>1, KnownTail DEF q
<1>11. conns' \in Seq(Connections)
  BY <1>1, <1>2, DroppedType
<1>12. CASE task' = tk /\ mainQ' = q /\ UNCHANGED <<act, prefs, executor>>
  <2>1. ButtonMatchesTask'
    BY <1>1, <1>12 DEF ButtonMatchesTask
  <2> QED
    BY <1>1, <1>2, <1>9, <1>10, <1>11, <1>12, <2>1, QuietStep
<1>13. ASSUME NEW text \in Commands \cup {Empty}, OnCheckedChanged(a, text, tk, q)
       PROVE  ScreenInv'
  <2>1. /\ act' \in [Screens -> Activities] /\ ButtonMatchesTask'
        /\ executor' \in Seq(Tasks) /\ mainQ' \in Seq(Messages)
        /\ Follows(tk, task')
        /\ \/ mainQ' = q
           \/ \E u \in Tasks : mainQ' = Append(q, Finish(u)) /\ task'[u].st # "none"
    BY <1>1, <1>8, <1>9, <1>10, <1>13, ButtonChange
  <2>2. Follows(task, task')
    BY <1>9, <2>1, FollowsTwice
  <2>3. \A i \in 1 .. Len(q) : task'[q[i].task].st # "none"
    BY <1>9, <1>10, <2>1, KnownFollows
  <2>4. \A i \in 1 .. Len(mainQ') : task'[mainQ'[i].task].st # "none"
    BY <1>10, <2>1, <2>3, KnownFinish DEF Follows
  <2>5. IsFiniteSet(DOMAIN prefs')
    <3>1. UNCHANGED prefs \/ prefs' = Saved(text)
      BY <1>13 DEF OnCheckedChanged, Cancel
    <3> QED
      BY <1>1, <3>1, PrefsFinite
  <2> QED
    BY <1>1, <1>2, <1>11, <2>1, <2>2, <2>4, <2>5, QuietStep
<1> QED
  BY <1>2, <1>12, <1>13

\* The helper's thread, started or already there.
LEMMA BackgroundStep ==
    ASSUME ScreenInv, NEW t \in Tasks, Background(t)
    PROVE  ScreenInv'
<1>1. /\ ScreenTypes /\ task[t] \in TaskStates /\ executor \in Seq(Tasks)
      /\ conns \in Seq(Connections) /\ mainQ \in Seq(Messages) /\ task \in [Tasks -> TaskStates]
      /\ thread \in Seq(ThreadStates)
      /\ \A i \in 1 .. Len(mainQ) : task[mainQ[i].task].st # "none"
  BY DEF ScreenInv, ScreenTypes, Known
<1>2. executor # <<>> /\ task[t].st = "queued"
  BY DEF Background, Worker
<1>3. CASE Return(t) /\ UNCHANGED helper
  BY <1>2, <1>3, ReturnStep
<1>4. ASSUME NEW st \in {"serving", "launching"}, mListener' = t,
             task' = [task EXCEPT ![t].st = st],
             \/ thread' = Append(thread, "new")
             \/ mThread # Missing /\ UNCHANGED <<thread, mThread>>,
             UNCHANGED <<screen, opened, act, list, executor, mainQ, conns>>
      PROVE  ScreenInv'
  <2> DEFINE r == [task[t] EXCEPT !.st = st]
  <2>1. r \in TaskStates /\ r.st # "none"
    BY <1>1, <1>2 DEF TaskStates
  <2>2. task' = [task EXCEPT ![t] = r]
    BY <1>4
  <2> HIDE DEF r
  <2>3. /\ task' \in [Tasks -> TaskStates] /\ task'[t].st # "none"
        /\ \A u \in Tasks : task[u].st # "none" => task'[u].st # "none"
    BY <1>1, <2>1, <2>2
  <2>4. \/ thread' = Append(thread, "new")
        \/ thread # <<>> /\ UNCHANGED thread
    BY <1>4 DEF ScreenInv, Helped
  <2>5. /\ thread' \in Seq(ThreadStates) /\ thread' # <<>>
        /\ \E x \in 1 .. Len(thread') : thread'[x] # "dead"
    <3>1. CASE thread' = Append(thread, "new")
      <4>1. /\ Len(thread) + 1 \in 1 .. Len(thread') /\ thread'[Len(thread) + 1] = "new"
            /\ thread' \in Seq(ThreadStates) /\ thread' # <<>>
        <5>1. "new" \in ThreadStates
          BY DEF ThreadStates
        <5> QED
          BY <1>1, <3>1, <5>1, AppendFacts
      <4> QED
        BY <4>1
    <3>2. CASE thread # <<>> /\ UNCHANGED thread
      BY <1>1, <3>2 DEF ScreenInv, Helped
    <3> QED
      BY <2>4, <3>1, <3>2
  <2>6. ScreenTypes'
    BY <1>1, <1>4, <2>3, <2>5 DEF ScreenTypes, list
  <2>7. Known'
    <3>1. \A i \in 1 .. Len(mainQ) : mainQ[i].task \in Tasks
      <4>1. \A m \in Messages : m.task \in Tasks
        BY DEF Messages
      <4>2. \A i \in 1 .. Len(mainQ) : mainQ[i] \in Messages
        BY <1>1
      <4> QED
        BY <4>1, <4>2
    <3> QED
      BY <1>1, <1>4, <2>3, <3>1 DEF Known
  <2>8. Helped'
    BY <2>5 DEF Helped
  <2>9. ButtonMatchesTask'
    BY <1>4 DEF ScreenInv, ButtonMatchesTask
  <2> QED
    BY <2>6, <2>7, <2>8, <2>9 DEF ScreenInv
<1> QED
  BY <1>3, <1>4 DEF Background

\* A thread goes on, and does not die of another.
LEMMA ThreadChange ==
    ASSUME ScreenInv, NEW r, NEW st \in ThreadStates,
           st # "dead" \/ \E x \in DOMAIN thread : x # r /\ thread[x] # "dead",
           thread' = [thread EXCEPT ![r] = st]
    PROVE  /\ thread' \in Seq(ThreadStates) /\ (thread' = <<>> <=> thread = <<>>)
           /\ thread' # <<>> => \E x \in 1 .. Len(thread') : thread'[x] # "dead"
<1>1. /\ thread \in Seq(ThreadStates) /\ DOMAIN thread = 1 .. Len(thread) /\ Len(thread) \in Nat
      /\ thread # <<>> => \E x \in 1 .. Len(thread) : thread[x] # "dead"
  BY DEF ScreenInv, ScreenTypes, Helped
<1>2. /\ DOMAIN thread' = 1 .. Len(thread)
      /\ \A x \in 1 .. Len(thread) : thread'[x] = IF x = r THEN st ELSE thread[x]
  BY <1>1
<1>3. thread' \in [1 .. Len(thread) -> ThreadStates]
  <2>1. thread \in [1 .. Len(thread) -> ThreadStates]
    BY <1>1
  <2> QED
    BY <2>1
<1>4. thread' \in Seq(ThreadStates) /\ Len(thread') = Len(thread)
  BY <1>1, <1>2, <1>3, SeqDef
<1>5. thread' = <<>> <=> thread = <<>>
  BY <1>1, <1>4
<1>6. ASSUME thread # <<>> PROVE \E x \in 1 .. Len(thread) : thread'[x] # "dead"
  BY <1>1, <1>2, <1>6
<1> QED
  BY <1>4, <1>5, <1>6

\* startServer starts the thread it has made.
LEMMA StartStep ==
    ASSUME ScreenInv, NEW t \in Tasks, StartServer(t)
    PROVE  ScreenInv'
<1>1. /\ ScreenTypes /\ task[t] \in TaskStates /\ mainQ \in Seq(Messages)
      /\ task \in [Tasks -> TaskStates]
      /\ \A i \in 1 .. Len(mainQ) : task[mainQ[i].task].st # "none"
  BY DEF ScreenInv, ScreenTypes, Known
<1>2. /\ task[t].st = "serving" /\ mThread # Missing
      /\ thread' = [thread EXCEPT ![mThread] = "starting"]
      /\ task' = [task EXCEPT ![t].st = "launching"]
      /\ UNCHANGED <<screen, opened, act, prefs, executor, mainQ, mListener, mThread, conns>>
  BY DEF StartServer, Worker, list
<1> DEFINE r == [task[t] EXCEPT !.st = "launching"]
<1>3. r \in TaskStates /\ r.st # "none" /\ Running(task[t]) /\ task' = [task EXCEPT ![t] = r]
  BY <1>1, <1>2 DEF TaskStates, Running
<1> HIDE DEF r
<1>4. Follows(task, task')
  BY <1>1, <1>3, TaskChange
<1>5. \A i \in 1 .. Len(mainQ) : task'[mainQ[i].task].st # "none"
  BY <1>1, <1>4, KnownFollows
<1>6. /\ thread' \in Seq(ThreadStates) /\ (thread' = <<>> <=> thread = <<>>)
      /\ thread' # <<>> => \E x \in 1 .. Len(thread') : thread'[x] # "dead"
  <2>1. "starting" \in ThreadStates
    BY DEF ThreadStates
  <2> QED
    BY <1>2, <2>1, ThreadChange
<1>7. ScreenTypes'
  BY <1>1, <1>2, <1>4, <1>6 DEF ScreenTypes, Follows
<1>8. Known'
  BY <1>2, <1>4, <1>5, <1>6 DEF ScreenInv, Known, Follows
<1>9. Helped'
  BY <1>2, <1>4, <1>6 DEF ScreenInv, Helped, Follows
<1>10. ButtonMatchesTask'
  BY <1>2 DEF ScreenInv, ButtonMatchesTask
<1> QED
  BY <1>7, <1>8, <1>9, <1>10 DEF ScreenInv

\* A thread binds the address or dies of another that holds it.
LEMMA BindStep ==
    ASSUME ScreenInv, NEW r \in DOMAIN thread, Bind(r)
    PROVE  ScreenInv'
<1>1. thread \in Seq(ThreadStates) /\ DOMAIN thread = 1 .. Len(thread)
  BY DEF ScreenInv, ScreenTypes
<1>2. /\ thread[r] = "starting"
      /\ \/ \E st \in {"listening", "gone"} : thread' = [thread EXCEPT ![r] = st]
         \/ Bound # {} /\ thread' = [thread EXCEPT ![r] = "dead"]
      /\ UNCHANGED <<screen, opened, act, prefs, task, executor, mainQ, mListener, mThread, conns>>
  BY DEF Bind, list, tasks
<1>3. /\ thread' \in Seq(ThreadStates) /\ (thread' = <<>> <=> thread = <<>>)
      /\ thread' # <<>> => \E x \in 1 .. Len(thread') : thread'[x] # "dead"
  <2>0. {"listening", "gone", "dead"} \subseteq ThreadStates
    BY DEF ThreadStates
  <2>1. ASSUME NEW st \in {"listening", "gone"}, thread' = [thread EXCEPT ![r] = st]
        PROVE  /\ thread' \in Seq(ThreadStates) /\ (thread' = <<>> <=> thread = <<>>)
               /\ thread' # <<>> => \E x \in 1 .. Len(thread') : thread'[x] # "dead"
    BY <2>0, <2>1, ThreadChange
  <2>2. CASE Bound # {} /\ thread' = [thread EXCEPT ![r] = "dead"]
    <3>1. PICK x \in DOMAIN thread : thread[x] \in {"listening", "lost"}
      BY <2>2 DEF Bound
    <3>2. x # r /\ thread[x] # "dead"
      BY <1>2, <3>1
    <3> QED
      BY <2>0, <2>2, <3>2, ThreadChange
  <2> QED
    BY <1>2, <2>1, <2>2
<1>4. ScreenTypes'
  BY <1>2, <1>3 DEF ScreenInv, ScreenTypes
<1>5. Known'
  BY <1>2, <1>3 DEF ScreenInv, Known
<1>6. Helped'
  BY <1>2, <1>3 DEF ScreenInv, Helped
<1>7. ButtonMatchesTask'
  BY <1>2 DEF ScreenInv, ButtonMatchesTask
<1> QED
  BY <1>4, <1>5, <1>6, <1>7 DEF ScreenInv

\* A listening thread reads a line, or is ended by an exception.
LEMMA ReadStep ==
    ASSUME ScreenInv, NEW r \in DOMAIN thread, ReadLine(r) \/ ReadFails(r) \/ Collect(r)
    PROVE  ScreenInv'
<1>1. /\ ScreenTypes /\ conns \in Seq(Connections) /\ mainQ \in Seq(Messages)
      /\ task \in [Tasks -> TaskStates]
      /\ \A i \in 1 .. Len(mainQ) : task[mainQ[i].task].st # "none"
  BY DEF ScreenInv, ScreenTypes, Known
<1>2. mListener \in Tasks /\ task[mListener].st # "none"
  <2>1. thread # <<>>
    BY DEF ScreenInv, ScreenTypes
  <2> QED
    BY <2>1 DEF ScreenInv, Known
<1> DEFINE m == Progress(mListener, Head(conns).st = "line")
<1>3. m \in Messages /\ m.task = mListener
  <2>1. (Head(conns).st = "line") \in BOOLEAN
    OBVIOUS
  <2> QED
    BY <1>2, <2>1 DEF Progress, Messages
<1>4. /\ conns' = conns \/ (conns # <<>> /\ conns' = Tail(conns)) \/ conns' = <<>>
      /\ mainQ' = mainQ \/ mainQ' = Append(mainQ, m)
      /\ \E st \in {"listening", "lost", "gone"} : thread' = [thread EXCEPT ![r] = st]
      /\ UNCHANGED <<screen, opened, act, prefs, task, executor, mListener, mThread>>
  BY DEF ReadLine, ReadFails, Collect, list, tasks
<1> HIDE DEF m
<1>5. mainQ' \in Seq(Messages) /\ \A i \in 1 .. Len(mainQ') : task[mainQ'[i].task].st # "none"
  <2>1. task[m.task].st # "none" /\ Append(mainQ, m) \in Seq(Messages)
    BY <1>1, <1>2, <1>3
  <2>2. \A i \in 1 .. Len(Append(mainQ, m)) : task[Append(mainQ, m)[i].task].st # "none"
    BY <1>1, <1>3, <2>1, KnownAppend
  <2> QED
    BY <1>1, <1>4, <2>1, <2>2
<1>6. conns' \in Seq(Connections)
  <2>1. CASE conns' = conns
    BY <1>1, <2>1
  <2>2. CASE conns # <<>> /\ conns' = Tail(conns)
    BY <1>1, <2>2
  <2>3. CASE conns' = <<>>
    BY <2>3
  <2> QED
    BY <1>4, <2>1, <2>2, <2>3
<1>7. /\ thread' \in Seq(ThreadStates) /\ (thread' = <<>> <=> thread = <<>>)
      /\ thread' # <<>> => \E x \in 1 .. Len(thread') : thread'[x] # "dead"
  <2>1. PICK st \in {"listening", "lost", "gone"} : thread' = [thread EXCEPT ![r] = st]
    BY <1>4
  <2>2. st \in ThreadStates /\ st # "dead"
    BY DEF ThreadStates
  <2> QED
    BY <2>1, <2>2, ThreadChange
<1>8. ScreenTypes'
  BY <1>1, <1>4, <1>5, <1>6, <1>7 DEF ScreenTypes
<1>9. Known'
  BY <1>4, <1>5, <1>7 DEF ScreenInv, Known
<1>10. Helped'
  BY <1>4, <1>7 DEF ScreenInv, Helped
<1>11. ButtonMatchesTask'
  BY <1>4 DEF ScreenInv, ButtonMatchesTask
<1> QED
  BY <1>8, <1>9, <1>10, <1>11 DEF ScreenInv

LEMMA ProcessSteps ==
    ASSUME ScreenInv, NEW t \in Tasks, Connect(t) \/ Send(t) \/ ProcessEnds(t)
    PROVE  ScreenInv'
<1>1. /\ task[t] \in TaskStates /\ task \in [Tasks -> TaskStates]
      /\ executor \in Seq(Tasks) /\ conns \in Seq(Connections)
      /\ mainQ \in Seq(Messages) /\ Follows(task, task)
      /\ \A i \in 1 .. Len(mainQ) : task[mainQ[i].task].st # "none"
  BY FollowsSelf DEF ScreenInv, ScreenTypes, Known
<1>2. task[t].process = "alive"
  BY DEF Connect, Send, ProcessEnds, Alive
<1>3. CASE Connect(t) /\ task[t].st # "none"
  <2> DEFINE r == [task[t] EXCEPT !.lines = @ - 1]
  <2>1. r \in TaskStates /\ r.st = task[t].st
    <3> DEFINE n == task[t].lines - 1
    <3>1. n \in Nat
      <4>1. task[t].lines > 0 /\ task[t].lines \in Nat
        BY <1>1, <1>3 DEF Connect, TaskStates
      <4> QED
        BY <4>1
    <3>2. r = [task[t] EXCEPT !.lines = n]
      OBVIOUS
    <3> HIDE DEF n, r
    <3> QED
      BY <1>1, <3>1, <3>2 DEF TaskStates
  <2>2. task' = [task EXCEPT ![t] = r]
        /\ UNCHANGED <<screen, opened, act, list, executor, mainQ, helper>>
    BY <1>3 DEF Connect
  <2>3. conns' \in Seq(Connections)
    <3>1. [from |-> t, st |-> "open"] \in Connections
      BY DEF Connections
    <3> QED
      BY <1>1, <1>3, <3>1 DEF Connect
  <2> HIDE DEF r
  <2> QED
    BY <1>2, <1>3, <2>1, <2>2, <2>3, ProcessStep DEF Running
<1>4. CASE Send(t)
  <2>1. PICK i \in DOMAIN conns : conns' = [conns EXCEPT ![i].st = "line"]
    BY <1>4 DEF Send
  <2>2. [conns[i] EXCEPT !.st = "line"] \in Connections
    <3>1. conns[i] \in Connections
      BY <1>1
    <3> QED
      BY <3>1 DEF Connections
  <2>3. conns' \in Seq(Connections)
    BY <1>1, <2>1, <2>2
  <2>4. UNCHANGED <<screen, opened, act, list, tasks, helper>>
    BY <1>4 DEF Send
  <2> QED
    BY <1>1, <2>3, <2>4, WorkStep DEF list, tasks
<1>5. CASE ProcessEnds(t) /\ task[t].st # "none"
  <2> DEFINE r == [task[t] EXCEPT !.process = "dead"]
  <2>1. r \in TaskStates /\ r.st = task[t].st
    BY <1>1, <1>5 DEF TaskStates
  <2>2. task' = [task EXCEPT ![t] = r] /\ conns' = Dropped(t)
        /\ UNCHANGED <<screen, opened, act, list, executor, mainQ, helper>>
    BY <1>5 DEF ProcessEnds
  <2>3. conns' \in Seq(Connections)
    BY <1>1, <2>2, DroppedType
  <2> HIDE DEF r
  <2> QED
    BY <1>2, <1>5, <2>1, <2>2, <2>3, ProcessStep DEF Running
<1>6. task[t].st # "none"
  BY <1>1, <1>2 DEF TaskStates
<1> QED
  BY <1>3, <1>4, <1>5, <1>6

LEMMA AppStep == ScreenInv /\ App => ScreenInv'
<1> SUFFICES ASSUME ScreenInv, App PROVE ScreenInv'
  OBVIOUS
<1>0. /\ executor \in Seq(Tasks) /\ Follows(task, task) /\ ScreenTypes
      /\ conns \in Seq(Connections) /\ mainQ \in Seq(Messages) /\ task \in [Tasks -> TaskStates]
      /\ \A i \in 1 .. Len(mainQ) : task[mainQ[i].task].st # "none"
  BY FollowsSelf DEF ScreenInv, ScreenTypes, Known
<1>1. CASE FinishTask
  BY <1>1, FinishStep
<1>2. CASE ShowLine
  <2>1. mainQ # <<>> /\ mainQ' = Tail(mainQ)
        /\ UNCHANGED <<screen, opened, act, list, task, executor, helper, conns>>
    BY <1>2 DEF ShowLine
  <2>2. mainQ' \in Seq(Messages) /\ \A i \in 1 .. Len(mainQ') : task[mainQ'[i].task].st # "none"
    BY <1>0, <2>1, KnownTail
  <2> QED
    BY <1>0, <2>1, <2>2, WorkStep DEF list
<1>3. CASE ShowLineThrows
  BY <1>3, CrashStep DEF ShowLineThrows
<1>4. ASSUME NEW t \in Tasks, Skip(t) PROVE ScreenInv'
  <2>1. executor # <<>> /\ executor' = Tail(executor)
        /\ UNCHANGED <<screen, opened, act, list, task, mainQ, helper, conns>>
    BY <1>4 DEF Skip, Worker
  <2>2. executor' \in Seq(Tasks)
    BY <1>0, <2>1
  <2> QED
    BY <1>0, <2>1, <2>2, WorkStep DEF list
<1>5. ASSUME NEW t \in Tasks, Launch(t) PROVE ScreenInv'
  <2>1. executor # <<>> /\ task[t].st = "launching" /\ task[t] \in TaskStates
    BY <1>0, <1>5 DEF Launch, Worker
  <2>2. CASE /\ task' = [task EXCEPT ![t].st = "waiting", ![t].process = "alive"]
             /\ UNCHANGED <<screen, opened, act, list, executor, mainQ, helper, conns>>
    <3> DEFINE r == [task[t] EXCEPT !.st = "waiting", !.process = "alive"]
    <3>1. r \in TaskStates /\ r.st # "none"
      BY <2>1 DEF TaskStates
    <3>2. task' = [task EXCEPT ![t] = r] /\ Running(task[t])
      BY <1>0, <2>1, <2>2 DEF TaskStates, Running
    <3> HIDE DEF r
    <3>3. Follows(task, task')
      BY <1>0, <3>1, <3>2, TaskChange
    <3>4. \A i \in 1 .. Len(mainQ) : task'[mainQ[i].task].st # "none"
      BY <1>0, <3>3, KnownFollows
    <3> QED
      BY <1>0, <2>2, <3>3, <3>4, WorkStep DEF list
  <2>3. CASE Return(t) /\ UNCHANGED helper
    BY <2>1, <2>3, ReturnStep
  <2> QED
    BY <1>5, <2>2, <2>3 DEF Launch
<1>6. ASSUME NEW t \in Tasks, Wait(t) PROVE ScreenInv'
  <2>1. executor # <<>> /\ task[t].st # "none" /\ Return(t) /\ UNCHANGED helper
    BY <1>6 DEF Wait, Worker
  <2> QED
    BY <2>1, ReturnStep
<1>7. ASSUME NEW t \in Tasks, StartServerThrows(t) PROVE ScreenInv'
  BY <1>7, CrashStep DEF StartServerThrows
<1> QED
  BY <1>1, <1>2, <1>3, <1>4, <1>5, <1>6, <1>7, BackgroundStep, StartStep, ProcessSteps,
     BindStep, ReadStep DEF App

LEMMA ScreenNext == ScreenInv /\ [Next]_vars => ScreenInv'
<1> SUFFICES ASSUME ScreenInv, [Next]_vars PROVE ScreenInv'
  OBVIOUS
<1>1. CASE UNCHANGED vars
  BY <1>1 DEF vars, tasks, helper, list, ScreenInv, ScreenTypes, ButtonMatchesTask, Known, Helped
<1> QED
  BY <1>1, UserStep, AppStep DEF Next

\* For any number of tasks and screens, and in every order of presses, rotations,
\* ends of tasks and crashes: the button of an activity is pressed exactly while
\* the activity has a task, so that onCheckedChanged never cancels a null task.
THEOREM ButtonsHold == Spec => []ButtonMatchesTask
<1>1. ScreenInv => ButtonMatchesTask
  BY DEF ScreenInv
<1> QED
  BY <1>1, ScreenInit, ScreenNext, PTL DEF Spec

\* For any number of tasks: although every task that ends lets go of the helper's
\* thread, and a new thread dies of an old one that has the address, there is a
\* thread that listens or is about to for every process, unless an IOException in
\* RunThread.run has ended one.
THEOREM ListenersHold == Spec => []HasListener
<1>1. ScreenInv => HasListener
  <2>1. ASSUME ScreenInv, NEW t \in Tasks, Alive(t)
        PROVE  \E r \in DOMAIN thread :
                   thread[r] \in {"new", "starting", "listening"} \cup {"lost", "gone"}
    <3>1. Running(task[t])
      BY <2>1 DEF Alive, Running
    <3>2. /\ DOMAIN thread = 1 .. Len(thread)
          /\ \A r \in 1 .. Len(thread) : thread[r] \in ThreadStates
      BY <2>1 DEF ScreenInv, ScreenTypes
    <3>3. PICK r \in 1 .. Len(thread) : thread[r] # "dead"
      BY <2>1, <3>1 DEF ScreenInv, Helped
    <3> QED
      BY <3>2, <3>3 DEF ThreadStates
  <2> QED
    BY <2>1 DEF HasListener
<1> QED
  BY <1>1, ScreenInit, ScreenNext, PTL DEF Spec

-----------------------------------------------------------------------------
(* The saved commands. *)

\* A list with every number below its size has no other, so that the next one is
\* free.
LEMMA NextNumberFree ==
    ASSUME IsFiniteSet(DOMAIN prefs), \A i \in 0 .. Size - 1 : i \in DOMAIN prefs
    PROVE  Size \notin DOMAIN prefs
<1>1. Size \in Nat
  BY FS_CardinalityType DEF Size
<1>2. IsFiniteSet(0 .. Size - 1) /\ Cardinality(0 .. Size - 1) = Size
  <2>1. 0 \in Int /\ Size - 1 \in Int
    BY <1>1
  <2>2. /\ IsFiniteSet(0 .. Size - 1)
        /\ Cardinality(0 .. Size - 1) = IF 0 > Size - 1 THEN 0 ELSE Size - 1 - 0 + 1
    BY <2>1, FS_Interval
  <2> QED
    BY <1>1, <2>2
<1>3. 0 .. Size - 1 = DOMAIN prefs
  <2>1. 0 .. Size - 1 \subseteq DOMAIN prefs /\ Cardinality(0 .. Size - 1) = Cardinality(DOMAIN prefs)
    BY <1>2 DEF Size
  <2> QED
    BY <2>1, FS_Subset
<1> QED
  BY <1>1, <1>3

\* saveCommandList, where it does not throw, replaces nothing.
LEMMA SaveKeeps ==
    ASSUME IsFiniteSet(DOMAIN prefs), NEW c, ~SaveFails(c), prefs' = Saved(c)
    PROVE  \A k \in DOMAIN prefs \cap DOMAIN prefs' : prefs'[k] = prefs[k]
<1>1. CASE prefs' = prefs
  BY <1>1
<1>2. CASE prefs' # prefs
  <2>1. /\ c # Empty /\ ~\E i \in 0 .. Size - 1 : i \in DOMAIN prefs /\ prefs[i] = c
        /\ prefs' = [k \in DOMAIN prefs \cup {Size} |-> IF k = Size THEN c ELSE prefs[k]]
    BY <1>2 DEF Saved
  <2>2. ~\E i \in 0 .. Size - 1 : FoundAt(c, i)
    BY <2>1 DEF FoundAt
  <2>3. \A i \in 0 .. Size - 1 : i \in DOMAIN prefs
    BY <2>1, <2>2 DEF SaveFails
  <2>4. Size \notin DOMAIN prefs
    BY <2>3, NextNumberFree
  <2> QED
    BY <2>1, <2>4
<1> QED
  BY <1>1, <1>2

\* What a step may do to the saved commands.
LEMMA PrefsMoves ==
    ASSUME [Next]_vars
    PROVE  \/ UNCHANGED prefs
           \/ \E i : prefs' = [k \in DOMAIN prefs \ {i} |-> prefs[k]]
           \/ \E c : ~SaveFails(c) /\ prefs' = Saved(c)
<1>0. ASSUME NEW a, NEW text, NEW tk, NEW queue, OnCheckedChanged(a, text, tk, queue)
      PROVE  UNCHANGED prefs \/ (~SaveFails(text) /\ prefs' = Saved(text))
  BY <1>0 DEF OnCheckedChanged, Cancel
<1>1. CASE ShowPopup \/ ClosePopup \/ ClickThrows \/ Open \/ Leave \/ Rotate \/ UNCHANGED vars
  BY <1>1 DEF ShowPopup, ClosePopup, ClickThrows, Crash, Open, Leave, Rotate, vars, list
<1>2. CASE RemoveRow
  BY <1>2 DEF RemoveRow
<1>3. CASE Click
  BY <1>0, <1>3 DEF Click
<1>4. CASE FinishTask
  BY <1>0, <1>4 DEF FinishTask
<1>5. CASE ShowLine \/ ShowLineThrows
  BY <1>5 DEF ShowLine, ShowLineThrows, Crash, list
<1>6. ASSUME NEW t \in Tasks, Skip(t) \/ Background(t) \/ StartServer(t) \/ Launch(t)
                            \/ Wait(t) \/ StartServerThrows(t)
      PROVE  UNCHANGED prefs
  BY <1>6 DEF Skip, Background, StartServer, StartServerThrows, Crash, Launch, Wait, Return, list
<1>7. ASSUME NEW t \in Tasks, Connect(t) \/ Send(t) \/ ProcessEnds(t) PROVE UNCHANGED prefs
  BY <1>7 DEF Connect, Send, ProcessEnds, list
<1>8. ASSUME NEW r \in DOMAIN thread, Bind(r) \/ ReadLine(r) \/ ReadFails(r) \/ Collect(r)
      PROVE  UNCHANGED prefs
  BY <1>8 DEF Bind, ReadLine, ReadFails, Collect, list
<1> QED
  BY <1>1, <1>2, <1>3, <1>4, <1>5, <1>6, <1>7, <1>8 DEF Next, User, App

\* However many commands are saved and removed, in whatever order: no saved
\* command is replaced by another, since a list with a gap makes saveCommandList
\* throw before it stores.
THEOREM CommandsHold == Spec => NothingOverwritten
<1>1. ScreenInv /\ [Next]_vars =>
        [\A k \in DOMAIN prefs \cap DOMAIN prefs' : prefs'[k] = prefs[k]]_vars
  <2> SUFFICES ASSUME ScreenInv, [Next]_vars
               PROVE  \A k \in DOMAIN prefs \cap DOMAIN prefs' : prefs'[k] = prefs[k]
    OBVIOUS
  <2>1. IsFiniteSet(DOMAIN prefs)
    BY DEF ScreenInv, ScreenTypes
  <2>2. ASSUME NEW i, prefs' = [k \in DOMAIN prefs \ {i} |-> prefs[k]]
        PROVE  \A k \in DOMAIN prefs \cap DOMAIN prefs' : prefs'[k] = prefs[k]
    BY <2>2
  <2> QED
    BY <2>1, <2>2, SaveKeeps, PrefsMoves
<1> QED
  BY <1>1, ScreenInit, ScreenNext, PTL DEF Spec, NothingOverwritten

-----------------------------------------------------------------------------
(* What comes to rest. *)

InQueue(q) == {q[i] : i \in 1 .. Len(q)}
Pending == {"queued", "serving", "launching", "waiting"}

\* A task against the executor ex, the messages q and the activities ac: it is in
\* the hands of the worker or its end is posted, until it is finished; a cancelled
\* task is not waiting for the worker; a process belongs to a valid command and
\* ends with its task; and a task that is not over and not cancelled is the one
\* its activity can cancel.
Fit(t, ac, tk, ex, q) ==
    /\ tk[t].st \in Pending => t \in InQueue(ex)
    /\ tk[t].st \in {"serving", "launching", "waiting"} =>
          /\ ex # <<>> /\ t = Head(ex)
          /\ tk[t].command \in Endless \cup Ending
    /\ tk[t].st = "waiting" => tk[t].process # "none"
    /\ tk[t].st = "returned" => Finish(t) \in InQueue(q)
    /\ tk[t].cancelled => tk[t].st \notin {"none", "queued"}
    /\ tk[t].process = "alive" => tk[t].st \in {"waiting", "returned"}
    /\ tk[t].st \in Pending /\ ~tk[t].cancelled => ac[tk[t].of].mIperTask = t

\* Tasks are numbered in the order in which they start; those of an older activity
\* come first in the executor.
Numbered(tk) ==
    \E n \in 0 .. MaxTasks : \A t \in Tasks : tk[t].st # "none" <=> t <= n
Lined(o, tk, ex) ==
    /\ \A i \in 1 .. Len(ex) : tk[ex[i]].st # "none" /\ tk[ex[i]].of <= o
    /\ \A i, j \in 1 .. Len(ex) : i < j => tk[ex[i]].of <= tk[ex[j]].of

RestOK(o, ac, tk, ex, q) ==
    /\ Numbered(tk) /\ Lined(o, tk, ex)
    /\ \A t \in Tasks : Fit(t, ac, tk, ex, q)
    /\ \A a \in Screens : ac[a].mIperTask # Missing => tk[ac[a].mIperTask].st # "none"

RestInv ==
    /\ RestOK(opened, act, task, executor, mainQ)
    /\ screen \in {Missing, opened}

LEMMA QueueFacts ==
    ASSUME NEW S, NEW q \in Seq(S), q # <<>>
    PROVE  /\ Tail(q) \in Seq(S) /\ Head(q) = q[1] /\ Len(Tail(q)) = Len(q) - 1
           /\ Len(q) \in Nat /\ Len(q) >= 1
           /\ \A i \in 1 .. Len(Tail(q)) : Tail(q)[i] = q[i + 1] /\ i + 1 \in 1 .. Len(q)
           /\ \A x \in InQueue(q) : x # Head(q) => x \in InQueue(Tail(q))
<1>1. /\ Tail(q) \in Seq(S) /\ Head(q) = q[1] /\ Len(Tail(q)) = Len(q) - 1
      /\ Len(q) \in Nat /\ Len(q) >= 1
      /\ \A i \in 1 .. Len(Tail(q)) : Tail(q)[i] = q[i + 1] /\ i + 1 \in 1 .. Len(q)
  OBVIOUS
<1>2. ASSUME NEW x \in InQueue(q), x # Head(q) PROVE x \in InQueue(Tail(q))
  <2>1. PICK i \in 1 .. Len(q) : q[i] = x
    BY DEF InQueue
  <2>2. i # 1
    BY <1>1, <1>2, <2>1
  <2>3. i - 1 \in 1 .. Len(Tail(q)) /\ (i - 1) + 1 = i
    BY <1>1, <2>2
  <2>4. Tail(q)[i - 1] = x
    BY <1>1, <2>1, <2>3
  <2> QED
    BY <2>3, <2>4 DEF InQueue
<1> QED
  BY <1>1, <1>2

LEMMA AppendQueue ==
    ASSUME NEW S, NEW q \in Seq(S), NEW e \in S
    PROVE  /\ Append(q, e) \in Seq(S) /\ Append(q, e) # <<>> /\ Len(q) \in Nat
           /\ InQueue(Append(q, e)) = InQueue(q) \cup {e}
           /\ Len(Append(q, e)) = Len(q) + 1
           /\ \A i \in 1 .. Len(q) : Append(q, e)[i] = q[i]
           /\ Append(q, e)[Len(q) + 1] = e
           /\ q # <<>> => Head(Append(q, e)) = Head(q)
<1> DEFINE n == Append(q, e)
<1>1. /\ n \in Seq(S) /\ n # <<>> /\ Len(q) \in Nat /\ Len(n) = Len(q) + 1
      /\ \A i \in 1 .. Len(q) : n[i] = q[i]
      /\ n[Len(q) + 1] = e
  OBVIOUS
<1> HIDE DEF n
<1>8. ASSUME q # <<>> PROVE Head(n) = Head(q)
  <2>1. 1 \in 1 .. Len(q) /\ Head(q) = q[1]
    BY <1>8
  <2>2. Head(n) = n[1]
    BY <1>1
  <2> QED
    BY <1>1, <2>1, <2>2
<1>2. \A x : x \in InQueue(n) <=> \E k \in 1 .. Len(n) : n[k] = x
  BY DEF InQueue
<1>3. \A x : x \in InQueue(q) <=> \E k \in 1 .. Len(q) : q[k] = x
  BY DEF InQueue
<1>4. \A k \in 1 .. Len(n) : k \in 1 .. Len(q) \/ k = Len(q) + 1
  BY <1>1
<1>5. /\ \A k \in 1 .. Len(q) : k \in 1 .. Len(n)
      /\ Len(q) + 1 \in 1 .. Len(n)
  BY <1>1
<1>6. \A x : x \in InQueue(n) <=> x \in InQueue(q) \/ x = e
  BY <1>1, <1>2, <1>3, <1>4, <1>5
<1>7. InQueue(n) = InQueue(q) \cup {e}
  BY <1>6
<1> QED
  BY <1>1, <1>7, <1>8 DEF n

\* Nothing changes but the number of activities, and messages of other kinds.
LEMMA RestSame ==
    ASSUME NEW o \in Nat, NEW p \in Nat, o <= p, NEW ac, NEW tk \in [Tasks -> TaskStates],
           NEW ex \in Seq(Tasks), NEW q, NEW new, RestOK(o, ac, tk, ex, q),
           \A t \in Tasks : Finish(t) \in InQueue(q) => Finish(t) \in InQueue(new)
    PROVE  RestOK(p, ac, tk, ex, new)
<1>1. Lined(p, tk, ex)
  <2>1. \A i \in 1 .. Len(ex) : tk[ex[i]].st # "none" /\ tk[ex[i]].of <= o
    BY DEF RestOK, Lined
  <2>2. \A t \in Tasks : tk[t].st # "none" => tk[t].of \in Nat
    BY ScreenAssumption DEF TaskStates, Screens
  <2>3. \A i \in 1 .. Len(ex) : ex[i] \in Tasks
    OBVIOUS
  <2>4. \A i \in 1 .. Len(ex) : tk[ex[i]].st # "none" /\ tk[ex[i]].of <= p
    BY <2>1, <2>2, <2>3
  <2> QED
    BY <2>4 DEF RestOK, Lined
<1>2. \A t \in Tasks : Fit(t, ac, tk, ex, new)
  BY DEF RestOK, Fit
<1> QED
  BY <1>1, <1>2 DEF RestOK

\* One task changes, and stays with its activity.
LEMMA RestOne ==
    ASSUME NEW o, NEW ac, NEW tk \in [Tasks -> TaskStates], NEW ex \in Seq(Tasks),
           NEW q, NEW new, RestOK(o, ac, tk, ex, q), NEW t \in Tasks, NEW r,
           NEW tn, tn = [tk EXCEPT ![t] = r],
           r.of = tk[t].of, r.st # "none", tk[t].st # "none",
           \A u \in Tasks : u # t /\ Finish(u) \in InQueue(q) => Finish(u) \in InQueue(new),
           Fit(t, ac, tn, ex, new)
    PROVE  RestOK(o, ac, tn, ex, new)
<1>1. tn[t] = r /\ \A u \in Tasks : u # t => tn[u] = tk[u]
  OBVIOUS
<1>2. \A u \in Tasks : tn[u].of = tk[u].of /\ (tn[u].st # "none" <=> tk[u].st # "none")
  BY <1>1
<1>3. Numbered(tn)
  BY <1>2 DEF RestOK, Numbered
<1>4. Lined(o, tn, ex)
  <2>1. \A i \in 1 .. Len(ex) : ex[i] \in Tasks
    OBVIOUS
  <2> QED
    BY <1>2, <2>1 DEF RestOK, Lined
<1>5. ASSUME NEW u \in Tasks PROVE Fit(u, ac, tn, ex, new)
  <2>1. CASE u = t
    BY <2>1
  <2>2. CASE u # t
    <3>1. tn[u] = tk[u] /\ Fit(u, ac, tk, ex, q)
      BY <1>1, <2>2 DEF RestOK
    <3>2. Finish(u) \in InQueue(q) => Finish(u) \in InQueue(new)
      BY <2>2
    <3> QED
      BY <3>1, <3>2 DEF Fit
  <2> QED
    BY <2>1, <2>2
<1>6. ASSUME NEW a \in Screens, ac[a].mIperTask # Missing
      PROVE  tn[ac[a].mIperTask].st # "none"
  <2>1. tk[ac[a].mIperTask].st # "none"
    BY <1>6 DEF RestOK
  <2>2. CASE ac[a].mIperTask = t
    BY <1>1, <2>2
  <2>3. CASE ac[a].mIperTask # t
    BY <2>1, <2>3
  <2> QED
    BY <2>2, <2>3
<1> QED
  BY <1>3, <1>4, <1>5, <1>6 DEF RestOK

\* The worker is done with its task.
LEMMA RestPop ==
    ASSUME NEW o, NEW ac, NEW tk \in [Tasks -> TaskStates], NEW ex \in Seq(Tasks), NEW q,
           RestOK(o, ac, tk, ex, q), ex # <<>>, tk[Head(ex)].st \notin Pending
    PROVE  RestOK(o, ac, tk, Tail(ex), q)
<1> DEFINE n == Tail(ex)
<1>1. /\ n \in Seq(Tasks) /\ Len(n) = Len(ex) - 1 /\ Len(ex) \in Nat
      /\ \A i \in 1 .. Len(n) : n[i] = ex[i + 1] /\ i + 1 \in 1 .. Len(ex)
      /\ \A x \in InQueue(ex) : x # Head(ex) => x \in InQueue(n)
  BY QueueFacts
<1> HIDE DEF n
<1>2. Lined(o, tk, n)
  <2>1. /\ \A i \in 1 .. Len(ex) : tk[ex[i]].st # "none" /\ tk[ex[i]].of <= o
        /\ \A i, j \in 1 .. Len(ex) : i < j => tk[ex[i]].of <= tk[ex[j]].of
    BY DEF RestOK, Lined
  <2>2. \A i \in 1 .. Len(n) : tk[n[i]].st # "none" /\ tk[n[i]].of <= o
    BY <1>1, <2>1
  <2>3. ASSUME NEW i \in 1 .. Len(n), NEW j \in 1 .. Len(n), i < j
        PROVE  tk[n[i]].of <= tk[n[j]].of
    <3>1. i + 1 < j + 1
      BY <2>3
    <3> QED
      BY <1>1, <2>1, <3>1
  <2> QED
    BY <2>2, <2>3 DEF Lined
<1>3. ASSUME NEW t \in Tasks PROVE Fit(t, ac, tk, n, q)
  <2>1. Fit(t, ac, tk, ex, q)
    BY DEF RestOK
  <2>2. tk[t].st \in Pending => t # Head(ex)
    OBVIOUS
  <2>3. tk[t].st \notin {"serving", "launching", "waiting"}
    BY <2>1, <2>2 DEF Fit, Pending
  <2>4. tk[t].st \in Pending => t \in InQueue(n)
    BY <1>1, <2>1, <2>2 DEF Fit
  <2> QED
    BY <2>1, <2>3, <2>4 DEF Fit
<1>4. RestOK(o, ac, tk, n, q)
  BY <1>2, <1>3 DEF RestOK
<1> QED
  BY <1>4 DEF n

\* cancel(true) on the task of activity a.
LEMMA RestCancel ==
    ASSUME NEW o, NEW tk \in [Tasks -> TaskStates], NEW queue \in Seq(Messages),
           act \in [Screens -> Activities], executor \in Seq(Tasks),
           RestOK(o, act, tk, executor, queue), NEW a \in Screens,
           act[a].mIperTask # Missing, Cancel(a, tk, queue)
    PROVE  RestOK(o, act', task', executor', mainQ')
<1> DEFINE t == act[a].mIperTask
           s == IF tk[t].st = "queued" THEN "returned" ELSE tk[t].st
           r == [tk[t] EXCEPT !.cancelled = TRUE, !.st = s]
<1>1. t \in Tasks /\ tk[t].st # "none" /\ tk[t] \in TaskStates
  BY DEF RestOK, Activities
<1>2. /\ task' = [tk EXCEPT ![t] = r] /\ executor' = executor
      /\ mainQ' = IF tk[t].st = "queued" THEN Append(queue, Finish(t)) ELSE queue
      /\ act' = [act EXCEPT ![a] = Released(a)]
  BY <1>1 DEF Cancel
<1>3. /\ r.of = tk[t].of /\ r.cancelled = TRUE /\ r.st = s /\ r.process = tk[t].process
      /\ r.command = tk[t].command
  BY <1>1 DEF TaskStates
<1>4. t = act[a].mIperTask /\ s = IF tk[t].st = "queued" THEN "returned" ELSE tk[t].st
  OBVIOUS
<1> HIDE DEF t, s, r
<1>5. s # "none" /\ s # "queued"
  BY <1>1, <1>4
<1>6. task'[t] = r /\ \A u \in Tasks : u # t => task'[u] = tk[u]
  BY <1>1, <1>2
<1>7. /\ \A x \in InQueue(queue) : x \in InQueue(mainQ')
      /\ tk[t].st = "queued" => Finish(t) \in InQueue(mainQ')
  <2>1. Finish(t) \in Messages
    BY <1>1, FinishMessage
  <2>2. InQueue(Append(queue, Finish(t))) = InQueue(queue) \cup {Finish(t)}
    BY <2>1, AppendQueue
  <2> QED
    BY <1>2, <2>2
<1>8. RestOK(o, act, task', executor, mainQ')
  <2>1. Fit(t, act, tk, executor, queue)
    BY <1>1 DEF RestOK
  <2>2. tk[t].st = "queued" => tk[t].process # "alive"
    BY <2>1 DEF Fit
  <2>3. Fit(t, act, task', executor, mainQ')
    <3>1. CASE tk[t].st = "queued"
      BY <1>3, <1>4, <1>6, <1>7, <2>2, <3>1 DEF Fit, Pending
    <3>2. CASE tk[t].st # "queued"
      BY <1>3, <1>4, <1>5, <1>6, <1>7, <2>1, <3>2 DEF Fit
    <3> QED
      BY <3>1, <3>2
  <2> QED
    BY <1>1, <1>2, <1>3, <1>5, <1>7, <2>3, RestOne
<1>9. act'[a].mIperTask = Missing /\ \A b \in Screens : b # a => act'[b] = act[b]
  <2>1. Released(a).mIperTask = Missing
    BY DEF Released, Activities
  <2> QED
    BY <1>2, <2>1
<1>10. ASSUME NEW u \in Tasks PROVE Fit(u, act', task', executor, mainQ')
  <2>1. Fit(u, act, task', executor, mainQ')
    BY <1>8 DEF RestOK
  <2>2. ASSUME task'[u].st \in Pending, ~task'[u].cancelled
        PROVE  act'[task'[u].of].mIperTask = u
    <3>1. u # t
      BY <1>3, <1>6, <2>2
    <3>2. act[tk[u].of].mIperTask = u /\ task'[u] = tk[u] /\ tk[u].of \in Screens
      <4>1. task'[u] = tk[u] /\ act[tk[u].of].mIperTask = u
        BY <1>6, <2>1, <2>2, <3>1 DEF Fit
      <4>2. tk[u].st # "none"
        BY <2>2, <4>1 DEF Pending
      <4>3. tk[u].of \in Screens
        BY <4>2 DEF TaskStates
      <4> QED
        BY <4>1, <4>3
    <3>3. tk[u].of # a
      BY <1>4, <3>1, <3>2
    <3> QED
      BY <1>9, <3>2, <3>3
  <2> QED
    BY <2>1, <2>2 DEF Fit
<1>11. ASSUME NEW b \in Screens, act'[b].mIperTask # Missing
       PROVE  task'[act'[b].mIperTask].st # "none"
  <2>1. b # a /\ act'[b] = act[b]
    BY <1>9, <1>11
  <2> QED
    BY <1>8, <1>11, <2>1 DEF RestOK
<1> QED
  BY <1>2, <1>8, <1>10, <1>11 DEF RestOK

\* execute(), on an activity that has no task and is the newest one.
LEMMA RestExecute ==
    ASSUME NEW o \in Nat, NEW a \in Screens, o <= a,
           act \in [Screens -> Activities], task \in [Tasks -> TaskStates],
           executor \in Seq(Tasks), mainQ \in Seq(Messages),
           RestOK(o, act, task, executor, mainQ),
           a > o \/ act[a].mIperTask = Missing,
           NEW command, Execute(a, command, task)
    PROVE  RestOK(a, act', task', executor', mainQ)
<1> DEFINE e == NextId
           r == [st |-> "queued", of |-> a, command |-> command, cancelled |-> FALSE,
                 process |-> "none", lines |-> MaxLines]
           v == [checked |-> TRUE, doExec |-> TRUE, mIperTask |-> e]
<1>1. /\ e \in Tasks /\ task' = [task EXCEPT ![e] = r]
      /\ executor' = Append(executor, e) /\ act' = [act EXCEPT ![a] = v]
  BY DEF Execute
<1>2. PICK n \in 0 .. MaxTasks : \A t \in Tasks : task[t].st # "none" <=> t <= n
  BY DEF RestOK, Numbered
<1>3. e = n + 1
  <2>1. n \in Nat /\ n <= MaxTasks /\ MaxTasks \in Nat
    BY <1>2, ScreenAssumption
  <2>2. Started = 1 .. n
    <3>1. Tasks = 1 .. MaxTasks
      BY DEF Tasks
    <3>2. \A t : t \in Started <=> t \in Tasks /\ t <= n
      BY <1>2 DEF Started
    <3>3. \A t : t \in Tasks /\ t <= n <=> t \in 1 .. n
      BY <2>1, <3>1
    <3>4. \A t : t \in Started <=> t \in 1 .. n
      BY <3>2, <3>3
    <3> QED
      BY <3>4
  <2>3. Cardinality(1 .. n) = n
    BY <2>1, FS_Interval
  <2> QED
    BY <2>2, <2>3 DEF NextId
<1> HIDE DEF e
<1>4. task[e].st = "none"
  BY <1>1, <1>2, <1>3
<1>5. /\ task'[e] = r /\ (\A u \in Tasks : u # e => task'[u] = task[u])
      /\ act'[a] = v /\ (\A b \in Screens : b # a => act'[b] = act[b])
  BY <1>1
<1>6. /\ r.st = "queued" /\ r.of = a /\ r.cancelled = FALSE /\ r.process = "none"
      /\ v.mIperTask = e
  OBVIOUS
<1> HIDE DEF r, v
<1>7. /\ executor' # <<>> /\ Len(executor) \in Nat
      /\ InQueue(executor') = InQueue(executor) \cup {e}
      /\ Len(executor') = Len(executor) + 1
      /\ \A i \in 1 .. Len(executor) : executor'[i] = executor[i]
      /\ executor'[Len(executor) + 1] = e
      /\ executor # <<>> => Head(executor') = Head(executor)
  BY <1>1, AppendQueue
<1>8. /\ \A i \in 1 .. Len(executor) :
            /\ executor[i] \in Tasks /\ executor[i] # e
            /\ task[executor[i]].st # "none" /\ task[executor[i]].of <= o
      /\ \A i, j \in 1 .. Len(executor) :
            i < j => task[executor[i]].of <= task[executor[j]].of
  BY <1>4 DEF RestOK, Lined
<1>9. Numbered(task')
  <2>1. n + 1 \in 0 .. MaxTasks
    BY <1>1, <1>3, ScreenAssumption DEF Tasks
  <2>2. ASSUME NEW t \in Tasks PROVE task'[t].st # "none" <=> t <= n + 1
    <3>1. CASE t = e
      BY <1>3, <1>5, <1>6, <3>1
    <3>2. CASE t # e
      <4>1. task'[t].st # "none" <=> t <= n
        BY <1>2, <1>5, <3>2
      <4>2. t <= n <=> t <= n + 1
        BY <1>3, <3>2 DEF Tasks
      <4> QED
        BY <4>1, <4>2
    <3> QED
      BY <3>1, <3>2
  <2> QED
    BY <2>1, <2>2 DEF Numbered
<1>10. a \in Nat /\ \A t \in Tasks : task[t].st # "none" => task[t].of \in Nat
  <2>1. \A b \in Screens : b \in Nat
    BY DEF Screens
  <2>2. \A t \in Tasks : task[t].st # "none" => task[t].of \in Screens
    BY DEF TaskStates
  <2> QED
    BY <2>1, <2>2
<1>11. Lined(a, task', executor')
  <2>1. ASSUME NEW i \in 1 .. Len(executor)
        PROVE  /\ executor'[i] = executor[i] /\ task'[executor'[i]] = task[executor[i]]
               /\ task'[executor'[i]].st # "none" /\ task'[executor'[i]].of <= a
    <3>1. executor'[i] = executor[i] /\ task'[executor'[i]] = task[executor[i]]
      BY <1>5, <1>7, <1>8
    <3>2. task[executor[i]].of \in Nat /\ task[executor[i]].of <= o
      BY <1>8, <1>10
    <3>3. task[executor[i]].of <= a
      BY <1>10, <3>2
    <3> QED
      BY <1>8, <3>1, <3>3
  <2>2. task'[e].st # "none" /\ task'[e].of = a /\ a <= a
    BY <1>5, <1>6, <1>10
  <2>3. \A i \in 1 .. Len(executor') : i \in 1 .. Len(executor) \/ i = Len(executor) + 1
    BY <1>7
  <2>4. \A i \in 1 .. Len(executor') :
           task'[executor'[i]].st # "none" /\ task'[executor'[i]].of <= a
    BY <1>7, <2>1, <2>2, <2>3
  <2>5. ASSUME NEW i \in 1 .. Len(executor'), NEW j \in 1 .. Len(executor'), i < j
        PROVE  task'[executor'[i]].of <= task'[executor'[j]].of
    <3>1. i \in 1 .. Len(executor)
      BY <1>7, <2>5
    <3>2. CASE j \in 1 .. Len(executor)
      BY <1>8, <2>1, <2>5, <3>1, <3>2
    <3>3. CASE j = Len(executor) + 1
      BY <1>7, <2>1, <2>2, <3>1, <3>3
    <3> QED
      BY <2>3, <3>2, <3>3
  <2> QED
    BY <2>4, <2>5 DEF Lined
<1>12. ASSUME NEW u \in Tasks PROVE Fit(u, act', task', executor', mainQ)
  <2>1. CASE u = e
    <3>1. act'[task'[u].of].mIperTask = u
      BY <1>5, <1>6, <2>1
    <3> QED
      BY <1>5, <1>6, <1>7, <2>1, <3>1 DEF Fit
  <2>2. CASE u # e
    <3>1. task'[u] = task[u] /\ Fit(u, act, task, executor, mainQ)
      BY <1>5, <2>2 DEF RestOK
    <3>2. ASSUME task[u].st \in Pending, ~task[u].cancelled
          PROVE  act'[task[u].of].mIperTask = u
      <4>1. u \in InQueue(executor) /\ act[task[u].of].mIperTask = u
        BY <3>1, <3>2 DEF Fit
      <4>2. task[u].of <= o /\ task[u].st # "none"
        BY <1>8, <4>1 DEF InQueue
      <4>3. task[u].of \in Screens /\ task[u].of \in Nat
        BY <1>10, <4>2 DEF TaskStates
      <4>4. u # Missing
        BY TasksPositive
      <4>5. task[u].of # a
        <5>1. CASE a > o
          BY <1>10, <4>2, <4>3, <5>1
        <5>2. CASE act[a].mIperTask = Missing
          BY <4>1, <4>4, <5>2
        <5> QED
          BY <5>1, <5>2
      <4> QED
        BY <1>5, <4>1, <4>3, <4>5
    <3>3. task[u].st \in {"launching", "waiting"} => executor' # <<>> /\ u = Head(executor')
      BY <1>7, <3>1 DEF Fit
    <3> QED
      BY <1>7, <3>1, <3>2, <3>3 DEF Fit
  <2> QED
    BY <2>1, <2>2
<1>13. ASSUME NEW b \in Screens, act'[b].mIperTask # Missing
       PROVE  task'[act'[b].mIperTask].st # "none"
  <2>1. CASE b = a
    BY <1>5, <1>6, <2>1
  <2>2. CASE b # a
    <3>1. act'[b] = act[b] /\ task[act[b].mIperTask].st # "none"
      BY <1>5, <1>13, <2>2 DEF RestOK
    <3>2. act[b].mIperTask \in Tasks /\ act[b].mIperTask # e
      BY <1>4, <1>13, <3>1 DEF Activities
    <3> QED
      BY <1>5, <3>1, <3>2
  <2> QED
    BY <2>1, <2>2
<1> QED
  BY <1>9, <1>11, <1>12, <1>13 DEF RestOK

\* The app has just been started, or started again.
LEMMA RestFresh ==
    ASSUME NEW tk, tk = [t \in Tasks |-> NoTask],
           NEW ac, ac = [a \in Screens |-> NewActivity]
    PROVE  RestOK(0, ac, tk, <<>>, <<>>)
<1>1. \A t \in Tasks : tk[t].st = "none" /\ ~tk[t].cancelled /\ tk[t].process = "none"
  BY DEF NoTask
<1>2. Numbered(tk)
  <2>1. 0 \in 0 .. MaxTasks /\ \A t \in Tasks : ~(t <= 0)
    BY ScreenAssumption DEF Tasks
  <2> QED
    BY <1>1, <2>1 DEF Numbered
<1>3. Lined(0, tk, <<>>)
  BY DEF Lined
<1>4. \A t \in Tasks : Fit(t, ac, tk, <<>>, <<>>)
  BY <1>1 DEF Fit, Pending
<1>5. \A a \in Screens : ac[a].mIperTask = Missing
  BY DEF NewActivity
<1> QED
  BY <1>2, <1>3, <1>4, <1>5 DEF RestOK

LEMMA RestInit == Init => RestInv
  BY RestFresh DEF Init, RestInv

LEMMA CrashRest == Crash => RestInv'
  BY RestFresh DEF Crash, RestInv

\* What the steps below need of the types.
LEMMA RestTypes ==
    ASSUME ScreenInv
    PROVE  /\ screen \in Screens \cup {Missing} /\ opened \in 0 .. MaxScreens /\ opened \in Nat
           /\ act \in [Screens -> Activities] /\ task \in [Tasks -> TaskStates]
           /\ executor \in Seq(Tasks) /\ mainQ \in Seq(Messages) /\ ButtonMatchesTask
           /\ \A i \in 1 .. Len(mainQ) : task[mainQ[i].task].st # "none"
  BY ScreenAssumption DEF ScreenInv, ScreenTypes, Known

\* The button of activity a is pressed or released, by the user or by the end of a
\* task: a new task is made only in the first case.
LEMMA ChangeRest ==
    ASSUME ScreenInv, NEW tk \in [Tasks -> TaskStates], NEW queue \in Seq(Messages),
           RestOK(opened, act, tk, executor, queue), NEW a \in Screens, NEW text,
           OnCheckedChanged(a, text, tk, queue),
           act[a].checked \/ (a = opened /\ tk = task /\ queue = mainQ)
    PROVE  RestOK(opened, act', task', executor', mainQ')
<1>1. act[a].checked = act[a].doExec /\ act[a].checked = (act[a].mIperTask # Missing)
  BY RestTypes DEF ButtonMatchesTask
<1>2. CASE act[a].doExec
  <2>1. Cancel(a, tk, queue) /\ act[a].mIperTask # Missing
    BY <1>1, <1>2 DEF OnCheckedChanged
  <2> QED
    BY <2>1, RestTypes, RestCancel
<1>3. CASE ~act[a].doExec
  <2>1. act[a].mIperTask = Missing /\ a = opened /\ tk = task /\ queue = mainQ
    BY <1>1, <1>3
  <2>2. Execute(a, text, task) /\ mainQ' = mainQ
    BY <1>3, <2>1 DEF OnCheckedChanged
  <2>3. opened <= a /\ RestOK(opened, act, task, executor, mainQ)
    BY <2>1, RestTypes
  <2>4. RestOK(a, act', task', executor', mainQ)
    BY <2>1, <2>2, <2>3, RestTypes, RestExecute
  <2> QED
    BY <2>1, <2>2, <2>4
<1> QED
  BY <1>2, <1>3

LEMMA UserRest == ScreenInv /\ RestInv /\ User => RestInv'
<1> SUFFICES ASSUME ScreenInv, RestInv, User PROVE RestInv'
  OBVIOUS
<1>0. RestOK(opened, act, task, executor, mainQ) /\ screen \in {Missing, opened}
  BY DEF RestInv
<1>1. CASE ShowPopup \/ RemoveRow \/ ClosePopup
  <2>1. UNCHANGED <<screen, opened, act, task, executor, mainQ>>
    BY <1>1 DEF ShowPopup, RemoveRow, ClosePopup, tasks
  <2> QED
    BY <1>0, <2>1 DEF RestInv
<1>2. CASE Click
  <2>1. PICK text \in Commands \cup {Empty} : OnCheckedChanged(screen, text, task, mainQ)
    BY <1>2 DEF Click
  <2>2. screen = opened /\ screen \in Screens /\ UNCHANGED <<screen, opened>>
    BY <1>0, <1>2, RestTypes DEF Click
  <2>3. RestOK(opened, act', task', executor', mainQ')
    BY <1>0, <2>1, <2>2, RestTypes, ChangeRest
  <2> QED
    BY <2>2, <2>3 DEF RestInv
<1>3. CASE ClickThrows
  BY <1>3, CrashRest DEF ClickThrows
<1>4. CASE Open \/ Leave
  <2>1. /\ UNCHANGED <<act, task, executor, mainQ>>
        /\ opened' \in {opened, opened + 1} /\ screen' \in {Missing, opened'}
    BY <1>4 DEF Open, Leave, tasks
  <2>2. opened' \in Nat /\ opened <= opened'
    BY <2>1, RestTypes
  <2>3. RestOK(opened', act, task, executor, mainQ)
    BY <1>0, <2>2, RestTypes, RestSame
  <2> QED
    BY <2>1, <2>3 DEF RestInv
<1>5. CASE Rotate
  <2>1. /\ screen' = opened + 1 /\ opened' = opened + 1 /\ mainQ' = mainQ
        /\ opened < MaxScreens
        /\ \/ Execute(opened + 1, Empty, task)
           \/ UNCHANGED <<task, executor, act>>
    BY <1>5 DEF Rotate
  <2>2. opened + 1 \in Screens /\ opened + 1 \in Nat /\ opened <= opened + 1 /\ opened + 1 > opened
    BY <2>1, RestTypes, ScreenAssumption DEF Screens
  <2>3. RestOK(opened + 1, act', task', executor', mainQ)
    <3>1. CASE Execute(opened + 1, Empty, task)
      BY <1>0, <2>2, <3>1, RestTypes, RestExecute
    <3>2. CASE UNCHANGED <<task, executor, act>>
      <4>1. RestOK(opened + 1, act, task, executor, mainQ)
        BY <1>0, <2>2, RestTypes, RestSame
      <4> QED
        BY <3>2, <4>1
    <3> QED
      BY <2>1, <3>1, <3>2
  <2> QED
    BY <2>1, <2>3 DEF RestInv
<1> QED
  BY <1>1, <1>2, <1>3, <1>4, <1>5 DEF User

\* The end of a task on the main thread.
LEMMA FinishRest == ScreenInv /\ RestInv /\ FinishTask => RestInv'
<1> SUFFICES ASSUME ScreenInv, RestInv, FinishTask PROVE RestInv'
  OBVIOUS
<1> DEFINE t == Head(mainQ).task
           a == task[t].of
           p == IF Alive(t) THEN "dead" ELSE task[t].process
           r == [task[t] EXCEPT !.st = "finished", !.lines = 0, !.process = p]
           tk == Destroyed(t)
           q == Tail(mainQ)
<1>1. /\ RestOK(opened, act, task, executor, mainQ) /\ screen \in {Missing, opened}
      /\ mainQ # <<>> /\ UNCHANGED <<screen, opened>>
      /\ act[a].checked =>
            \E text \in Commands \cup {Empty} : OnCheckedChanged(a, text, tk, q)
      /\ ~act[a].checked => task' = tk /\ mainQ' = q /\ UNCHANGED <<act, executor>>
  BY DEF RestInv, FinishTask
<1>2. /\ q \in Seq(Messages) /\ Head(mainQ) = mainQ[1] /\ 1 \in 1 .. Len(mainQ)
      /\ \A x \in InQueue(mainQ) : x # Head(mainQ) => x \in InQueue(q)
  BY <1>1, RestTypes, QueueFacts
<1>3. t \in Tasks /\ task[t].st # "none" /\ task[t] \in TaskStates /\ a \in Screens
  <2>1. Head(mainQ) \in Messages
    BY <1>2, RestTypes
  <2>2. t \in Tasks
    BY <2>1 DEF Messages
  <2>3. task[t].st # "none" /\ task[t] \in TaskStates
    BY <1>2, <2>2, RestTypes
  <2> QED
    BY <2>2, <2>3 DEF TaskStates
<1>4. tk = [task EXCEPT ![t] = r]
  BY <1>3, RestTypes DEF Destroyed
<1>5. p \in {"none", "dead"} /\ p # "alive"
  BY <1>3 DEF Alive, TaskStates
<1>6. t = Head(mainQ).task
  OBVIOUS
<1> HIDE DEF p, t, a, q, tk
<1>7. /\ r.st = "finished" /\ r.of = task[t].of /\ r.process = p /\ r \in TaskStates
      /\ r.cancelled = task[t].cancelled
  BY <1>3, <1>5 DEF TaskStates
<1> HIDE DEF r
<1>8. tk \in [Tasks -> TaskStates] /\ tk[t] = r
  BY <1>3, <1>4, <1>7, RestTypes
<1>9. RestOK(opened, act, tk, executor, q)
  <2>1. \A u \in Tasks : u # t /\ Finish(u) \in InQueue(mainQ) => Finish(u) \in InQueue(q)
    BY <1>2, <1>6, FinishMessage
  <2>2. Fit(t, act, tk, executor, q)
    BY <1>5, <1>7, <1>8 DEF Fit, Pending
  <2>3. r.st # "none"
    BY <1>7
  <2>4. task \in [Tasks -> TaskStates] /\ executor \in Seq(Tasks)
    BY RestTypes
  <2>5. RestOK(opened, act, task, executor, mainQ) /\ r.of = task[t].of /\ task[t].st # "none"
    BY <1>1, <1>3, <1>7
  <2> QED
    BY <1>3, <1>4, <2>1, <2>2, <2>3, <2>4, <2>5, RestOne
<1>10. RestOK(opened, act', task', executor', mainQ')
  <2>1. CASE act[a].checked
    <3>1. PICK text \in Commands \cup {Empty} : OnCheckedChanged(a, text, tk, q)
      BY <1>1, <2>1
    <3> QED
      BY <1>2, <1>3, <1>8, <1>9, <2>1, <3>1, ChangeRest
  <2>2. CASE ~act[a].checked
    <3>1. task' = tk /\ mainQ' = q /\ act' = act /\ executor' = executor
      BY <1>1, <2>2
    <3> QED
      BY <1>9, <3>1
  <2> QED
    BY <2>1, <2>2
<1> QED
  BY <1>1, <1>10 DEF RestInv


\* One task changes; the queues and the activities do not.
LEMMA TaskRest ==
    ASSUME ScreenInv, RestInv, NEW t \in Tasks, NEW r, task' = [task EXCEPT ![t] = r],
           r.of = task[t].of, r.st # "none", task[t].st # "none",
           UNCHANGED <<screen, opened, act, executor, mainQ>>,
           Fit(t, act, task', executor, mainQ)
    PROVE  RestInv'
<1>1. task \in [Tasks -> TaskStates] /\ executor \in Seq(Tasks)
  BY RestTypes
<1>2. RestOK(opened, act, task, executor, mainQ)
  BY DEF RestInv
<1>3. RestOK(opened, act, task', executor, mainQ)
  BY <1>1, <1>2, RestOne
<1> QED
  BY <1>3 DEF RestInv

\* doInBackground returns.
LEMMA ReturnRest ==
    ASSUME ScreenInv, RestInv, NEW t \in Tasks, executor # <<>>, t = Head(executor),
           task[t].st # "none", Return(t)
    PROVE  RestInv'
<1> DEFINE r == [task[t] EXCEPT !.st = "returned"]
<1>1. /\ task \in [Tasks -> TaskStates] /\ executor \in Seq(Tasks)
      /\ mainQ \in Seq(Messages) /\ RestOK(opened, act, task, executor, mainQ)
  BY RestTypes DEF RestInv
<1>2. /\ task' = [task EXCEPT ![t] = r] /\ executor' = Tail(executor)
      /\ mainQ' = Append(mainQ, Finish(t)) /\ UNCHANGED <<screen, opened, act>>
  BY <1>1 DEF Return
<1>3. /\ r.of = task[t].of /\ r.st = "returned" /\ r.cancelled = task[t].cancelled
      /\ r.process = task[t].process /\ r \in TaskStates
  <2>1. task[t] \in TaskStates
    BY <1>1
  <2> QED
    BY <2>1 DEF TaskStates
<1> HIDE DEF r
<1>4. InQueue(mainQ') = InQueue(mainQ) \cup {Finish(t)}
  BY <1>1, <1>2, FinishMessage, AppendQueue
<1>5. task'[t] = r /\ task' \in [Tasks -> TaskStates]
  BY <1>1, <1>2, <1>3
<1>6. Fit(t, act, task', executor, mainQ')
  BY <1>3, <1>4, <1>5 DEF Fit, Pending
<1>7. r.of = task[t].of /\ r.st # "none"
  BY <1>3
<1>8. \A u \in Tasks : u # t /\ Finish(u) \in InQueue(mainQ) => Finish(u) \in InQueue(mainQ')
  BY <1>4
<1>9. RestOK(opened, act, task', executor, mainQ')
  BY <1>1, <1>2, <1>6, <1>7, <1>8, RestOne
<1>10. task'[Head(executor)].st \notin Pending
  BY <1>3, <1>5 DEF Pending
<1>11. RestOK(opened, act, task', Tail(executor), mainQ')
  BY <1>1, <1>5, <1>9, <1>10, RestPop
<1> QED
  BY <1>2, <1>11 DEF RestInv

LEMMA WorkerRest ==
    ASSUME ScreenInv, RestInv, NEW t \in Tasks,
           Skip(t) \/ Background(t) \/ StartServer(t) \/ Launch(t) \/ Wait(t)
    PROVE  RestInv'
<1>1. /\ task \in [Tasks -> TaskStates] /\ executor \in Seq(Tasks) /\ task[t] \in TaskStates
      /\ RestOK(opened, act, task, executor, mainQ) /\ Fit(t, act, task, executor, mainQ)
  BY RestTypes DEF RestInv, RestOK
<1>2. CASE Skip(t)
  <2>1. /\ executor # <<>> /\ t = Head(executor) /\ task[t].st \in {"returned", "finished"}
        /\ executor' = Tail(executor) /\ UNCHANGED <<screen, opened, act, task, mainQ>>
    BY <1>2 DEF Skip, Worker
  <2>2. task[Head(executor)].st \notin Pending
    BY <2>1 DEF Pending
  <2>3. RestOK(opened, act, task, Tail(executor), mainQ)
    BY <1>1, <2>1, <2>2, RestPop
  <2> QED
    BY <2>1, <2>3 DEF RestInv
<1>3. CASE Return(t)
  <2>1. executor # <<>> /\ t = Head(executor) /\ task[t].st # "none"
    BY DEF Skip, Background, StartServer, Launch, Wait, Worker
  <2> QED
    BY <1>3, <2>1, ReturnRest
<1>4. ASSUME NEW st \in {"serving", "launching"}, task[t].st \in {"queued", "serving"},
             task[t].command \in Endless \cup Ending,
             executor # <<>>, t = Head(executor),
             task' = [task EXCEPT ![t].st = st],
             UNCHANGED <<screen, opened, act, executor, mainQ>>
      PROVE  RestInv'
  <2> DEFINE r == [task[t] EXCEPT !.st = st]
  <2>1. task' = [task EXCEPT ![t] = r]
    BY <1>1, <1>4
  <2>2. /\ r.of = task[t].of /\ r.st = st /\ r.cancelled = task[t].cancelled
        /\ r.process = task[t].process /\ r.command = task[t].command
    BY <1>1 DEF TaskStates
  <2> HIDE DEF r
  <2>3. task'[t] = r
    BY <1>1, <2>1
  <2>4. Fit(t, act, task', executor, mainQ)
    BY <1>1, <1>4, <2>1, <2>2, <2>3 DEF Fit, Pending
  <2> QED
    BY <1>4, <2>1, <2>2, <2>4, TaskRest
<1>6. CASE Background(t) /\ ~Return(t)
  <2>1. /\ executor # <<>> /\ t = Head(executor) /\ task[t].st = "queued"
        /\ task[t].command \in Endless \cup Ending
        /\ \E st \in {"serving", "launching"} : task' = [task EXCEPT ![t].st = st]
        /\ UNCHANGED <<screen, opened, act, executor, mainQ>>
    BY <1>1, <1>6 DEF Background, Worker
  <2> QED
    BY <1>4, <2>1
<1>7. CASE StartServer(t)
  <2>1. /\ executor # <<>> /\ t = Head(executor) /\ task[t].st = "serving"
        /\ task' = [task EXCEPT ![t].st = "launching"]
        /\ UNCHANGED <<screen, opened, act, executor, mainQ>>
    BY <1>7 DEF StartServer, Worker
  <2>2. task[t].command \in Endless \cup Ending
    BY <1>1, <2>1 DEF Fit
  <2> QED
    BY <1>4, <2>1, <2>2
<1>5. CASE Launch(t) /\ ~Return(t)
  <2> DEFINE r == [task[t] EXCEPT !.st = "waiting", !.process = "alive"]
  <2>1. /\ executor # <<>> /\ t = Head(executor) /\ task[t].st = "launching"
        /\ task' = [task EXCEPT ![t] = r]
        /\ UNCHANGED <<screen, opened, act, executor, mainQ>>
    BY <1>1, <1>5 DEF Launch, Worker
  <2>2. /\ r.of = task[t].of /\ r.st = "waiting" /\ r.cancelled = task[t].cancelled
        /\ r.process = "alive" /\ r.command = task[t].command
    BY <1>1 DEF TaskStates
  <2> HIDE DEF r
  <2>3. task'[t] = r
    BY <1>1, <2>1
  <2>4. Fit(t, act, task', executor, mainQ)
    BY <1>1, <2>1, <2>2, <2>3 DEF Fit, Pending
  <2> QED
    BY <2>1, <2>2, <2>4, TaskRest
<1> QED
  BY <1>2, <1>3, <1>5, <1>6, <1>7 DEF Wait

\* The processes and the threads of the report socket.
LEMMA ReportRest ==
    ASSUME ScreenInv, RestInv,
           \/ \E t \in Tasks : Connect(t) \/ Send(t) \/ ProcessEnds(t)
           \/ \E r \in DOMAIN thread : Bind(r) \/ ReadLine(r) \/ ReadFails(r) \/ Collect(r)
    PROVE  RestInv'
<1>1. /\ task \in [Tasks -> TaskStates] /\ executor \in Seq(Tasks)
      /\ mainQ \in Seq(Messages) /\ opened \in Nat
      /\ RestOK(opened, act, task, executor, mainQ)
  BY RestTypes DEF RestInv
<1>2. ASSUME NEW t \in Tasks, Connect(t) PROVE RestInv'
  <2> DEFINE l == task[t].lines - 1
             r == [task[t] EXCEPT !.lines = l]
  <2>1. /\ task[t].process = "alive" /\ task' = [task EXCEPT ![t] = r]
        /\ UNCHANGED <<screen, opened, act, executor, mainQ>>
    BY <1>1, <1>2 DEF Connect, Alive
  <2>2. task[t] \in TaskStates /\ Fit(t, act, task, executor, mainQ)
    BY <1>1 DEF RestOK
  <2>3. /\ r.of = task[t].of /\ r.st = task[t].st /\ r.cancelled = task[t].cancelled
        /\ r.process = task[t].process /\ r.command = task[t].command
    BY <2>2 DEF TaskStates
  <2> HIDE DEF r, l
  <2>4. task'[t] = r
    BY <1>1, <2>1
  <2>5. task[t].st # "none"
    BY <2>1, <2>2 DEF Fit
  <2>6. Fit(t, act, task', executor, mainQ)
    BY <2>2, <2>3, <2>4 DEF Fit
  <2> QED
    BY <2>1, <2>3, <2>5, <2>6, TaskRest
<1>3. ASSUME NEW t \in Tasks, ProcessEnds(t) PROVE RestInv'
  <2> DEFINE r == [task[t] EXCEPT !.process = "dead"]
  <2>1. /\ task[t].process = "alive" /\ task' = [task EXCEPT ![t] = r]
        /\ UNCHANGED <<screen, opened, act, executor, mainQ>>
    BY <1>1, <1>3 DEF ProcessEnds, Alive
  <2>2. task[t] \in TaskStates /\ Fit(t, act, task, executor, mainQ)
    BY <1>1 DEF RestOK
  <2>3. /\ r.of = task[t].of /\ r.st = task[t].st /\ r.cancelled = task[t].cancelled
        /\ r.process = "dead" /\ r.command = task[t].command
    BY <2>2 DEF TaskStates
  <2> HIDE DEF r
  <2>4. task'[t] = r
    BY <1>1, <2>1
  <2>5. task[t].st # "none"
    BY <2>1, <2>2 DEF Fit
  <2>6. Fit(t, act, task', executor, mainQ)
    BY <2>2, <2>3, <2>4 DEF Fit
  <2> QED
    BY <2>1, <2>3, <2>5, <2>6, TaskRest
<1>4. ASSUME NEW t \in Tasks, Send(t) PROVE RestInv'
  <2>1. UNCHANGED <<screen, opened, act, task, executor, mainQ>>
    BY <1>4 DEF Send, tasks
  <2> QED
    BY <2>1 DEF RestInv
<1>5. ASSUME NEW r \in DOMAIN thread, Bind(r) \/ ReadFails(r) \/ Collect(r) PROVE RestInv'
  <2>1. UNCHANGED <<screen, opened, act, task, executor, mainQ>>
    BY <1>5 DEF Bind, ReadFails, Collect, tasks
  <2> QED
    BY <2>1 DEF RestInv
<1>6. ASSUME NEW r \in DOMAIN thread, ReadLine(r) PROVE RestInv'
  <2>1. UNCHANGED <<screen, opened, act, task, executor>>
    BY <1>6 DEF ReadLine
  <2>2. \A t \in Tasks : Finish(t) \in InQueue(mainQ) => Finish(t) \in InQueue(mainQ')
    <3> DEFINE m == Progress(mListener, Head(conns).st = "line")
    <3>1. mainQ' = mainQ \/ mainQ' = Append(mainQ, m)
      BY <1>6 DEF ReadLine
    <3> HIDE DEF m
    <3>2. \A x : x \in InQueue(mainQ) <=> \E k \in 1 .. Len(mainQ) : mainQ[k] = x
      BY DEF InQueue
    <3>3. \A x : x \in InQueue(mainQ') <=> \E k \in 1 .. Len(mainQ') : mainQ'[k] = x
      BY DEF InQueue
    <3>4. CASE mainQ' = Append(mainQ, m)
      <4>1. /\ Len(mainQ') = Len(mainQ) + 1 /\ Len(mainQ) \in Nat
            /\ \A k \in 1 .. Len(mainQ) : mainQ'[k] = mainQ[k]
        BY <1>1, <3>4
      <4>2. \A k \in 1 .. Len(mainQ) : k \in 1 .. Len(mainQ')
        BY <4>1
      <4> QED
        BY <3>2, <3>3, <4>1, <4>2
    <3> QED
      BY <3>1, <3>4
  <2>3. opened <= opened
    BY <1>1
  <2>4. RestOK(opened, act, task, executor, mainQ')
    BY <1>1, <2>2, <2>3, RestSame
  <2> QED
    BY <2>1, <2>4 DEF RestInv
<1> QED
  BY <1>2, <1>3, <1>4, <1>5, <1>6

LEMMA LineRest == ScreenInv /\ RestInv /\ ShowLine => RestInv'
<1> SUFFICES ASSUME ScreenInv, RestInv, ShowLine PROVE RestInv'
  OBVIOUS
<1>1. /\ task \in [Tasks -> TaskStates] /\ executor \in Seq(Tasks)
      /\ mainQ \in Seq(Messages) /\ opened \in Nat /\ opened <= opened
      /\ RestOK(opened, act, task, executor, mainQ)
  BY RestTypes DEF RestInv
<1>2. /\ mainQ # <<>> /\ Head(mainQ).what = "progress" /\ mainQ' = Tail(mainQ)
      /\ UNCHANGED <<screen, opened, act, task, executor>>
  BY DEF ShowLine
<1>3. \A x \in InQueue(mainQ) : x # Head(mainQ) => x \in InQueue(mainQ')
  BY <1>1, <1>2, QueueFacts
<1>4. \A t \in Tasks : Finish(t).what = "finish"
  BY DEF Finish
<1>5. \A t \in Tasks : Finish(t) \in InQueue(mainQ) => Finish(t) \in InQueue(mainQ')
  BY <1>2, <1>3, <1>4
<1>6. RestOK(opened, act, task, executor, mainQ')
  BY <1>1, <1>5, RestSame
<1> QED
  BY <1>2, <1>6 DEF RestInv

LEMMA RestNext == ScreenInv /\ RestInv /\ [Next]_vars => RestInv'
<1> SUFFICES ASSUME ScreenInv, RestInv, [Next]_vars PROVE RestInv'
  OBVIOUS
<1>1. CASE UNCHANGED vars
  <2>1. UNCHANGED <<screen, opened, act, task, executor, mainQ>>
    BY <1>1 DEF vars, tasks
  <2> QED
    BY <2>1 DEF RestInv
<1>2. CASE User
  BY <1>2, UserRest
<1>3. CASE FinishTask
  BY <1>3, FinishRest
<1>4. CASE ShowLine
  BY <1>4, LineRest
<1>5. CASE ShowLineThrows
  BY <1>5, CrashRest DEF ShowLineThrows
<1>6. CASE \E t \in Tasks : Skip(t) \/ Background(t) \/ StartServer(t) \/ Launch(t) \/ Wait(t)
  BY <1>6, WorkerRest
<1>8. CASE \E t \in Tasks : StartServerThrows(t)
  BY <1>8, CrashRest DEF StartServerThrows
<1>7. CASE \/ \E t \in Tasks : Connect(t) \/ Send(t) \/ ProcessEnds(t)
           \/ \E r \in DOMAIN thread : Bind(r) \/ ReadLine(r) \/ ReadFails(r) \/ Collect(r)
  BY <1>7, ReportRest
<1> QED
  BY <1>1, <1>2, <1>3, <1>4, <1>5, <1>6, <1>7, <1>8 DEF Next, App

\* Once the main thread and the worker have done what they can and no process ends
\* by itself, a task that was cancelled has finished and its process is dead,
\* wherever cancel(true) met it: before its turn, before ProcessBuilder.start or in
\* Process.waitFor.
THEOREM StopsHold == Spec => []StopStops
<1>1. ScreenInv /\ RestInv => StopStops
  <2> SUFFICES ASSUME ScreenInv, RestInv, AtRest, NEW t \in Tasks, task[t].cancelled
               PROVE  task[t].st = "finished" /\ ~Alive(t)
    BY DEF StopStops
  <2>1. task[t] \in TaskStates /\ Fit(t, act, task, executor, mainQ)
    BY RestTypes DEF RestInv, RestOK
  <2>2. task[t].st \notin {"none", "queued"}
    BY <2>1 DEF Fit
  <2>3. task[t].st # "returned"
    <3>1. InQueue(<<>>) = {}
      BY DEF InQueue
    <3> QED
      BY <2>1, <3>1 DEF Fit, AtRest
  <2>4. task[t].st \notin {"serving", "launching", "waiting"}
    BY <2>1 DEF Fit, AtRest, WaitEnds
  <2>5. task[t].st = "finished"
    BY <2>1, <2>2, <2>3, <2>4 DEF TaskStates
  <2> QED
    BY <2>1, <2>5 DEF Fit, Alive
<1> QED
  BY <1>1, ScreenInit, ScreenNext, RestInit, RestNext, PTL DEF Spec

\* When everything is at rest and a task still waits for the serial executor, the
\* worker is held by an endless test of an activity that is gone: whatever the
\* order of presses and rotations, a command of the screen in front never waits for
\* another command of the same screen.
THEOREM OnlyLeftTestsHoldUp == Spec => []HeldUpByLeftTestOnly
<1>1. ScreenInv /\ RestInv => HeldUpByLeftTestOnly
  <2> SUFFICES ASSUME ScreenInv, RestInv, AtRest, NEW t \in Tasks, task[t].st = "queued"
               PROVE  LET u == Head(executor)
                      IN  /\ u # t /\ Alive(u) /\ ~task[u].cancelled
                          /\ task[u].command \in Endless /\ task[u].of # screen
    BY DEF HeldUpByLeftTestOnly
  <2> DEFINE u == Head(executor)
  <2>1. /\ task \in [Tasks -> TaskStates] /\ executor \in Seq(Tasks) /\ opened \in Nat
        /\ RestOK(opened, act, task, executor, mainQ) /\ screen \in {Missing, opened}
    BY RestTypes DEF RestInv
  <2>2. Fit(t, act, task, executor, mainQ) /\ task[t] \in TaskStates
    BY <2>1 DEF RestOK
  <2>3. t \in InQueue(executor) /\ ~task[t].cancelled /\ act[task[t].of].mIperTask = t
    BY <2>2 DEF Fit, Pending
  <2>4. PICK j \in 1 .. Len(executor) : executor[j] = t
    BY <2>3 DEF InQueue
  <2>5. executor # <<>> /\ u = executor[1] /\ 1 \in 1 .. Len(executor) /\ u \in Tasks
    BY <2>1, <2>4
  <2>6. task[u].st = "waiting" /\ ~WaitEnds(u)
    BY <2>5 DEF AtRest
  <2> HIDE DEF u
  <2>7. Fit(u, act, task, executor, mainQ) /\ task[u] \in TaskStates
    BY <2>1, <2>5 DEF RestOK
  <2>8. ~task[u].cancelled /\ task[u].process = "alive"
    BY <2>6, <2>7 DEF WaitEnds, Fit, TaskStates
  <2>9. task[u].command \in Endless
    BY <2>5, <2>6, <2>7, <2>8 DEF Fit, AtRest, Alive
  <2>10. u # t
    BY <2>6
  <2>11. task[u].of # screen
    <3> SUFFICES ASSUME task[u].of = screen PROVE FALSE
      OBVIOUS
    <3>1. task[u].of \in Screens /\ task[t].of \in Screens
      BY <2>2, <2>6, <2>7 DEF TaskStates
    <3>2. task[u].of \in Nat /\ task[t].of \in Nat /\ task[u].of # 0
      BY <3>1 DEF Screens
    <3>3. task[u].of = opened
      BY <2>1, <3>2 DEF Missing
    <3>4. task[u].of <= task[t].of /\ task[t].of <= opened
      <4>1. task[t].of <= opened
        BY <2>1, <2>4 DEF RestOK, Lined
      <4>2. 1 < j
        BY <2>4, <2>5, <2>10
      <4>3. task[executor[1]].of <= task[executor[j]].of
        BY <2>1, <2>5, <4>2 DEF RestOK, Lined
      <4> QED
        BY <2>4, <2>5, <4>1, <4>3
    <3>5. task[t].of = task[u].of
      BY <3>2, <3>3, <3>4
    <3>6. act[task[u].of].mIperTask = u
      BY <2>6, <2>7, <2>8 DEF Fit, Pending
    <3> QED
      BY <2>3, <2>10, <3>5, <3>6
  <2> QED
    BY <2>8, <2>9, <2>10, <2>11 DEF Alive, u
<1> QED
  BY <1>1, ScreenInit, ScreenNext, RestInit, RestNext, PTL DEF Spec
==============================================================================
