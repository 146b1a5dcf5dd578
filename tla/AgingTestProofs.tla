--------------------------- MODULE AgingTestProofs ---------------------------
(***************************************************************************)
(* The counts and the switch of AgingTest, for any numbers of threads,     *)
(* presses, notifications and interruptions.                               *)
(***************************************************************************)
EXTENDS AgingTest, TLAPS

-----------------------------------------------------------------------------
(* Types. *)

LEMMA ClickType == \A u \in Fields : Click(u) \in Fields
  BY DEF Click, Fields

LEMMA UseType ==
    ASSUME TypeOK, NEW kind \in Kinds, Use(kind)
    PROVE  left' \in [Kinds -> Nat]
  BY DEF TypeOK, Use

LEMMA SetterType ==
    ASSUME TypeOK, NEW u \in Fields, SetterStarts(u)
    PROVE  setters' \in [BOOLEAN -> Nat]
<1>1. setters \in [BOOLEAN -> Nat]
  BY DEF TypeOK
<1>2. u.on = TRUE \/ u.on = FALSE
  BY DEF Fields
<1>3. (~u.on) = TRUE \/ (~u.on) = FALSE
  BY <1>2
<1>4. \/ setters' = [setters EXCEPT ![TRUE] = @ + 1]
      \/ setters' = [setters EXCEPT ![FALSE] = @ + 1]
  BY <1>3, Zenon DEF SetterStarts
<1> QED
  <2>1. ASSUME NEW b \in BOOLEAN PROVE [setters EXCEPT ![b] = @ + 1] \in [BOOLEAN -> Nat]
    BY <1>1
  <2>2. TRUE \in BOOLEAN /\ FALSE \in BOOLEAN
    OBVIOUS
  <2> QED
    BY <1>4, <2>1, <2>2, Zenon

\* The state of the system, as a set.
Systems == {w \in [api : Apis, radio : BOOLEAN, link : BOOLEAN, reg : Nat, news : 0 .. MaxNews] :
                w.link => w.radio}

LEMMA NotifyType ==
    ASSUME NEW w \in Systems, Notify(w) \/ NotifyChange(w)
    PROVE  wifi' \in Systems /\ wifi'.api = w.api
<1>1. CASE Notify(w)
  BY <1>1, AgingAssumption DEF Notify, Systems
<1>2. CASE NotifyChange(w)
  BY <1>1, <1>2 DEF NotifyChange
<1> QED
  BY <1>1, <1>2

LEMMA TypeInit == Init => TypeOK
<1> SUFFICES ASSUME Init PROVE TypeOK
  OBVIOUS
<1>1. PICK state \in Opened, api \in Apis, past \in Past :
        /\ ui = [on |-> state # "off", start |-> FALSE, target |-> 0, conn |-> FALSE,
                 scan |-> FALSE, known |-> state = "linked"]
        /\ prefs = [success |-> past, fail |-> 0]
        /\ wifi = [api |-> api, radio |-> state # "off", link |-> state = "linked", reg |-> 1,
                   news |-> IF state = "linked" THEN 1 ELSE 0]
        /\ counted = [all |-> past, since |-> past]
  BY DEF Init
<1>2. ui \in Fields
  BY <1>1 DEF Fields
<1>3. /\ wifi \in [api : Apis, radio : BOOLEAN, link : BOOLEAN, reg : Nat, news : 0 .. MaxNews]
      /\ wifi.link => wifi.radio
  BY <1>1, AgingAssumption
<1>4. prefs \in [success : Nat, fail : Nat] /\ counted \in [all : Nat, since : Nat]
  BY <1>1, AgingAssumption
<1>5. /\ queue \in Seq({"WIFI_SWITCH", "WIFI_TEST_STOP"}) /\ Len(queue) <= MaxQueue
      /\ loop \in [Loops -> {"none", "top", "sleep", "awake", "count"}]
  BY AgingAssumption DEF Init
<1>7. setters \in [BOOLEAN -> Nat]
  BY DEF Init
<1>8. left \in [Kinds -> Nat] /\ crowded \in BOOLEAN
  <2>1. left = Budget /\ crowded = FALSE
    BY DEF Init
  <2> QED
    BY <2>1, AgingAssumption
<1>6. call \in [at : {"idle", "mark", "read", "commit"}, key : {"success", "fail"}, value : Nat]
  BY DEF Init, Idle
<1> QED
  BY <1>2, <1>3, <1>4, <1>5, <1>6, <1>7, <1>8 DEF TypeOK

LEMMA TypeNext == TypeOK /\ [Next]_vars => TypeOK'
<1> SUFFICES ASSUME TypeOK, [Next]_vars PROVE TypeOK'
  OBVIOUS
<1>0. ui \in Fields /\ wifi \in Systems /\ Click(ui) \in Fields
  BY ClickType DEF TypeOK, Systems
<1>1. ASSUME ui' \in Fields, wifi' \in Systems, prefs' \in [success : Nat, fail : Nat],
             queue' \in Seq({"WIFI_SWITCH", "WIFI_TEST_STOP"}), Len(queue') <= MaxQueue,
             loop' \in [Loops -> {"none", "top", "sleep", "awake", "count"}],
             call' \in [at : {"idle", "mark", "read", "commit"}, key : {"success", "fail"},
                        value : Nat],
             setters' \in [BOOLEAN -> Nat], left' \in [Kinds -> Nat],
             counted' \in [all : Nat, since : Nat], crowded' \in BOOLEAN
      PROVE  TypeOK'
  BY <1>1 DEF TypeOK, Systems
<1>2. CASE PressSwitch
  <2>1. "switch" \in Kinds /\ Use("switch") /\ ui' = Click(ui) /\ SetterStarts(ui)
        /\ UNCHANGED <<prefs, queue, loop, call, wifi, counted, crowded>>
    BY <1>2 DEF PressSwitch, Kinds
  <2> QED
    BY <1>0, <1>1, <2>1, UseType, SetterType DEF TypeOK
<1>3. ASSUME NEW n \in Targets, PressTest(n) PROVE TypeOK'
  <2>1. "test" \in Kinds /\ Use("test") /\ UNCHANGED <<prefs, queue, call, setters, wifi, counted>>
    BY <1>3 DEF PressTest, Kinds
  <2>2. ui' \in Fields
    BY <1>0, <1>3 DEF PressTest, Fields
  <2>3. loop' \in [Loops -> {"none", "top", "sleep", "awake", "count"}]
    BY <1>3 DEF PressTest, TypeOK
  <2>4. crowded' \in BOOLEAN
    BY <1>3 DEF PressTest, TypeOK
  <2> QED
    BY <1>0, <1>1, <2>1, <2>2, <2>3, <2>4, UseType DEF TypeOK
<1>4. CASE PressReset
  <2> DEFINE u == [ui EXCEPT !.target = 0, !.start = FALSE]
  <2>1. u \in Fields
    BY <1>0 DEF Fields
  <2>2. /\ "reset" \in Kinds /\ Use("reset") /\ UNCHANGED <<queue, loop, call, wifi, crowded>>
        /\ IF u.on THEN ui' = Click(u) /\ SetterStarts(u) ELSE ui' = u /\ UNCHANGED setters
        /\ prefs' = [success |-> 0, fail |-> 0]
        /\ counted' = [counted EXCEPT !.since = 0]
    BY <1>4 DEF PressReset, Kinds
  <2> HIDE DEF u
  <2>3. ui' \in Fields /\ setters' \in [BOOLEAN -> Nat]
    BY <2>1, <2>2, ClickType, SetterType DEF TypeOK
  <2>4. prefs' \in [success : Nat, fail : Nat] /\ counted' \in [all : Nat, since : Nat]
    BY <2>2 DEF TypeOK
  <2> QED
    BY <1>0, <1>1, <2>2, <2>3, <2>4, UseType DEF TypeOK
<1>5. CASE Resume
  <2>1. "resume" \in Kinds /\ Use("resume") /\ UNCHANGED <<prefs, queue, loop, call, setters, counted, crowded>>
    BY <1>5 DEF Resume, Kinds
  <2>2. ui' \in Fields
    BY <1>0, <1>5 DEF Resume, Fields, Systems
  <2>3. \E n \in 0 .. MaxNews, m \in Nat : wifi' = [wifi EXCEPT !.reg = m, !.news = n]
    <3>1. PICK stopped \in BOOLEAN :
            LET pending == IF stopped /\ wifi.api = "new" THEN 0 ELSE wifi.news
                fresh   == IF wifi.api = "new" /\ wifi.link THEN 1 ELSE 0
            IN  /\ pending + fresh <= MaxNews
                /\ wifi' = [wifi EXCEPT !.reg = IF stopped THEN 1 ELSE @ + 1,
                                        !.news = pending + fresh]
      BY <1>5 DEF Resume
    <3>2. wifi.reg \in Nat /\ wifi.news \in Nat
      BY <1>0, AgingAssumption DEF Systems
    <3> DEFINE n == (IF stopped /\ wifi.api = "new" THEN 0 ELSE wifi.news)
                    + (IF wifi.api = "new" /\ wifi.link THEN 1 ELSE 0)
               m == IF stopped THEN 1 ELSE wifi.reg + 1
    <3>3. n \in 0 .. MaxNews /\ m \in Nat
      BY <3>1, <3>2, AgingAssumption
    <3>4. wifi' = [wifi EXCEPT !.reg = m, !.news = n]
      BY <3>1
    <3> HIDE DEF n, m
    <3> QED
      BY <3>3, <3>4
  <2>4. wifi' \in Systems
    BY <1>0, <2>3 DEF Systems
  <2> QED
    BY <1>1, <2>1, <2>2, <2>4, UseType DEF TypeOK
<1>6. CASE HandleMessage
  <2>1. /\ queue # <<>> /\ queue' = Tail(queue)
        /\ UNCHANGED <<prefs, loop, call, wifi, left, counted, crowded>>
        /\ \/ ui' = Stop(ui) /\ UNCHANGED setters
           \/ ui' = Click(ui) /\ SetterStarts(ui)
           \/ UNCHANGED <<ui, setters>>
    BY <1>6 DEF HandleMessage
  <2>2. queue' \in Seq({"WIFI_SWITCH", "WIFI_TEST_STOP"}) /\ Len(queue') <= MaxQueue
    BY <2>1, AgingAssumption DEF TypeOK
  <2>3. Stop(ui) \in Fields
    BY <1>0 DEF Stop, Fields
  <2>4. ui' \in Fields /\ setters' \in [BOOLEAN -> Nat]
    BY <1>0, <2>1, <2>3, SetterType DEF TypeOK
  <2> QED
    BY <1>0, <1>1, <2>1, <2>2, <2>4 DEF TypeOK
<1>7. ASSUME NEW l \in Loops, LoopStep(l) PROVE TypeOK'
  <2>1. UNCHANGED <<ui, prefs, call, setters, wifi, left, counted, crowded>>
    BY <1>7 DEF LoopStep, LoopTop, LoopSleeps, LoopLooks, LoopCounts
  <2>2. \E s \in {"none", "top", "sleep", "awake", "count"} : loop' = [loop EXCEPT ![l] = s]
    BY <1>7 DEF LoopStep, LoopTop, LoopSleeps, LoopLooks, LoopCounts
  <2>3. queue' \in Seq({"WIFI_SWITCH", "WIFI_TEST_STOP"}) /\ Len(queue') <= MaxQueue
    <3>1. \/ UNCHANGED queue
          \/ /\ Len(queue) < MaxQueue
             /\ \E m \in {"WIFI_SWITCH", "WIFI_TEST_STOP"} : queue' = Append(queue, m)
      BY <1>7 DEF LoopStep, LoopTop, LoopSleeps, LoopLooks, LoopCounts
    <3>2. queue \in Seq({"WIFI_SWITCH", "WIFI_TEST_STOP"}) /\ Len(queue) <= MaxQueue
      BY DEF TypeOK
    <3>3. ASSUME NEW m \in {"WIFI_SWITCH", "WIFI_TEST_STOP"}, Len(queue) < MaxQueue
          PROVE  /\ Append(queue, m) \in Seq({"WIFI_SWITCH", "WIFI_TEST_STOP"})
                 /\ Len(Append(queue, m)) <= MaxQueue
      BY <3>2, <3>3, AgingAssumption
    <3> QED
      BY <3>1, <3>2, <3>3
  <2>4. loop' \in [Loops -> {"none", "top", "sleep", "awake", "count"}]
    BY <2>2 DEF TypeOK
  <2> QED
    BY <1>0, <1>1, <2>1, <2>3, <2>4 DEF TypeOK
<1>8. CASE SaveOnMain
  <2>1. wifi' \in Systems
    BY <1>0, <1>8, AgingAssumption DEF SaveOnMain, Systems
  <2>2. ui' \in Fields
    BY <1>0, <1>8 DEF SaveOnMain, Fields
  <2>3. prefs' \in [success : Nat, fail : Nat]
    <3>1. prefs' \in {prefs, [prefs EXCEPT !.success = @ + 1], [prefs EXCEPT !.fail = @ + 1]}
      BY <1>8 DEF SaveOnMain, Saved
    <3>2. prefs \in [success : Nat, fail : Nat]
      BY DEF TypeOK
    <3>3. /\ [prefs EXCEPT !.success = @ + 1] \in [success : Nat, fail : Nat]
          /\ [prefs EXCEPT !.fail = @ + 1] \in [success : Nat, fail : Nat]
      BY <3>2
    <3> QED
      BY <3>1, <3>2, <3>3
  <2>4. counted' \in [all : Nat, since : Nat]
    BY <1>8 DEF SaveOnMain, TypeOK
  <2> QED
    BY <1>1, <1>8, <2>1, <2>2, <2>3, <2>4 DEF SaveOnMain, TypeOK
<1>9. CASE CallLooks
  <2>1. wifi' \in Systems
    BY <1>0, <1>9, AgingAssumption DEF CallLooks, Systems
  <2>2. call' \in [at : {"idle", "mark", "read", "commit"}, key : {"success", "fail"}, value : Nat]
    BY <1>9 DEF CallLooks, Idle
  <2>3. UNCHANGED <<ui, prefs, queue, loop, setters, left, counted, crowded>>
    BY <1>9 DEF CallLooks
  <2> QED
    BY <1>0, <1>1, <2>1, <2>2, <2>3 DEF TypeOK
<1>10. CASE CallMarks
  <2>1. ui' \in Fields
    BY <1>0, <1>10 DEF CallMarks, Fields
  <2> QED
    BY <1>0, <1>1, <1>10, <2>1 DEF CallMarks, TypeOK
<1>11. CASE CallReads
  <2>1. prefs[call.key] \in Nat
    BY DEF TypeOK
  <2> DEFINE v == prefs[call.key] + 1
  <2>2. call' = [call EXCEPT !.at = "commit", !.value = v] /\ v \in Nat
    BY <1>11, <2>1 DEF CallReads
  <2> HIDE DEF v
  <2>3. call' \in [at : {"idle", "mark", "read", "commit"}, key : {"success", "fail"}, value : Nat]
    BY <2>2 DEF TypeOK
  <2> QED
    BY <1>0, <1>1, <1>11, <2>3 DEF CallReads, TypeOK
<1>12. CASE CallCommits
  <2>1. prefs' \in [success : Nat, fail : Nat]
    BY <1>12 DEF CallCommits, TypeOK
  <2>2. call' \in [at : {"idle", "mark", "read", "commit"}, key : {"success", "fail"}, value : Nat]
    BY <1>12 DEF CallCommits, Idle
  <2>3. counted' \in [all : Nat, since : Nat]
    BY <1>12 DEF CallCommits, TypeOK
  <2>4. UNCHANGED <<ui, queue, loop, setters, wifi, left, crowded>>
    BY <1>12 DEF CallCommits
  <2> QED
    BY <1>0, <1>1, <2>1, <2>2, <2>3, <2>4 DEF TypeOK
<1>13. ASSUME NEW b \in BOOLEAN, SetWifi(b) PROVE TypeOK'
  <2>1. Radio(b) \in Systems
    BY <1>0 DEF Radio, Systems
  <2>2. wifi' \in Systems
    BY <1>13, <2>1, NotifyType DEF SetWifi
  <2>3. setters' \in [BOOLEAN -> Nat]
    BY <1>13 DEF SetWifi, TypeOK
  <2> QED
    BY <1>0, <1>1, <1>13, <2>2, <2>3 DEF SetWifi, TypeOK
<1>14. CASE LinkUp
  <2>1. [wifi EXCEPT !.link = TRUE] \in Systems
    BY <1>0, <1>14 DEF LinkUp, Systems
  <2>2. wifi' \in Systems
    BY <1>14, <2>1, NotifyType DEF LinkUp
  <2> QED
    BY <1>0, <1>1, <1>14, <2>2 DEF LinkUp, TypeOK
<1>15. CASE LinkFlaps
  <2>1. [wifi EXCEPT !.link = FALSE] \in Systems
    BY <1>0 DEF Systems
  <2>2. wifi' \in Systems
    BY <1>15, <2>1, NotifyType DEF LinkFlaps
  <2>3. "outside" \in Kinds /\ Use("outside")
    BY <1>15 DEF LinkFlaps, Kinds
  <2> QED
    BY <1>0, <1>1, <1>15, <2>2, <2>3, UseType DEF LinkFlaps, TypeOK
<1>16. CASE OtherNetwork
  <2>1. wifi' \in Systems
    BY <1>0, <1>16, NotifyType DEF OtherNetwork
  <2>2. "outside" \in Kinds /\ Use("outside")
    BY <1>16 DEF OtherNetwork, Kinds
  <2> QED
    BY <1>0, <1>1, <1>16, <2>1, <2>2, UseType DEF OtherNetwork, TypeOK
<1>17. CASE ScanResults
  <2>1. ui' \in Fields
    BY <1>0, <1>17 DEF ScanResults, Fields
  <2> QED
    BY <1>0, <1>1, <1>17, <2>1 DEF ScanResults, TypeOK
<1>18. CASE UNCHANGED vars
  BY <1>0, <1>1, <1>18 DEF vars, TypeOK
<1> QED
  BY <1>2, <1>3, <1>4, <1>5, <1>6, <1>7, <1>8, <1>9, <1>10, <1>11, <1>12, <1>13, <1>14,
     <1>15, <1>16, <1>17, <1>18 DEF Next, CallStep

\* Every value stays of its type, whatever the threads, the user and the system
\* do.
THEOREM AgingTypes == Spec => []TypeOK
  BY TypeInit, TypeNext, PTL DEF Spec

-----------------------------------------------------------------------------
(* The counts. *)

Keys == {"success", "fail"}

\* Callbacks belong to the new interface, and one that has read a count is about
\* to commit more than the preferences hold now, a reset in between included,
\* and no more than was ever counted.
CallInv ==
    /\ call # Idle => wifi.api = "new"
    /\ counted.since <= counted.all
    /\ call.at = "commit" =>
         /\ call.value > prefs[call.key]
         /\ \A k \in Keys \ {call.key} : call.value + prefs[k] <= counted.all + 1

CountInv == CallInv /\ CountsSinceReset

\* The numbers behind Count.
LEMMA CountFacts ==
    ASSUME TypeOK
    PROVE  /\ prefs.success \in Nat /\ prefs.fail \in Nat
           /\ counted.all \in Nat /\ counted.since \in Nat
           /\ call.value \in Nat /\ call.key \in Keys
  BY DEF TypeOK, Keys

LEMMA CountInit == Init => CountInv
<1> SUFFICES ASSUME Init PROVE CountInv
  OBVIOUS
<1>1. PICK past \in Past : prefs = [success |-> past, fail |-> 0]
                           /\ counted = [all |-> past, since |-> past]
  BY DEF Init
<1>2. past \in Nat /\ call = Idle
  BY AgingAssumption DEF Init
<1> QED
  BY <1>1, <1>2 DEF CountInv, CallInv, CountsSinceReset, Count, Idle

\* What a step may do to the counts: nothing, forget them, count one, or read or
\* commit one of them in a callback.
LEMMA CountMoves ==
    ASSUME TypeOK, [Next]_vars
    PROVE  /\ wifi'.api = wifi.api
           /\ \/ UNCHANGED <<prefs, counted, call>>
              \/ /\ UNCHANGED <<prefs, counted>>
                 /\ call'.at # "commit"
                 /\ call' # Idle => wifi.api = "new" \/ call # Idle
              \/ CallReads
              \/ CallCommits
              \/ /\ prefs' = [success |-> 0, fail |-> 0]
                 /\ counted' = [counted EXCEPT !.since = 0]
                 /\ UNCHANGED call
              \/ /\ wifi.api = "old" /\ UNCHANGED call
                 /\ prefs' = Saved
                 /\ counted' = [all |-> counted.all + 1, since |-> counted.since + 1]
<1>0. wifi \in Systems
  BY DEF TypeOK, Systems
<1>1. CASE PressSwitch
  BY <1>1 DEF PressSwitch
<1>2. ASSUME NEW n \in Targets, PressTest(n)
      PROVE  UNCHANGED <<prefs, counted, call, wifi>>
  BY <1>2 DEF PressTest
<1>3. CASE PressReset
  BY <1>3 DEF PressReset
<1>4. CASE Resume
  BY <1>0, <1>4 DEF Resume, Systems
<1>5. CASE HandleMessage
  BY <1>5 DEF HandleMessage
<1>6. ASSUME NEW l \in Loops, LoopStep(l)
      PROVE  UNCHANGED <<prefs, counted, call, wifi>>
  BY <1>6 DEF LoopStep, LoopTop, LoopSleeps, LoopLooks, LoopCounts
<1>7. CASE SaveOnMain
  <2>1. wifi'.api = wifi.api
    BY <1>0, <1>7 DEF SaveOnMain, Systems
  <2> QED
    BY <1>7, <2>1 DEF SaveOnMain
<1>8. CASE CallLooks
  <2>1. wifi'.api = wifi.api
    BY <1>0, <1>8 DEF CallLooks, Systems
  <2>2. call'.at # "commit"
    BY <1>8 DEF CallLooks, Idle
  <2> QED
    BY <1>8, <2>1, <2>2 DEF CallLooks
<1>9. CASE CallReads \/ CallCommits
  BY <1>9 DEF CallReads, CallCommits
<1>10. ASSUME NEW b \in BOOLEAN, SetWifi(b)
       PROVE  wifi'.api = wifi.api /\ UNCHANGED <<prefs, counted, call>>
  <2>1. Radio(b) \in Systems /\ Radio(b).api = wifi.api
    BY <1>0 DEF Radio, Systems
  <2> QED
    BY <1>10, <2>1, NotifyType DEF SetWifi
<1>11. CASE LinkUp
  <2>1. [wifi EXCEPT !.link = TRUE] \in Systems /\ [wifi EXCEPT !.link = TRUE].api = wifi.api
    BY <1>0, <1>11 DEF LinkUp, Systems
  <2> QED
    BY <1>11, <2>1, NotifyType DEF LinkUp
<1>12. CASE LinkFlaps
  <2>1. [wifi EXCEPT !.link = FALSE] \in Systems /\ [wifi EXCEPT !.link = FALSE].api = wifi.api
    BY <1>0 DEF Systems
  <2> QED
    BY <1>12, <2>1, NotifyType DEF LinkFlaps
<1>13. CASE OtherNetwork
  BY <1>0, <1>13, NotifyType DEF OtherNetwork
<1>14. CASE ScanResults \/ UNCHANGED vars
  BY <1>14 DEF ScanResults, vars
<1>15. CASE CallMarks
  <2>1. call'.at = "read" /\ UNCHANGED <<prefs, counted, wifi>>
    BY <1>15 DEF CallMarks, TypeOK
  <2>2. call # Idle
    BY <1>15 DEF CallMarks, Idle
  <2> QED
    BY <2>1, <2>2
<1> QED
  BY <1>1, <1>2, <1>3, <1>4, <1>5, <1>6, <1>7, <1>8, <1>9, <1>10, <1>11, <1>12, <1>13,
     <1>14, <1>15 DEF Next, CallStep

LEMMA CountNext == TypeOK /\ CountInv /\ [Next]_vars => CountInv'
<1> SUFFICES ASSUME TypeOK, CountInv, [Next]_vars PROVE CountInv'
  OBVIOUS
<1>0. wifi'.api = wifi.api
  BY CountMoves
<1>1. /\ call # Idle => wifi.api = "new"
      /\ counted.since <= counted.all
      /\ counted.since <= Count /\ Count <= counted.all
      /\ wifi.api = "old" => Count = counted.since
  BY DEF CountInv, CallInv, CountsSinceReset
<1>2. CASE UNCHANGED <<prefs, counted, call>>
  BY <1>0, <1>2 DEF CountInv, CallInv, CountsSinceReset, Count
<1>3. CASE /\ UNCHANGED <<prefs, counted>> /\ call'.at # "commit"
           /\ call' # Idle => wifi.api = "new" \/ call # Idle
  BY <1>0, <1>1, <1>3 DEF CountInv, CallInv, CountsSinceReset, Count
<1>4. CASE CallReads
  <2>1. /\ call'.value = prefs[call.key] + 1 /\ call'.key = call.key
        /\ call # Idle /\ UNCHANGED <<prefs, counted>>
    BY <1>4 DEF CallReads, TypeOK, Idle
  <2>2. \A k \in Keys \ {call.key} : prefs[call.key] + prefs[k] = Count
    BY CountFacts DEF Keys, Count
  <2>3. prefs[call.key] \in Nat
    BY CountFacts DEF Keys
  <2>4. \A k \in Keys \ {call'.key} : call'.value + prefs[k] <= counted.all + 1
    BY <1>1, <2>1, <2>2, <2>3, CountFacts DEF Keys
  <2>5. CallInv'
    BY <1>0, <1>1, <2>1, <2>3, <2>4 DEF CallInv
  <2> QED
    BY <1>0, <1>1, <2>1, <2>5 DEF CountInv, CountsSinceReset, Count
<1>5. CASE CallCommits
  <2>1. /\ call.at = "commit" /\ call' = Idle /\ call # Idle
        /\ prefs' = [prefs EXCEPT ![call.key] = call.value]
        /\ counted'.all = counted.all + 1 /\ counted'.since = counted.since + 1
    BY <1>5 DEF CallCommits, Idle
  <2>2. PICK k \in Keys \ {call.key} : TRUE
    BY CountFacts DEF Keys
  <2>3. /\ prefs'[call.key] = call.value /\ prefs'[k] = prefs[k]
        /\ Count' = call.value + prefs[k] /\ Count = prefs[call.key] + prefs[k]
        /\ prefs[call.key] \in Nat /\ prefs[k] \in Nat
    <3>1. prefs'[call.key] = call.value /\ prefs'[k] = prefs[k]
      BY <2>1, <2>2, CountFacts DEF Keys, TypeOK
    <3>2. \/ call.key = "success" /\ k = "fail"
          \/ call.key = "fail" /\ k = "success"
      BY <2>2, CountFacts DEF Keys
    <3> QED
      BY <3>1, <3>2, CountFacts DEF Count
  <2>4. call.value > prefs[call.key] /\ call.value + prefs[k] <= counted.all + 1
    BY <2>1, <2>2 DEF CountInv, CallInv
  <2>5. counted'.since <= Count' /\ Count' <= counted'.all
    BY <1>1, <2>1, <2>3, <2>4, CountFacts
  <2>6. wifi.api = "new" /\ counted'.since <= counted'.all
    BY <1>1, <2>1, CountFacts
  <2> QED
    BY <1>0, <2>1, <2>5, <2>6 DEF CountInv, CallInv, CountsSinceReset, Idle
<1>6. CASE /\ prefs' = [success |-> 0, fail |-> 0]
           /\ counted' = [counted EXCEPT !.since = 0]
           /\ UNCHANGED call
  <2>1. /\ prefs'.success = 0 /\ prefs'.fail = 0
        /\ counted'.since = 0 /\ counted'.all = counted.all
    BY <1>6 DEF TypeOK
  <2>2. CountsSinceReset'
    BY <1>0, <2>1, CountFacts DEF CountsSinceReset, Count
  <2>3. call.at = "commit" => /\ call.value > prefs[call.key]
                              /\ \A k \in Keys \ {call.key} : call.value + prefs[k] <= counted.all + 1
    BY DEF CountInv, CallInv
  <2>4. call.at = "commit" => /\ call.value > prefs'[call.key]
                              /\ \A k \in Keys \ {call.key} : call.value + prefs'[k] <= counted.all + 1
    BY <2>1, <2>3, CountFacts DEF Keys
  <2> QED
    BY <1>0, <1>1, <1>6, <2>1, <2>2, <2>4, CountFacts DEF CountInv, CallInv
<1>7. CASE /\ wifi.api = "old" /\ UNCHANGED call
           /\ prefs' = Saved
           /\ counted' = [all |-> counted.all + 1, since |-> counted.since + 1]
  <2>1. Count' = Count + 1
    <3>1. prefs \in [success : Nat, fail : Nat]
      BY DEF TypeOK
    <3>2. \/ prefs'.success = prefs.success + 1 /\ prefs'.fail = prefs.fail
          \/ prefs'.success = prefs.success /\ prefs'.fail = prefs.fail + 1
      BY <1>7, <3>1 DEF Saved
    <3> QED
      BY <3>2, CountFacts DEF Count
  <2>2. call = Idle
    BY <1>1, <1>7
  <2> QED
    BY <1>0, <1>1, <1>7, <2>1, <2>2, CountFacts DEF CountInv, CallInv, CountsSinceReset, Idle, Count
<1> QED
  BY <1>2, <1>3, <1>4, <1>5, <1>6, <1>7, CountMoves

\* The counts in the preferences are those since the last reset, for any number of
\* connections, resets and callbacks: none is lost, and since N none appears that
\* was not counted once.
THEOREM CountsHold == Spec => []CountsSinceReset
<1>1. CountInv => CountsSinceReset
  BY DEF CountInv
<1> QED
  BY <1>1, TypeInit, TypeNext, CountInit, CountNext, PTL DEF Spec

-----------------------------------------------------------------------------
(* The switch. *)

LEMMA ClickForgets ==
    ASSUME NEW u \in Fields
    PROVE  ~Click(u).on => ~Click(u).scan /\ ~Click(u).conn
<1>1. /\ Click(u).on = ~u.on /\ Click(u).scan = (u.scan /\ ~u.on)
      /\ Click(u).conn = (u.conn /\ ~u.on)
  BY DEF Click, Fields
<1>2. u.on \in BOOLEAN
  BY DEF Fields
<1> QED
  BY <1>1, <1>2

\* What a step may do to the switch and its memory: nothing, a click, a broadcast
\* or a scan that finds it on, or a callback's mark.
LEMMA SwitchMoves ==
    ASSUME TypeOK, [Next]_vars
    PROVE  \/ ui'.on = ui.on /\ ui'.scan = ui.scan /\ ui'.conn = ui.conn
           \/ \E u \in Fields : ui' = Click(u) /\ (u.on \/ PressSwitch \/ HandleMessage)
           \/ /\ ui.on \/ (call.at = "mark" /\ ui'.scan = ui.scan)
              /\ ui'.on = ui.on /\ (ui.scan => ui'.scan) /\ (ui.conn => ui'.conn)
<1>0. ui \in Fields
  BY DEF TypeOK
<1>1. CASE PressSwitch
  BY <1>0, <1>1 DEF PressSwitch
<1>2. ASSUME NEW n \in Targets, PressTest(n)
      PROVE  ui'.on = ui.on /\ ui'.scan = ui.scan /\ ui'.conn = ui.conn
  BY <1>0, <1>2 DEF PressTest, Fields
<1>3. CASE PressReset
  <2> DEFINE u == [ui EXCEPT !.target = 0, !.start = FALSE]
  <2>1. u \in Fields /\ u.on = ui.on /\ u.scan = ui.scan /\ u.conn = ui.conn
    BY <1>0 DEF Fields
  <2>2. ui' = u \/ (ui' = Click(u) /\ u.on)
    BY <1>3 DEF PressReset
  <2> HIDE DEF u
  <2> QED
    BY <2>1, <2>2
<1>4. CASE Resume
  BY <1>0, <1>4 DEF Resume, Fields
<1>5. CASE HandleMessage
  <2>1. ui' = Stop(ui) \/ ui' = Click(ui) \/ ui' = ui
    BY <1>5 DEF HandleMessage
  <2>2. Stop(ui).on = ui.on /\ Stop(ui).scan = ui.scan /\ Stop(ui).conn = ui.conn
    BY <1>0 DEF Stop, Fields
  <2> QED
    BY <1>0, <1>5, <2>1, <2>2
<1>6. ASSUME NEW l \in Loops, LoopStep(l) PROVE UNCHANGED ui
  BY <1>6 DEF LoopStep, LoopTop, LoopSleeps, LoopLooks, LoopCounts
<1>7. CASE SaveOnMain
  BY <1>0, <1>7 DEF SaveOnMain, Fields
<1>8. CASE CallLooks \/ CallReads \/ CallCommits
  BY <1>8 DEF CallLooks, CallReads, CallCommits
<1>9. CASE CallMarks
  BY <1>0, <1>9 DEF CallMarks, Fields
<1>10. ASSUME NEW b \in BOOLEAN, SetWifi(b) PROVE UNCHANGED ui
  BY <1>10 DEF SetWifi
<1>11. CASE LinkUp \/ LinkFlaps \/ OtherNetwork \/ UNCHANGED vars
  BY <1>11 DEF LinkUp, LinkFlaps, OtherNetwork, vars
<1>12. CASE ScanResults
  BY <1>0, <1>12 DEF ScanResults, Fields
<1> QED
  BY <1>1, <1>2, <1>3, <1>4, <1>5, <1>6, <1>7, <1>8, <1>9, <1>10, <1>11, <1>12
     DEF Next, CallStep

LEMMA OffNext == TypeOK /\ CountInv /\ OffForgets /\ [Next]_vars => OffForgets'
<1> SUFFICES ASSUME TypeOK, CountInv, OffForgets, [Next]_vars PROVE OffForgets'
  OBVIOUS
<1>0. wifi'.api = wifi.api
  BY CountMoves
<1>1. CASE ui'.on = ui.on /\ ui'.scan = ui.scan /\ ui'.conn = ui.conn
  BY <1>0, <1>1 DEF OffForgets
<1>2. ASSUME NEW u \in Fields, ui' = Click(u) PROVE OffForgets'
  BY <1>2, ClickForgets DEF OffForgets
<1>3. CASE ui.on /\ ui'.on = ui.on
  BY <1>3 DEF OffForgets
<1>4. CASE call.at = "mark" /\ ui'.on = ui.on /\ ui'.scan = ui.scan
  <2>1. wifi.api = "new"
    BY <1>4 DEF CountInv, CallInv, Idle
  <2> QED
    BY <1>0, <1>4, <2>1 DEF OffForgets
<1> QED
  BY <1>1, <1>2, <1>3, <1>4, SwitchMoves

\* A switch that is off has forgotten the scan, and before N the connection, in
\* every order of clicks, scans, broadcasts and callbacks.
THEOREM SwitchForgets == Spec => []OffForgets
<1>1. Init => OffForgets
  BY DEF Init, OffForgets
<1> QED
  BY <1>1, TypeInit, TypeNext, CountInit, CountNext, OffNext, PTL DEF Spec

-----------------------------------------------------------------------------
(* The clicks of the test. *)

\* Nobody has pressed the switch, and every test had its thread for itself.
Calm == left["switch"] = Budget["switch"] /\ ~crowded

\* Without a second thread there is one at most, and with ten seconds enough it
\* has nothing of its own waiting when it looks.
AloneInv ==
    ~crowded => /\ \A l, m \in Loops : loop[l] # "none" /\ loop[m] # "none" => l = m
                /\ \A l \in Loops : loop[l] = "awake" => queue = <<>>

\* A request for a click is the first message, and one that would switch Wi-Fi
\* off was made after it had connected and scanned.
DueInv ==
    /\ left["switch"] <= Budget["switch"]
    /\ Calm => \A i \in 1 .. Len(queue) :
                   queue[i] = "WIFI_SWITCH" => i = 1 /\ (ui.on => ui.conn /\ ui.scan)

\* What a step may do to the messages.
LEMMA QueueMoves ==
    ASSUME TypeOK, [Next]_vars
    PROVE  \/ UNCHANGED queue
           \/ HandleMessage
           \/ UNCHANGED ui /\ (\E l \in Loops : loop[l] = "awake") /\ ClickDue
              /\ queue' = Append(queue, "WIFI_SWITCH")
           \/ UNCHANGED ui /\ queue' = Append(queue, "WIFI_TEST_STOP")
<1>1. ASSUME NEW n \in Targets, PressTest(n) PROVE UNCHANGED queue
  BY <1>1 DEF PressTest
<1>2. ASSUME NEW l \in Loops, LoopStep(l)
      PROVE  \/ UNCHANGED queue
             \/ UNCHANGED ui /\ loop[l] = "awake" /\ ClickDue
                /\ queue' = Append(queue, "WIFI_SWITCH")
             \/ UNCHANGED ui /\ queue' = Append(queue, "WIFI_TEST_STOP")
  BY <1>2 DEF LoopStep, LoopTop, LoopSleeps, LoopLooks, LoopCounts
<1>3. ASSUME NEW b \in BOOLEAN, SetWifi(b) PROVE UNCHANGED queue
  BY <1>3 DEF SetWifi
<1>4. CASE PressSwitch \/ PressReset \/ Resume \/ SaveOnMain \/ CallStep
  BY <1>4 DEF PressSwitch, PressReset, Resume, SaveOnMain, CallStep, CallLooks, CallMarks,
     CallReads, CallCommits
<1>5. CASE LinkUp \/ LinkFlaps \/ OtherNetwork \/ ScanResults \/ UNCHANGED vars
  BY <1>5 DEF LinkUp, LinkFlaps, OtherNetwork, ScanResults, vars
<1> QED
  BY <1>1, <1>2, <1>3, <1>4, <1>5 DEF Next

\* What a step may do to the threads: nothing, with no new message; a new thread
\* beside others, or where there was none; a step of one of them.
LEMMA LoopMoves ==
    ASSUME [Next]_vars
    PROVE  \/ UNCHANGED <<loop, crowded>> /\ (UNCHANGED queue \/ HandleMessage)
           \/ /\ crowded' = (crowded \/ \E l \in Loops : loop[l] # "none")
              /\ \E l \in Loops : loop' = [loop EXCEPT ![l] = "top"]
              /\ UNCHANGED queue
           \/ UNCHANGED crowded /\ \E l \in Loops : LoopStep(l)
<1>1. ASSUME NEW n \in Targets, PressTest(n)
      PROVE  \/ UNCHANGED <<loop, crowded, queue>>
             \/ /\ crowded' = (crowded \/ \E l \in Loops : loop[l] # "none")
                /\ \E l \in Loops : loop' = [loop EXCEPT ![l] = "top"]
                /\ UNCHANGED queue
  BY <1>1 DEF PressTest
<1>2. ASSUME NEW l \in Loops, LoopStep(l) PROVE UNCHANGED crowded
  BY <1>2 DEF LoopStep, LoopTop, LoopSleeps, LoopLooks, LoopCounts
<1>3. ASSUME NEW b \in BOOLEAN, SetWifi(b) PROVE UNCHANGED <<loop, crowded, queue>>
  BY <1>3 DEF SetWifi
<1>4. CASE PressSwitch \/ PressReset \/ Resume \/ SaveOnMain \/ CallStep
  BY <1>4 DEF PressSwitch, PressReset, Resume, SaveOnMain, CallStep, CallLooks, CallMarks,
     CallReads, CallCommits
<1>5. CASE LinkUp \/ LinkFlaps \/ OtherNetwork \/ ScanResults \/ UNCHANGED vars
  BY <1>5 DEF LinkUp, LinkFlaps, OtherNetwork, ScanResults, vars
<1>6. CASE HandleMessage
  BY <1>6 DEF HandleMessage
<1> QED
  BY <1>1, <1>2, <1>3, <1>4, <1>5, <1>6 DEF Next

LEMMA AloneNext ==
    ASSUME Prompt, TypeOK, AloneInv, [Next]_vars
    PROVE  AloneInv'
<1>0. loop \in [Loops -> {"none", "top", "sleep", "awake", "count"}] /\ crowded \in BOOLEAN
      /\ queue \in Seq({"WIFI_SWITCH", "WIFI_TEST_STOP"})
  BY DEF TypeOK
<1>1. CASE UNCHANGED <<loop, crowded>> /\ (UNCHANGED queue \/ HandleMessage)
  <2>1. queue = <<>> => queue' = queue
    BY <1>1 DEF HandleMessage
  <2> QED
    BY <1>1, <2>1 DEF AloneInv
<1>2. ASSUME NEW l \in Loops, loop' = [loop EXCEPT ![l] = "top"], UNCHANGED queue,
             crowded' = (crowded \/ \E m \in Loops : loop[m] # "none")
      PROVE  AloneInv'
  <2>1. ~crowded' => \A m \in Loops : loop[m] = "none"
    BY <1>2
  <2>2. ~crowded' => \A m \in Loops : m # l => loop'[m] = "none"
    BY <1>0, <1>2, <2>1
  <2>3. loop'[l] = "top"
    BY <1>0, <1>2
  <2> QED
    BY <2>2, <2>3 DEF AloneInv
<1>3. ASSUME NEW l \in Loops, LoopStep(l), UNCHANGED crowded PROVE AloneInv'
  <2>1. /\ loop[l] # "none"
        /\ \E at \in {"none", "top", "sleep", "awake", "count"} : loop' = [loop EXCEPT ![l] = at]
    BY <1>3 DEF LoopStep, LoopTop, LoopSleeps, LoopLooks, LoopCounts
  <2>2. \A m \in Loops : m # l => loop'[m] = loop[m]
    BY <1>0, <2>1
  <2>3. loop'[l] = "awake" => queue' = <<>>
    BY <1>0, <1>3 DEF LoopStep, LoopTop, LoopSleeps, LoopLooks, LoopCounts, Quiet
  <2>4. ~crowded => \A m \in Loops : m # l => loop[m] = "none"
    BY <2>1 DEF AloneInv
  <2> QED
    BY <1>3, <2>2, <2>3, <2>4 DEF AloneInv
<1> QED
  BY <1>1, <1>2, <1>3, LoopMoves

\* Presses of the switch are used up by pressing it, and do not come back; nor does
\* a second thread.
LEMMA CalmMoves ==
    ASSUME TypeOK, [Next]_vars, left["switch"] <= Budget["switch"]
    PROVE  /\ left'["switch"] <= Budget["switch"]
           /\ Calm' => Calm /\ ~PressSwitch
<1>0. left \in [Kinds -> Nat] /\ Budget["switch"] \in Nat /\ left["switch"] \in Nat
  BY AgingAssumption DEF TypeOK, Kinds
<1>1. crowded => crowded'
  <2>1. crowded' = crowded \/ crowded' = (crowded \/ \E l \in Loops : loop[l] # "none")
    BY LoopMoves
  <2> QED
    BY <2>1
<1>2. ASSUME NEW kind \in Kinds, kind # "switch", Use(kind)
      PROVE  left'["switch"] = left["switch"]
  BY <1>0, <1>2 DEF Use, Kinds
<1>3. PressSwitch => left'["switch"] = left["switch"] - 1
  BY <1>0 DEF PressSwitch, Use, Kinds
<1>4. ASSUME NEW n \in Targets, PressTest(n) PROVE left'["switch"] = left["switch"]
  <2>1. Use("test")
    BY <1>4 DEF PressTest
  <2> QED
    BY <1>2, <2>1 DEF Kinds
<1>5. CASE PressReset \/ Resume \/ LinkFlaps \/ OtherNetwork
  <2>1. Use("reset") \/ Use("resume") \/ Use("outside")
    BY <1>5 DEF PressReset, Resume, LinkFlaps, OtherNetwork
  <2>2. left'["switch"] = left["switch"]
    BY <1>2, <2>1 DEF Kinds
  <2> QED
    BY <1>0, <1>1, <1>3, <2>2 DEF Calm
<1>6. ASSUME NEW l \in Loops, LoopStep(l) PROVE UNCHANGED left
  BY <1>6 DEF LoopStep, LoopTop, LoopSleeps, LoopLooks, LoopCounts
<1>7. ASSUME NEW b \in BOOLEAN, SetWifi(b) PROVE UNCHANGED left
  BY <1>7 DEF SetWifi
<1>8. CASE HandleMessage \/ SaveOnMain \/ CallStep \/ LinkUp \/ ScanResults \/ UNCHANGED vars
  <2>1. UNCHANGED left
    BY <1>8 DEF HandleMessage, SaveOnMain, CallStep, CallLooks, CallMarks, CallReads,
       CallCommits, LinkUp, ScanResults, vars
  <2> QED
    BY <1>0, <1>1, <1>3, <2>1 DEF Calm
<1>9. CASE UNCHANGED left \/ left'["switch"] = left["switch"]
  BY <1>0, <1>1, <1>3, <1>9 DEF Calm
<1>10. CASE PressSwitch
  BY <1>0, <1>3, <1>10 DEF Calm
<1> QED
  BY <1>4, <1>5, <1>6, <1>7, <1>8, <1>9, <1>10 DEF Next

LEMMA DueNext ==
    ASSUME TypeOK, AloneInv, DueInv, [Next]_vars
    PROVE  /\ DueInv'
           /\ Calm /\ queue' # queue /\ ui.on /\ ~ui'.on => ui.conn /\ ui.scan
<1>0. /\ ui \in Fields /\ queue \in Seq({"WIFI_SWITCH", "WIFI_TEST_STOP"})
      /\ left'["switch"] <= Budget["switch"] /\ (Calm' => Calm /\ ~PressSwitch)
  BY CalmMoves DEF DueInv, TypeOK
<1> DEFINE Due == \A i \in 1 .. Len(queue) :
                      queue[i] = "WIFI_SWITCH" => i = 1 /\ (ui.on => ui.conn /\ ui.scan)
<1>a. Calm => Due
  BY DEF DueInv
<1>b. SUFFICES /\ Due /\ ~PressSwitch => Due'
               /\ Due /\ queue' # queue /\ ui.on /\ ~ui'.on => ui.conn /\ ui.scan
               \/ ~Calm
  <2>1. CASE ~Calm
    BY <1>0, <2>1 DEF DueInv
  <2>2. CASE Calm
    BY <1>0, <1>a, <1>b, <2>2 DEF DueInv
  <2> QED
    BY <2>1, <2>2
<1>1. CASE UNCHANGED queue /\ ~HandleMessage
  <2>1. ~PressSwitch /\ (ui.on => ui.conn /\ ui.scan) => (ui'.on => ui'.conn /\ ui'.scan)
    <3>1. ASSUME NEW u \in Fields, ui' = Click(u), u.on PROVE ~ui'.on
      BY <3>1 DEF Click, Fields
    <3> QED
      BY <1>0, <1>1, <3>1, SwitchMoves
  <2> QED
    BY <1>0, <1>1, <2>1
<1>2. CASE HandleMessage
  <2>1. /\ queue # <<>> /\ queue' = Tail(queue)
        /\ \/ Head(queue) = "WIFI_SWITCH"
           \/ ui' = Stop(ui) \/ ui' = ui
    <3>1. queue # <<>> => Head(queue) \in {"WIFI_SWITCH", "WIFI_TEST_STOP"}
      BY <1>0
    <3> QED
      BY <1>2, <3>1 DEF HandleMessage
  <2>2. Due => \A i \in 1 .. Len(queue') : queue'[i] # "WIFI_SWITCH"
    BY <1>0, <2>1
  <2>3. Stop(ui).on = ui.on
    BY <1>0 DEF Stop, Fields
  <2>4. Due /\ Head(queue) = "WIFI_SWITCH" => (ui.on => ui.conn /\ ui.scan)
    BY <1>0, <2>1
  <2> QED
    BY <1>0, <2>1, <2>2, <2>3, <2>4
<1>3. CASE /\ UNCHANGED ui /\ (\E l \in Loops : loop[l] = "awake") /\ ClickDue
           /\ queue' = Append(queue, "WIFI_SWITCH")
  <2>1. CASE Calm
    <3>1. queue = <<>>
      BY <1>3, <2>1 DEF AloneInv, Calm
    <3>2. Len(queue') = 1 /\ (ui.on => ui.conn /\ ui.scan)
      BY <1>0, <1>3, <3>1 DEF ClickDue, Fields
    <3> QED
      BY <1>0, <1>3, <3>2
  <2> QED
    BY <2>1
<1>4. CASE UNCHANGED ui /\ queue' = Append(queue, "WIFI_TEST_STOP")
  BY <1>0, <1>4
<1> QED
  BY <1>1, <1>2, <1>3, <1>4, QueueMoves

\* With ten seconds enough for what is under way when they begin: for any number of
\* tests, resets, returns and networks, until the switch is pressed or a test is
\* started beside the thread of an older one, the test switches Wi-Fi off only when
\* it has connected and scanned.
THEOREM OffIsEarned ==
    ASSUME Prompt
    PROVE  Spec => AutomaticOffEarned
<1>1. Init => AloneInv /\ DueInv
  <2>1. ASSUME Init PROVE AloneInv /\ DueInv
    <3>1. left = Budget /\ queue = <<>> /\ loop = [l \in Loops |-> "none"]
          /\ Budget["switch"] \in Nat
      BY <2>1, AgingAssumption DEF Init, Kinds
    <3> QED
      BY <3>1 DEF AloneInv, DueInv
  <2> QED
    BY <2>1
<1>2. TypeOK /\ AloneInv /\ DueInv /\ [Next]_vars
      => /\ AloneInv' /\ DueInv'
         /\ [/\ left["switch"] = Budget["switch"] /\ ~crowded
             /\ queue' # queue /\ ui.on /\ ~ui'.on
             => ui.conn /\ ui.scan]_vars
  BY DueNext, AloneNext DEF Calm
<1> QED
  BY <1>1, <1>2, TypeInit, TypeNext, PTL DEF Spec, AutomaticOffEarned
==============================================================================
