-------------------------- MODULE RebootLoopProofs --------------------------
(***************************************************************************)
(* RebootLoop keeps its promises for every length of the countdown and any *)
(* number of presses, chains and failing reboot commands.                  *)
(*                                                                         *)
(* The inductive invariant follows what the receiver read at the boot: the *)
(* extra of the intent, the dialog and the countdown exist only in a       *)
(* session that began with the switch on, and a device that is down has    *)
(* none of them.                                                           *)
(***************************************************************************)
EXTENDS RebootLoop, TLAPS

\* The countdown and what leads to it exist only after a boot with the switch on.
OnlyThere ==
    /\ activity.boot => bootedOn
    /\ timer.chains > 0 => bootedOn

\* A device that is down has lost all but the preference.
DownForgets == device = "down" => activity = Gone /\ timer = Stopped /\ dialog = FALSE

\* A boot with the switch on is the only start of a countdown; a dialog has one.
IInv == TypeOK /\ ShownCounts /\ OnlyThere /\ DownForgets

\* countDownTimerDialog, in an activity that has the extra only if the device was
\* booted with the switch on, keeps the parts of the invariant it can disturb.
LEMMA DialogKeeps ==
    ASSUME IInv,
           NEW a \in [at : {"none", "front", "back"}, boot : BOOLEAN, open : BOOLEAN],
           NEW on \in BOOLEAN, a.boot => on, timer.chains > 0 => on,
           CountDownTimerDialog(a)
    PROVE  /\ dialog' \in BOOLEAN
           /\ timer' \in [chains : 0 .. MaxChains, togo : 0 .. Ticks]
           /\ ShownCounts'
           /\ timer'.chains > 0 => on
<1>1. timer \in [chains : 0 .. MaxChains, togo : 0 .. Ticks] /\ dialog \in BOOLEAN
  BY DEF IInv, TypeOK
<1>2. CASE MayCount(a)
  <2>1. /\ dialog' = TRUE /\ timer.chains < MaxChains
        /\ timer' = [chains |-> timer.chains + 1, togo |-> Ticks]
    BY <1>2 DEF CountDownTimerDialog
  <2>2. timer.chains + 1 \in 0 .. MaxChains /\ Ticks \in 0 .. Ticks /\ timer.chains + 1 > 0
    BY <1>1, <2>1, RebootAssumption
  <2>3. timer'.chains = timer.chains + 1
    BY <2>1
  <2>4. on
    BY <1>2 DEF MayCount
  <2> QED  BY <2>1, <2>2, <2>3, <2>4 DEF ShownCounts
<1>3. CASE ~MayCount(a)
  BY <1>1, <1>3 DEF CountDownTimerDialog, IInv, ShownCounts
<1> QED  BY <1>2, <1>3

LEMMA InitInv == Init => IInv
<1> SUFFICES ASSUME Init PROVE IInv
  OBVIOUS
<1>1. /\ Gone \in [at : {"none", "front", "back"}, boot : BOOLEAN, open : BOOLEAN]
      /\ Gone.boot = FALSE
  BY DEF Gone
<1>2. /\ Stopped \in [chains : 0 .. MaxChains, togo : 0 .. Ticks]
      /\ Stopped.chains = 0
  BY RebootAssumption DEF Stopped
<1>3. left \in [presses : 0 .. MaxPresses, refusals : 0 .. MaxRefusals]
  BY RebootAssumption DEF Init
<1>4. TypeOK
  BY <1>1, <1>2, <1>3 DEF Init, TypeOK
<1> QED  BY <1>1, <1>2, <1>4 DEF Init, IInv, ShownCounts, OnlyThere, DownForgets

LEMMA NextInv == IInv /\ [Next]_vars => IInv'
<1> SUFFICES ASSUME IInv, [Next]_vars PROVE IInv'
  OBVIOUS
<1> DEFINE Timers == [chains : 0 .. MaxChains, togo : 0 .. Ticks]
           Lefts  == [presses : 0 .. MaxPresses, refusals : 0 .. MaxRefusals]
           Acts   == [at : {"none", "front", "back"}, boot : BOOLEAN, open : BOOLEAN]
<1>t. /\ device \in {"up", "going", "down"} /\ reboot \in BOOLEAN /\ activity \in Acts
      /\ dialog \in BOOLEAN /\ wifi \in BOOLEAN /\ bootedOn \in BOOLEAN
      /\ timer \in Timers /\ left \in Lefts
  BY DEF IInv, TypeOK
<1>l. \A l : l = [left EXCEPT !.presses = @ - 1] /\ left.presses > 0 => l \in Lefts
  BY <1>t, RebootAssumption
<1>r. \A l : l = [left EXCEPT !.refusals = @ - 1] /\ left.refusals > 0 => l \in Lefts
  BY <1>t, RebootAssumption
<1>p. Press => left' \in Lefts /\ device # "down"
  BY <1>l DEF Press, Running
<1>f. RebootFunc /\ device # "down" => left' \in Lefts /\ device' \in {"up", "going"}
  BY <1>t, <1>r DEF RebootFunc
<1>z. Gone \in Acts /\ Stopped \in Timers /\ Gone.boot = FALSE /\ Stopped.chains = 0
  BY RebootAssumption DEF Gone, Stopped
<1>1. CASE Tick
  <2>1. /\ timer' = [timer EXCEPT !.togo = @ - 1] /\ timer.togo > 0
        /\ UNCHANGED <<device, reboot, activity, dialog, wifi, bootedOn, left>>
        /\ device # "down"
    BY <1>1 DEF Tick, Running
  <2>2. timer' \in Timers /\ timer'.chains = timer.chains
    BY <1>t, <2>1, RebootAssumption
  <2> QED  BY <2>1, <2>2 DEF IInv, TypeOK, ShownCounts, OnlyThere, DownForgets
<1>2. CASE OnFinish
  <2>1. /\ timer' = [timer EXCEPT !.chains = @ - 1] /\ timer.chains > 0 /\ dialog' = FALSE
        /\ UNCHANGED <<reboot, activity, wifi, bootedOn>>
        /\ device # "down" /\ RebootFunc
    BY <1>2 DEF OnFinish, Running
  <2>2. timer' \in Timers
    BY <1>t, <2>1, RebootAssumption
  <2> QED  BY <1>f, <2>1, <2>2
           DEF IInv, TypeOK, ShownCounts, OnlyThere, DownForgets
<1>3. CASE Confirm
  <2>1. /\ timer' = Stopped /\ dialog' = FALSE /\ UNCHANGED <<reboot, activity, wifi, bootedOn>>
        /\ device # "down" /\ RebootFunc
    BY <1>3 DEF Confirm, Running
  <2>2. timer' \in Timers /\ timer'.chains = 0
    BY <1>z, <2>1
  <2>3. ShownCounts' /\ OnlyThere'
    BY <2>1, <2>2 DEF IInv, ShownCounts, OnlyThere
  <2> QED  BY <1>f, <2>1, <2>2, <2>3 DEF IInv, TypeOK, DownForgets
<1>4. CASE CancelDialog
  <2>1. /\ timer' = Stopped /\ dialog' = FALSE /\ Press
        /\ UNCHANGED <<device, reboot, activity, wifi, bootedOn>>
    BY <1>4 DEF CancelDialog
  <2>3. timer' \in Timers /\ timer'.chains = 0
    BY <1>z, <2>1
  <2>4. ShownCounts' /\ OnlyThere'
    BY <2>1, <2>3 DEF IInv, ShownCounts, OnlyThere
  <2> QED  BY <1>p, <2>1, <2>3, <2>4 DEF IInv, TypeOK, DownForgets
<1>5. CASE BackFromDialog
  BY <1>p, <1>5
  DEF BackFromDialog, IInv, TypeOK, ShownCounts, OnlyThere, DownForgets
<1>6. CASE Switch
  <2>1. /\ Press /\ reboot' = ~reboot /\ UNCHANGED <<device, activity, wifi, bootedOn>>
        /\ CountDownTimerDialog(activity) \/ UNCHANGED <<dialog, timer>>
    BY <1>6 DEF Switch
  <2>2. dialog' \in BOOLEAN /\ timer' \in Timers /\ ShownCounts'
        /\ (timer'.chains > 0 => bootedOn)
    <3>1. CASE CountDownTimerDialog(activity)
      BY <1>t, <3>1, DialogKeeps DEF IInv, OnlyThere
    <3>2. CASE UNCHANGED <<dialog, timer>>
      BY <1>t, <3>2 DEF IInv, OnlyThere, ShownCounts
    <3> QED  BY <2>1, <3>1, <3>2
  <2> QED  BY <1>p, <2>1, <2>2 DEF IInv, TypeOK, OnlyThere, DownForgets
<1>7. CASE SwitchElsewhere
  BY <1>p, <1>7
  DEF SwitchElsewhere, IInv, TypeOK, ShownCounts, OnlyThere, DownForgets
<1>8. CASE Open
  <2>1. /\ Press /\ UNCHANGED <<device, reboot, wifi, bootedOn>>
        /\ activity' = [activity EXCEPT !.at = "front", !.open = reboot]
        /\ CountDownTimerDialog(activity) \/ UNCHANGED <<dialog, timer>>
    BY <1>8 DEF Open, Resume
  <2>2. dialog' \in BOOLEAN /\ timer' \in Timers /\ ShownCounts'
        /\ (timer'.chains > 0 => bootedOn)
    <3>1. CASE CountDownTimerDialog(activity)
      BY <1>t, <3>1, DialogKeeps DEF IInv, OnlyThere
    <3>2. CASE UNCHANGED <<dialog, timer>>
      BY <1>t, <3>2 DEF IInv, OnlyThere, ShownCounts
    <3> QED  BY <2>1, <3>1, <3>2
  <2>3. activity' \in Acts /\ activity'.boot = activity.boot
    BY <1>t, <2>1
  <2> QED  BY <1>p, <2>1, <2>2, <2>3 DEF IInv, TypeOK, OnlyThere, DownForgets
<1>9. CASE Leave
  <2>1. /\ Press /\ UNCHANGED <<device, reboot, dialog, timer, wifi, bootedOn>>
        /\ activity' = [activity EXCEPT !.at = "back"] \/ activity' = Gone
    BY <1>9 DEF Leave
  <2>2. activity' \in Acts /\ (activity'.boot => activity.boot)
    BY <1>t, <1>z, <2>1
  <2> QED  BY <1>p, <2>1, <2>2
           DEF IInv, TypeOK, ShownCounts, OnlyThere, DownForgets
<1>10. CASE ScanResults
  <2>1. /\ device # "down" /\ CountDownTimerDialog(activity)
        /\ UNCHANGED <<device, reboot, activity, wifi, bootedOn, left>>
    BY <1>10 DEF ScanResults, Running
  <2>2. dialog' \in BOOLEAN /\ timer' \in Timers /\ ShownCounts'
        /\ (timer'.chains > 0 => bootedOn)
    BY <1>t, <2>1, DialogKeeps DEF IInv, OnlyThere
  <2> QED  BY <2>1, <2>2 DEF IInv, TypeOK, OnlyThere, DownForgets
<1>11. CASE SwitchWifi
  BY <1>p, <1>11
  DEF SwitchWifi, IInv, TypeOK, ShownCounts, OnlyThere, DownForgets
<1>12. CASE Reboots \/ PowerCycle
  <2>1. GoDown /\ left' \in Lefts
    BY <1>p, <1>t, <1>12 DEF Reboots, PowerCycle
  <2>2. /\ timer' \in Timers /\ timer'.chains = 0
        /\ activity' \in Acts /\ activity'.boot = FALSE
    BY <1>z, <2>1 DEF GoDown
  <2>3. ShownCounts' /\ OnlyThere'
    BY <2>1, <2>2 DEF GoDown, ShownCounts, OnlyThere
  <2> QED  BY <2>1, <2>2, <2>3 DEF GoDown, IInv, TypeOK, DownForgets
<1>13. CASE Boot
  <2> DEFINE a == [Gone EXCEPT !.boot = TRUE]
  <2>1. /\ device = "down" /\ device' = "up" /\ bootedOn' = reboot
        /\ UNCHANGED <<reboot, wifi, left>>
    BY <1>13 DEF Boot
  <2>2. activity = Gone /\ timer = Stopped /\ dialog = FALSE
    BY <2>1 DEF IInv, DownForgets
  <2>3. a \in Acts
    BY DEF Gone
  <2>4. CASE reboot
    <3>1. activity' = [a EXCEPT !.at = "front", !.open = reboot] /\ CountDownTimerDialog(a)
      BY <1>13, <2>4 DEF Boot, Resume
    <3>2. activity' \in Acts
      BY <1>t, <2>3, <3>1
    <3>3. dialog' \in BOOLEAN /\ timer' \in Timers /\ ShownCounts'
      <4> HIDE DEF a
      <4> QED  BY <1>t, <2>3, <2>4, <3>1, DialogKeeps
    <3> QED  BY <1>t, <2>1, <2>4, <3>2, <3>3 DEF IInv, TypeOK, OnlyThere, DownForgets
  <2>5. CASE ~reboot
    <3>1. UNCHANGED <<activity, dialog, timer>>
      BY <1>13, <2>5 DEF Boot
    <3> QED  BY <1>t, <1>z, <2>1, <2>2, <3>1
             DEF IInv, TypeOK, ShownCounts, OnlyThere, DownForgets
  <2> QED  BY <2>4, <2>5
<1>14. CASE UNCHANGED vars
  BY <1>14 DEF vars, IInv, TypeOK, ShownCounts, OnlyThere, DownForgets
<1> QED
  BY <1>1, <1>2, <1>3, <1>4, <1>5, <1>6, <1>7, <1>8, <1>9, <1>10, <1>11, <1>12, <1>13, <1>14
  DEF Next

LEMMA Invariance == Spec => []IInv
BY InitInv, NextInv, PTL DEF Spec

\* Once the switch is off, the screen that a boot has opened has read that or is
\* gone, and no countdown is left, the app starts neither a countdown nor a reboot
\* until the switch is turned on: a dialog that is still up would offer one
\* (ShownCounts), and a stale isOpenReboot would begin one.
THEOREM OffStays == Spec => StaysOff
<1>1. ASSUME IInv, Next, Off, ~reboot'
      PROVE  Off' /\ ~(device = "up" /\ device' = "going")
  <2>0. /\ ~reboot /\ timer.chains = 0 /\ ~(activity.boot /\ activity.open)
        /\ reboot \in BOOLEAN /\ ~dialog
        /\ activity \in [at : {"none", "front", "back"}, boot : BOOLEAN, open : BOOLEAN]
    <3>1. timer.chains = 0 /\ dialog \in BOOLEAN
      BY <1>1 DEF Off, IInv, TypeOK
    <3>2. ~dialog
      BY <1>1, <3>1 DEF IInv, ShownCounts
    <3> QED
      BY <1>1, <3>1, <3>2 DEF Off, IInv, TypeOK
  <2>1. /\ Gone.boot = FALSE /\ Stopped.chains = 0
    BY DEF Gone, Stopped
  <2>2. ~Tick /\ ~OnFinish /\ ~Confirm /\ ~CancelDialog /\ ~BackFromDialog
    BY <2>0 DEF Tick, OnFinish, Confirm, CancelDialog, BackFromDialog
  <2>3. ~Switch /\ ~SwitchElsewhere
    BY <1>1, <2>0 DEF Switch, SwitchElsewhere
  <2>4. CASE Open
    <3>1. /\ activity' = [activity EXCEPT !.at = "front", !.open = reboot]
          /\ UNCHANGED <<device, reboot, timer>>
      BY <2>0, <2>4 DEF Open, Resume
    <3>2. activity'.open = reboot
      BY <2>0, <3>1
    <3> QED
      BY <2>0, <3>1, <3>2 DEF Off
  <2>5. CASE Leave
    <3>1. /\ activity' = [activity EXCEPT !.at = "back"] \/ activity' = Gone
          /\ UNCHANGED <<device, reboot, timer>>
      BY <2>5 DEF Leave
    <3>2. ~(activity'.boot /\ activity'.open)
      BY <2>0, <2>1, <3>1
    <3> QED
      BY <2>0, <3>1, <3>2 DEF Off
  <2>6. CASE ScanResults
    <3>1. ~MayCount(activity)
      BY <2>0, <2>6 DEF ScanResults, Asked, MayCount
    <3> QED
      BY <1>1, <2>6, <3>1 DEF ScanResults, CountDownTimerDialog, Off
  <2>7. CASE SwitchWifi
    BY <1>1, <2>7 DEF SwitchWifi, Off
  <2>8. CASE Reboots \/ PowerCycle
    BY <2>0, <2>1, <2>8 DEF Reboots, PowerCycle, GoDown, Off
  <2>9. CASE Boot
    BY <1>1, <2>0, <2>9 DEF Boot, Off
  <2> QED
    BY <1>1, <2>2, <2>3, <2>4, <2>5, <2>6, <2>7, <2>8, <2>9 DEF Next
<1>2. IInv /\ [Next]_vars
      => [Off /\ ~reboot' => Off' /\ ~(device = "up" /\ device' = "going")]_vars
  BY <1>1
<1> QED  BY <1>2, Invariance, PTL DEF Spec, StaysOff

\* The app calls rebootFunc only in a session that BootReceive began with the
\* preference set.
THEOREM RebootsOnlyAfterOnBoot == Spec => RebootsOnlyIfBootedOn
<1>1. IInv /\ [Next]_vars => [device = "up" /\ device' = "going" => bootedOn]_vars
  <2> SUFFICES ASSUME IInv, Next, device = "up", device' = "going" PROVE bootedOn
    OBVIOUS
  <2>1. CASE OnFinish
    BY <2>1 DEF OnFinish, IInv, OnlyThere
  <2>2. CASE Confirm
    BY <2>2 DEF Confirm, IInv, OnlyThere, ShownCounts
  <2> QED
    BY <2>1, <2>2 DEF Next, Tick, CancelDialog, BackFromDialog, Switch, SwitchElsewhere, Open,
       Leave, ScanResults, SwitchWifi, Reboots, PowerCycle, GoDown, Boot
<1> QED  BY <1>1, Invariance, PTL DEF Spec, RebootsOnlyIfBootedOn
=============================================================================
