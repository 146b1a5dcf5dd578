----------------------------- MODULE RebootLoop -----------------------------
(***************************************************************************)
(* The reboot test of the app: the reboot switch and the countdown dialog  *)
(* of AgingTestActivity.java, the preference that outlives the reboot, and *)
(* the receiver that opens the screen again after a boot (BootReceive).    *)
(*                                                                         *)
(* activity is the one the receiver opened after the boot, as long as it   *)
(* lives, or else one opened from the launcher; the countdown belongs to   *)
(* the former and goes on when that is stopped or destroyed. The device is *)
(* not rotated.                                                            *)
(***************************************************************************)
EXTENDS Naturals

CONSTANTS
    Ticks,          \* onTick calls of a countdown: 10000 ms in steps of 1000 ms
    MaxChains,      \* bound: message chains of the CountDownTimer
    MaxPresses,     \* bound: what the user does
    MaxRefusals     \* bound: failures of "su -c reboot"

ASSUME RebootAssumption ==
    /\ Ticks \in Nat /\ MaxChains \in Nat \ {0}
    /\ MaxPresses \in Nat /\ MaxRefusals \in Nat

VARIABLES
    device,     \* "up", "going" (reboot was started) or "down"
    reboot,     \* the preference "reboot", on disk
    activity,   \* where AgingTestActivity is, isBootReceiveStart, isOpenReboot
    dialog,     \* mDialog is shown
    timer,      \* messages of the CountDownTimer, ticks to go
    wifi,       \* isWifiEnabled
    bootedOn,   \* the preference as the receiver read it at the last boot
    left        \* presses and refusals still to come

vars == <<device, reboot, activity, dialog, timer, wifi, bootedOn, left>>

Gone == [at |-> "none", boot |-> FALSE, open |-> FALSE]
Stopped == [chains |-> 0, togo |-> 0]

TypeOK ==
    /\ device \in {"up", "going", "down"} /\ reboot \in BOOLEAN
    /\ activity \in [at : {"none", "front", "back"}, boot : BOOLEAN, open : BOOLEAN]
    /\ dialog \in BOOLEAN /\ wifi \in BOOLEAN /\ bootedOn \in BOOLEAN
    /\ timer \in [chains : 0 .. MaxChains, togo : 0 .. Ticks]
    /\ left \in [presses : 0 .. MaxPresses, refusals : 0 .. MaxRefusals]

Init ==
    /\ device = "up" /\ reboot = FALSE /\ activity = Gone
    /\ dialog = FALSE /\ timer = Stopped /\ wifi \in BOOLEAN
    /\ bootedOn = FALSE
    /\ left = [presses |-> MaxPresses, refusals |-> MaxRefusals]

Running == device # "down"
Press ==
    /\ Running /\ left.presses > 0
    /\ left' = [left EXCEPT !.presses = @ - 1]

-----------------------------------------------------------------------------
(* The dialog and its countdown. *)

\* Mutant: the extra of the intent is not asked for.
MayCountAlways(a) == ~dialog /\ wifi

MayCount(a) == a.boot /\ ~dialog /\ wifi

\* countDownTimerDialog. timer.start() sets the time anew and adds a message,
\* next to the one of a countdown whose dialog was dismissed with the back key.
CountDownTimerDialog(a) ==
    IF MayCount(a)
    THEN /\ dialog' = TRUE
         /\ timer.chains < MaxChains
         /\ timer' = [chains |-> timer.chains + 1, togo |-> Ticks]
    ELSE UNCHANGED <<dialog, timer>>

\* rebootFunc: "su -c reboot" is started, and the device goes down a little
\* later; or it fails and nothing else happens.
RebootFunc ==
    \/ device' = "going" /\ UNCHANGED left
    \/ /\ left.refusals > 0
       /\ left' = [left EXCEPT !.refusals = @ - 1]
       /\ UNCHANGED device

Tick ==
    /\ Running /\ timer.chains > 0 /\ timer.togo > 0
    /\ timer' = [timer EXCEPT !.togo = @ - 1]
    /\ UNCHANGED <<device, reboot, activity, dialog, wifi, bootedOn, left>>

\* Mutant: the dialog is not dismissed.
OnFinishKeepsDialog ==
    /\ Running /\ timer.chains > 0 /\ timer.togo = 0
    /\ timer' = [timer EXCEPT !.chains = @ - 1]
    /\ RebootFunc
    /\ UNCHANGED <<reboot, activity, dialog, wifi, bootedOn>>

\* onFinish, once for every chain of messages.
OnFinish ==
    /\ Running /\ timer.chains > 0 /\ timer.togo = 0
    /\ timer' = [timer EXCEPT !.chains = @ - 1]
    /\ dialog' = FALSE
    /\ RebootFunc
    /\ UNCHANGED <<reboot, activity, wifi, bootedOn>>

\* The positive button: now.
Confirm ==
    /\ Running /\ dialog
    /\ timer' = Stopped /\ dialog' = FALSE
    /\ RebootFunc
    /\ UNCHANGED <<reboot, activity, wifi, bootedOn>>

\* The negative button; timer.cancel() removes every message.
CancelDialog ==
    /\ dialog /\ Press
    /\ timer' = Stopped /\ dialog' = FALSE
    /\ UNCHANGED <<device, reboot, activity, wifi, bootedOn>>

\* The back key dismisses the dialog; the countdown is not told.
BackFromDialog ==
    /\ dialog /\ Press
    /\ dialog' = FALSE
    /\ UNCHANGED <<device, reboot, activity, timer, wifi, bootedOn>>

-----------------------------------------------------------------------------
(* The screen. *)

\* onCheckedChanged of mRebootSwitch: the preference is committed; isOpenReboot
\* is not touched.
Switch ==
    /\ activity.at = "front" /\ ~dialog /\ Press
    /\ reboot' = ~reboot
    /\ IF reboot' THEN CountDownTimerDialog(activity) ELSE UNCHANGED <<dialog, timer>>
    /\ UNCHANGED <<device, activity, wifi, bootedOn>>

\* The same in a second activity, opened from the launcher over the first: it has
\* no extra and counts nothing.
SwitchElsewhere ==
    /\ activity.at = "back" /\ Press
    /\ reboot' = ~reboot
    /\ UNCHANGED <<device, activity, dialog, timer, wifi, bootedOn>>

\* onResume reads the preference into isOpenReboot and the switch.
Resume(a) ==
    /\ activity' = [a EXCEPT !.at = "front", !.open = reboot]
    /\ IF reboot THEN CountDownTimerDialog(a) ELSE UNCHANGED <<dialog, timer>>

\* From the launcher: a new activity without the extra, or the one that was left.
Open ==
    /\ activity.at # "front" /\ Press
    /\ Resume(activity)
    /\ UNCHANGED <<device, reboot, wifi, bootedOn>>

\* The home key stops the activity, the back key destroys it.
Leave ==
    /\ activity.at = "front" /\ Press
    /\ \/ activity' = [activity EXCEPT !.at = "back"]
       \/ ~dialog /\ activity' = Gone
    /\ UNCHANGED <<device, reboot, dialog, timer, wifi, bootedOn>>

\* Mutant: scans open no dialog.
AskedNever(a) == a.open /\ ~a.open

\* SCAN_RESULTS_AVAILABLE asks isOpenReboot, which may be out of date.
Asked(a) == a.open

\* The receiver hears scans until onDestroy.
ScanResults ==
    /\ Running /\ activity.at # "none"
    /\ Asked(activity) /\ CountDownTimerDialog(activity)
    /\ UNCHANGED <<device, reboot, activity, wifi, bootedOn, left>>

SwitchWifi ==
    /\ Press
    /\ wifi' = ~wifi
    /\ UNCHANGED <<device, reboot, activity, dialog, timer, bootedOn>>

-----------------------------------------------------------------------------
(* The device. *)

GoDown ==
    /\ device' = "down"
    /\ activity' = Gone /\ dialog' = FALSE /\ timer' = Stopped
    /\ UNCHANGED <<reboot, wifi, bootedOn>>

Reboots == device = "going" /\ GoDown /\ UNCHANGED left

\* The user reboots, or the power fails.
PowerCycle == Press /\ GoDown

\* BOOT_COMPLETED: the receiver opens the screen, with the extra, if the
\* preference is set.
Boot ==
    /\ device = "down"
    /\ device' = "up" /\ bootedOn' = reboot
    /\ IF reboot THEN Resume([Gone EXCEPT !.boot = TRUE])
       ELSE UNCHANGED <<activity, dialog, timer>>
    /\ UNCHANGED <<reboot, wifi, left>>

-----------------------------------------------------------------------------
Next ==
    \/ Tick \/ OnFinish \/ Confirm \/ CancelDialog \/ BackFromDialog
    \/ Switch \/ SwitchElsewhere \/ Open \/ Leave \/ ScanResults \/ SwitchWifi
    \/ Reboots \/ PowerCycle \/ Boot

\* Time passes, a device that is told to reboot does, and Wi-Fi keeps scanning.
Fairness ==
    /\ WF_vars(Tick) /\ WF_vars(OnFinish) /\ WF_vars(ScanResults)
    /\ WF_vars(Reboots) /\ WF_vars(Boot)

Spec == Init /\ [][Next]_vars
FairSpec == Spec /\ Fairness

-----------------------------------------------------------------------------
(* Properties. *)

\* The app reboots the device only in a session that a boot with the switch on
\* began: once the switch is off, the reboot under way is the last one.
RebootsOnlyIfBootedOn == [][device = "up" /\ device' = "going" => bootedOn]_vars

\* A dialog that is shown has a countdown behind it, so it never stays up and
\* keeps countDownTimerDialog from opening another.
ShownCounts == dialog => timer.chains > 0

\* The switch is off, the screen that a boot has opened is gone or has read that,
\* and no countdown is left, of however many the back key has left running.
Off == ~reboot /\ ~(activity.boot /\ activity.open) /\ timer.chains = 0

\* Then no scan, boot, dialog or return to the app starts a countdown, or a reboot,
\* until the switch is turned on again.
StaysOff == [][Off /\ ~reboot' => Off' /\ ~(device = "up" /\ device' = "going")]_vars

\* With the switch and Wi-Fi on, and the screen the receiver opened left alone,
\* the device is rebooted again and again, although "su -c reboot" may fail.
LoopGoesOn ==
    <>[](/\ reboot /\ wifi
         /\ device = "up" => activity.boot /\ activity.open /\ activity.at # "none")
    => []<>(device = "down")
=============================================================================
