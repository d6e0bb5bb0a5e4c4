---------------------------- MODULE RebootReason ----------------------------
(***************************************************************************)
(* How the machine remembers, across resets, why FrontPage is entered:     *)
(* the RebootReason variable and the SecureBootAlert signal of             *)
(* MsNVBootReasonLib, written by the BDS hooks of DeviceBootManagerLib and *)
(* consumed by FrontPage, together with OsIndications, BootNext and the    *)
(* MsBootNext variable the boot menu leaves behind.                        *)
(*                                                                         *)
(* BDS itself (which calls the hooks, follows OsIndications and BootNext,  *)
(* and tries the boot order) is not part of the repository: its steps are  *)
(* the ones the hooks and their comments presuppose.  Power may be lost    *)
(* between any two writes of non-volatile variables.                       *)
(***************************************************************************)
EXTENDS Naturals

CONSTANTS
  MaxOptions,   (* bound on the options of the boot order                   *)
  FaultModes    (* the kinds of machine looked at: TRUE for one that may    *)
                (* lose power at any moment, and on which a non-volatile    *)
                (* variable or FrontPage's start may fail                   *)

ASSUME RebootAssumption ==
  /\ MaxOptions \in Nat
  /\ FaultModes \subseteq BOOLEAN

VARIABLES
  \* Non-volatile variables.
  reason,         \* RebootReason
  osIndication,   \* OsIndications has EFI_OS_INDICATIONS_BOOT_TO_FW_UI
  bootNext,       \* BootNext exists
  orderLength,    \* the number of options of the boot order
  \* Volatile state.
  alert,          \* SecureBootAlert
  msBootNext,     \* MsBootNext
  pc,             \* where BDS or FrontPage stands
  tried,          \* options of the boot order tried in this boot
  status,         \* BootOption->Status of the option that returned
  loadOptions,    \* FrontPage was started with the "VOL+" load option
  resetRequired,  \* mResetRequired
  \* The kind of machine; it never changes.
  faulty,
  \* What the user has seen (read by the properties only).
  violation       \* a Secure Boot violation: none yet, to be told, or told

nvVars   == <<reason, osIndication, bootNext, orderLength>>
bdsVars  == <<tried, status>>
pageVars == <<loadOptions, resetRequired>>
vars == <<nvVars, alert, msBootNext, pc, bdsVars, pageVars, faulty, violation>>

Statuses == {"success", "failure", "violation", "previousViolation"}
Reasons  == {"absent", "NONE", "KEY", "OS", "BOOTFAIL", "SEC_FAIL"}
PcStates == {"bdsEntry", "priority", "bds", "running", "completed", "toFrontPage",
             "uefiMain", "alertDialog", "titlebar", "forms", "leave", "bootNextRunning"}

TypeOK ==
  /\ reason \in Reasons
  /\ osIndication \in BOOLEAN
  /\ bootNext \in BOOLEAN
  /\ orderLength \in 0..MaxOptions
  /\ alert \in BOOLEAN
  /\ msBootNext \in BOOLEAN
  /\ pc \in PcStates
  /\ tried \in 0..orderLength
  /\ status \in Statuses
  /\ loadOptions \in BOOLEAN
  /\ resetRequired \in BOOLEAN
  /\ faulty \in BOOLEAN
  /\ violation \in {"none", "untold", "told"}

Outcomes == IF faulty THEN BOOLEAN ELSE {TRUE}

Volatile ==
  /\ alert = FALSE
  /\ msBootNext = FALSE
  /\ pc = "bdsEntry"
  /\ tried = 0
  /\ status = "success"
  /\ loadOptions = FALSE
  /\ resetRequired = FALSE

Init ==
  /\ reason = "absent"
  /\ osIndication \in BOOLEAN
  /\ bootNext \in BOOLEAN
  /\ orderLength \in 0..MaxOptions
  /\ faulty \in FaultModes
  /\ violation = "none"
  /\ Volatile

ResetSystem ==
  /\ alert' = FALSE
  /\ msBootNext' = FALSE
  /\ pc' = "bdsEntry"
  /\ tried' = 0
  /\ status' = "success"
  /\ loadOptions' = FALSE
  /\ resetRequired' = FALSE

LosePower == faulty /\ ResetSystem /\ UNCHANGED <<nvVars, violation>>

-----------------------------------------------------------------------------
(***************************************************************************)
(* MsNVBootReasonLib.  The first letter of the variable's text tells a     *)
(* failed boot (BOOTFAIL, BSecFail) from the other reasons.                *)
(***************************************************************************)
StartsWithB(r) == r \in {"BOOTFAIL", "SEC_FAIL"}

ReasonFor(s) ==
  CASE s = "violation" -> "SEC_FAIL"
    [] s = "success"   -> "NONE"
    [] OTHER           -> "BOOTFAIL"

UpdateSecureBootViolation(s) == alert' = (alert \/ s = "violation")

SetRebootReasonSignalsAll(s) ==  \* mutant: every failure raises SecureBootAlert
  /\ alert' = (alert \/ s # "success")
  /\ \E ok \in Outcomes : reason' = IF ok THEN ReasonFor(s) ELSE reason

SetRebootReason(s) ==
  /\ UpdateSecureBootViolation(s)
  /\ \E ok \in Outcomes : reason' = IF ok THEN ReasonFor(s) ELSE reason

UpdateRebootReasonOverwrites ==  \* mutant: OsIndications wins over a failed boot
  /\ alert' = (reason = "SEC_FAIL" \/ alert)
  /\ reason' = IF osIndication THEN "OS" ELSE reason

(***************************************************************************)
(* A missing variable counts as NONE; a variable that cannot be read ends  *)
(* the update.                                                             *)
(***************************************************************************)
UpdateRebootReason ==
  \/ /\ alert' = (alert \/ reason = "SEC_FAIL")
     /\ \E ok \in Outcomes :
          reason' = IF ok /\ osIndication /\ ~StartsWithB(reason) THEN "OS" ELSE reason
  \/ faulty /\ UNCHANGED <<reason, alert>>

-----------------------------------------------------------------------------
(***************************************************************************)
(* DeviceBootManagerBdsEntry, and what DeviceBootManagerAfterConsole runs: *)
(* the pre-boot checks either let the boot go on or shut the machine down  *)
(* (module PreBootChecks), which leaves nothing behind but what a loss of  *)
(* power leaves.                                                           *)
(***************************************************************************)
BdsEntry ==
  /\ pc = "bdsEntry"
  /\ UpdateRebootReason
  /\ pc' = "priority"
  /\ UNCHANGED <<osIndication, bootNext, orderLength, msBootNext, bdsVars, pageVars, violation>>

(***************************************************************************)
(* DeviceBootManagerPriorityBoot.  The volume keys choose FrontPage, the   *)
(* alternate boot application, or (both) the network unlock application;   *)
(* the KEY reason is stored even when there is no FrontPage to start.      *)
(***************************************************************************)
PriorityFrontPage ==
  /\ pc = "priority"
  /\ \E ok \in Outcomes : reason' = IF ok THEN "KEY" ELSE reason
  /\ \E found \in Outcomes :
       /\ pc' = IF found THEN "uefiMain" ELSE "bds"
       /\ loadOptions' = found
  /\ UNCHANGED <<osIndication, bootNext, orderLength, alert, msBootNext, bdsVars,
                 resetRequired, violation>>

PriorityApplication ==
  /\ pc = "priority"
  /\ pc' \in {"running"} \cup (IF faulty THEN {"bds"} ELSE {})
  /\ UNCHANGED <<nvVars, alert, msBootNext, bdsVars, pageVars, violation>>

NoPriorityBoot ==
  /\ pc = "priority"
  /\ pc' = "bds"
  /\ UNCHANGED <<nvVars, alert, msBootNext, bdsVars, pageVars, violation>>

(***************************************************************************)
(* BDS: FrontPage when OsIndications asks for it, then BootNext, then the  *)
(* boot order (which may name FrontPage), then the hook that gives up.     *)
(***************************************************************************)
FollowOsIndication ==
  /\ pc = "bds"
  /\ osIndication
  /\ \E ok \in Outcomes : osIndication' = ~ok
  /\ pc' = "uefiMain"
  /\ loadOptions' = FALSE
  /\ UNCHANGED <<reason, bootNext, orderLength, alert, msBootNext, bdsVars,
                 resetRequired, violation>>

FollowBootNext ==
  /\ pc = "bds"
  /\ ~osIndication
  /\ bootNext
  /\ bootNext' = FALSE
  /\ pc' = "running"
  /\ UNCHANGED <<reason, osIndication, orderLength, alert, msBootNext, bdsVars,
                 pageVars, violation>>

TryBootOrder ==
  /\ pc = "bds"
  /\ ~osIndication /\ ~bootNext
  /\ tried < orderLength
  /\ tried' = tried + 1
  /\ pc' \in {"running", "uefiMain"}
  /\ loadOptions' = FALSE
  /\ UNCHANGED <<nvVars, alert, msBootNext, status, resetRequired, violation>>

UnableToBoot ==
  /\ pc = "bds"
  /\ ~osIndication /\ ~bootNext
  /\ tried = orderLength
  /\ pc' = "toFrontPage"
  /\ UNCHANGED <<nvVars, alert, msBootNext, bdsVars, pageVars, violation>>

(***************************************************************************)
(* A started option returns, or its system runs until it resets, perhaps   *)
(* asking for the firmware's user interface or for one option next time.   *)
(***************************************************************************)
Noticed(s) == violation' = IF s = "violation" THEN "untold" ELSE violation

OptionReturns ==
  /\ pc = "running"
  /\ status' \in Statuses
  /\ Noticed(status')
  /\ pc' = "completed"
  /\ UNCHANGED <<nvVars, alert, msBootNext, tried, pageVars>>

SystemRestarts ==
  /\ pc \in {"running", "bootNextRunning"}
  /\ osIndication' \in {osIndication, TRUE}
  /\ bootNext' \in {bootNext, TRUE}
  /\ ResetSystem
  /\ UNCHANGED <<reason, orderLength, violation>>

ProcessBootCompletionGoesOn ==  \* mutant: MsBootNext is not looked at
  /\ pc = "completed"
  /\ SetRebootReason(status)
  /\ pc' = "bds"
  /\ UNCHANGED <<msBootNext, osIndication, bootNext, orderLength, bdsVars, pageVars, violation>>

(***************************************************************************)
(* DeviceBootManagerProcessBootCompletion.  Only an option the boot menu   *)
(* asked for has a previous security violation turned into a violation.    *)
(***************************************************************************)
ProcessBootCompletion ==
  /\ pc = "completed"
  /\ msBootNext' = FALSE
  /\ SetRebootReason(IF msBootNext /\ status = "previousViolation" THEN "violation" ELSE status)
  /\ pc' = IF msBootNext THEN "toFrontPage" ELSE "bds"
  /\ UNCHANGED <<osIndication, bootNext, orderLength, bdsVars, pageVars, violation>>

RebootToFrontPageSilently ==  \* mutant: OsIndications is not written
  /\ pc = "toFrontPage"
  /\ ResetSystem
  /\ UNCHANGED <<nvVars, violation>>

RebootToFrontPage ==
  /\ pc = "toFrontPage"
  /\ \E ok \in Outcomes : osIndication' = (ok \/ osIndication)
  /\ ResetSystem
  /\ UNCHANGED <<reason, bootNext, orderLength, violation>>

-----------------------------------------------------------------------------
(***************************************************************************)
(* FrontPage.  UefiMain deletes BootNext and may fail to start; the alert  *)
(* comes before the password prompt, and the title bar after it.           *)
(***************************************************************************)
UefiMain ==
  /\ pc = "uefiMain"
  /\ \E ok \in Outcomes : bootNext' = (bootNext /\ ~ok)
  /\ pc' = IF alert THEN "alertDialog" ELSE "titlebar"
  /\ resetRequired' = FALSE
  /\ UNCHANGED <<reason, osIndication, orderLength, alert, msBootNext, bdsVars,
                 loadOptions, violation>>

UefiMainFails ==
  /\ faulty
  /\ pc = "uefiMain"
  /\ \E ok \in Outcomes : bootNext' = (bootNext /\ ~ok)
  /\ status' = "failure"
  /\ pc' = "completed"
  /\ resetRequired' = FALSE
  /\ UNCHANGED <<reason, osIndication, orderLength, alert, msBootNext, tried,
                 loadOptions, violation>>

NotifyUserOfAlertsKeeps ==  \* mutant: SecureBootAlert is not deleted
  /\ pc = "alertDialog"
  /\ violation' = "told"
  /\ pc' = "titlebar"
  /\ UNCHANGED <<nvVars, alert, msBootNext, bdsVars, pageVars>>

(***************************************************************************)
(* The dialog waits for the user; SecureBootAlert goes once it is closed.  *)
(* A dialog that fails to open leaves the signal for the next time.        *)
(***************************************************************************)
NotifyUserOfAlerts ==
  /\ pc = "alertDialog"
  /\ \E shown \in Outcomes :
       /\ alert' = (alert /\ ~shown)
       /\ violation' = IF shown THEN "told" ELSE violation
  /\ pc' = "titlebar"
  /\ UNCHANGED <<nvVars, msBootNext, bdsVars, pageVars>>

(***************************************************************************)
(* RenderTitlebar takes the reason from the load options if there are any; *)
(* otherwise it reads RebootReason and clears what it could read.          *)
(* InitializeFrontPageUI may still fail: before the title bar when there   *)
(* is no menu, after it when there is no event for the master frame.       *)
(***************************************************************************)
RenderTitlebar ==
  /\ pc = "titlebar"
  /\ \E cleared \in Outcomes :
       reason' = IF loadOptions \/ ~cleared THEN reason ELSE "absent"
  /\ \E started \in Outcomes :
       /\ pc' = IF started THEN "forms" ELSE "completed"
       /\ status' = IF started THEN status ELSE "failure"
  /\ UNCHANGED <<osIndication, bootNext, orderLength, alert, msBootNext, tried,
                 pageVars, violation>>

(***************************************************************************)
(* What the user does on the forms: leave, ask for a restart into          *)
(* FrontPage, change the Secure Boot keys, or boot an option now.          *)
(***************************************************************************)
ExitFrontPage ==
  /\ pc = "forms"
  /\ pc' = "leave"
  /\ UNCHANGED <<nvVars, alert, msBootNext, bdsVars, pageVars, violation>>

HandleRebootToFrontPage ==
  /\ pc = "forms"
  /\ \E ok \in Outcomes :
       IF ok THEN osIndication' = TRUE /\ resetRequired' = TRUE /\ pc' = "leave"
             ELSE UNCHANGED <<osIndication, resetRequired, pc>>
  /\ UNCHANGED <<reason, bootNext, orderLength, alert, msBootNext, bdsVars,
                 loadOptions, violation>>

HandleSecureBootChange ==
  /\ pc = "forms"
  /\ resetRequired' = TRUE
  /\ UNCHANGED <<nvVars, alert, msBootNext, pc, bdsVars, loadOptions, violation>>

BootNow ==
  /\ pc = "forms"
  /\ \E set, noted \in Outcomes :
       /\ bootNext' = (set \/ bootNext)
       /\ msBootNext' = (msBootNext \/ (set /\ noted))
  /\ pc' = "leave"
  /\ UNCHANGED <<reason, osIndication, orderLength, alert, bdsVars, pageVars, violation>>

(***************************************************************************)
(* The end of UefiMain: the pending reset comes before ProcessBootNext.    *)
(***************************************************************************)
ResetRequired ==
  /\ pc = "leave"
  /\ resetRequired
  /\ ResetSystem
  /\ UNCHANGED <<nvVars, violation>>

ProcessBootNext ==
  /\ pc = "leave"
  /\ ~resetRequired
  /\ bootNext
  /\ \E deleted \in Outcomes : bootNext' = ~deleted
  /\ pc' = "bootNextRunning"
  /\ UNCHANGED <<reason, osIndication, orderLength, alert, msBootNext, bdsVars,
                 pageVars, violation>>

(***************************************************************************)
(* With no BootNext (or none that could be read) FrontPage returns to BDS. *)
(***************************************************************************)
ReturnToBds ==
  /\ pc = "leave"
  /\ ~resetRequired
  /\ ~bootNext \/ faulty
  /\ \E deleted \in Outcomes : bootNext' = (bootNext /\ ~deleted)
  /\ status' = "success"
  /\ pc' = "completed"
  /\ UNCHANGED <<reason, osIndication, orderLength, alert, msBootNext, tried,
                 pageVars, violation>>

BootNextReturns ==
  /\ pc = "bootNextRunning"
  /\ \E s \in Statuses : Noticed(s)
  /\ \E ok \in Outcomes : osIndication' = (ok \/ osIndication)
  /\ ResetSystem
  /\ UNCHANGED <<reason, bootNext, orderLength>>

-----------------------------------------------------------------------------
Hooks == BdsEntry \/ PriorityFrontPage \/ PriorityApplication \/ NoPriorityBoot
           \/ ProcessBootCompletion \/ UnableToBoot \/ RebootToFrontPage
Bds   == FollowOsIndication \/ FollowBootNext \/ TryBootOrder
Page  == UefiMain \/ UefiMainFails \/ RenderTitlebar \/ ResetRequired \/ ProcessBootNext
           \/ ReturnToBds
User  == NotifyUserOfAlerts \/ ExitFrontPage \/ HandleRebootToFrontPage
           \/ HandleSecureBootChange \/ BootNow
Outside == OptionReturns \/ SystemRestarts \/ BootNextReturns

Firmware == (Hooks \/ Bds \/ Page) /\ UNCHANGED faulty
Others   == (User \/ Outside \/ LosePower) /\ UNCHANGED faulty

Next == Firmware \/ Others
Spec == Init /\ [][Next]_vars

(***************************************************************************)
(* The firmware's own steps are straight-line code.  The user and the      *)
(* systems that are booted owe nothing.                                    *)
(***************************************************************************)
FairSpec == Spec /\ WF_vars(Firmware)

-----------------------------------------------------------------------------
(***************************************************************************)
(* A Secure Boot failure stays recorded over any loss of power until the   *)
(* user has closed the alert about it, unless the outcome of a later boot  *)
(* or the user's own volume key replaces it.  In particular a request of   *)
(* the operating system for FrontPage does not.  (A dialog that cannot be  *)
(* opened does not stop the title bar from clearing the reason.)           *)
(***************************************************************************)
SecFailKept ==
  [][(reason = "SEC_FAIL" /\ reason' # "SEC_FAIL") =>
       \/ pc = "titlebar" /\ (alert => faulty)
       \/ pc \in {"completed", "priority"}]_vars

(***************************************************************************)
(* "delete it so that we don't continue popping up the message": where     *)
(* nothing fails and the power stays on, one violation is announced once,  *)
(* though the signal is raised again by every boot that finds SEC_FAIL     *)
(* recorded.                                                               *)
(***************************************************************************)
ToldOnce == pc = "alertDialog" /\ ~faulty => violation = "untold"

(***************************************************************************)
(* When nothing can be booted the machine ends up in front of the user     *)
(* (or in a system some priority key chose), not in a circle of resets, if *)
(* nothing fails.                                                          *)
(***************************************************************************)
FrontPageReached ==
  pc = "toFrontPage" /\ ~faulty ~> pc \in {"alertDialog", "titlebar", "running"}

(***************************************************************************)
(* The alert is raised only by a violation, even when variables fail.      *)
(***************************************************************************)
NoFalseAlarm == alert => violation # "none"

(***************************************************************************)
(* Once the user has asked the boot menu for one option, nothing else is   *)
(* booted before the machine is back from a reset: MsBootNext catches the  *)
(* case that FrontPage could not start the option itself.                  *)
(***************************************************************************)
BootNowAlone ==
  [][(pc = "bds" /\ pc' # "bds") => ~msBootNext]_vars

(***************************************************************************)
(* "Inform the user if there was a SecureBoot violation": once FrontPage   *)
(* has drawn its title bar, no violation is left untold.                   *)
(***************************************************************************)
ViolationReported == pc = "forms" => violation # "untold"
=============================================================================
