------------------------- MODULE RebootReasonProofs -------------------------
(***************************************************************************)
(* What RebootReason, SecureBootAlert and MsBootNext say, for boot orders  *)
(* of any length, with variables that fail and power that is lost.         *)
(***************************************************************************)
EXTENDS RebootReason, TLAPS

(***************************************************************************)
(* SEC_FAIL, and a violation that is about to be recorded, come from a     *)
(* violation.  The status turned into a violation by                       *)
(* ProcessBootCompletion is that of an option the boot menu asked for, and *)
(* the only one to reach it while MsBootNext is set is FrontPage itself.   *)
(***************************************************************************)
RecordsTrue ==
  /\ reason = "SEC_FAIL" => violation # "none"
  /\ alert => violation # "none"
  /\ (pc = "completed" /\ status = "violation") => violation # "none"

MsBootNextConfined ==
  msBootNext => \/ pc \in {"leave", "bootNextRunning"}
                \/ pc = "completed" /\ status = "success"

AlertClosed == pc = "titlebar" => (alert => faulty)

Inv == TypeOK /\ RecordsTrue /\ MsBootNextConfined /\ AlertClosed

LEMMA OutcomesBoolean == \A ok \in Outcomes : ok \in BOOLEAN
BY DEF Outcomes

LEMMA InvInit == Init => Inv
<1> USE DEF Init, Volatile
<1>1. Init => TypeOK
  <2> SUFFICES ASSUME Init PROVE TypeOK
    OBVIOUS
  <2>1. /\ orderLength \in Nat /\ tried \in 0..orderLength /\ orderLength \in 0..MaxOptions
        /\ faulty \in BOOLEAN
    BY RebootAssumption
  <2>2. QED
    BY Zenon, <2>1 DEF TypeOK, Reasons, Statuses, PcStates
<1>2. Init => RecordsTrue
  BY Zenon DEF RecordsTrue
<1>3. Init => MsBootNextConfined
  BY Zenon DEF MsBootNextConfined
<1>4. Init => AlertClosed
  BY Zenon DEF AlertClosed
<1>5. QED
  BY <1>1, <1>2, <1>3, <1>4 DEF Inv

(***************************************************************************)
(* A reset empties the volatile variables and keeps the others.            *)
(***************************************************************************)
LEMMA ResetKeeps ==
  ASSUME Inv, ResetSystem, UNCHANGED reason, UNCHANGED orderLength, UNCHANGED faulty,
         osIndication' \in BOOLEAN, bootNext' \in BOOLEAN,
         violation' \in {"none", "untold", "told"},
         violation # "none" => violation' # "none"
  PROVE  Inv'
<1> USE DEF ResetSystem
<1>1. TypeOK'
  <2>1. orderLength' \in 0..MaxOptions /\ tried' \in 0..orderLength'
    BY RebootAssumption DEF Inv, TypeOK
  <2>2. QED
    BY Zenon, <2>1 DEF Inv, TypeOK, Statuses, PcStates
<1>2. RecordsTrue'
  BY Zenon DEF Inv, RecordsTrue
<1>3. MsBootNextConfined'
  BY Zenon DEF MsBootNextConfined
<1>4. AlertClosed'
  BY Zenon DEF AlertClosed
<1>5. QED
  BY <1>1, <1>2, <1>3, <1>4 DEF Inv

(***************************************************************************)
(* The hooks of DeviceBootManagerLib keep the invariant.                   *)
(***************************************************************************)
LEMMA HooksKeep == Inv /\ Hooks /\ UNCHANGED faulty => Inv'
<1> SUFFICES ASSUME Inv, Hooks, UNCHANGED faulty PROVE Inv'
  OBVIOUS
<1> USE RebootAssumption, OutcomesBoolean
    DEF Inv, TypeOK, RecordsTrue, MsBootNextConfined, AlertClosed, Reasons,
        Statuses, PcStates, bdsVars, pageVars, nvVars
<1>1. CASE BdsEntry
  <2>1. reason' \in Reasons /\ (reason' = "SEC_FAIL" => reason = "SEC_FAIL")
    BY <1>1 DEF BdsEntry, UpdateRebootReason
  <2>2. alert' \in {alert, alert \/ reason = "SEC_FAIL"}
    BY <1>1 DEF BdsEntry, UpdateRebootReason
  <2>3. alert' \in BOOLEAN /\ (alert' => alert \/ reason = "SEC_FAIL")
    BY <2>2
  <2>4. QED
    BY ZenonT(90), <1>1, <2>1, <2>3 DEF BdsEntry
<1>2. CASE PriorityFrontPage
  BY <1>2 DEF PriorityFrontPage
<1>3. CASE PriorityApplication
  BY <1>3 DEF PriorityApplication
<1>4. CASE NoPriorityBoot
  BY <1>4 DEF NoPriorityBoot
<1>5. CASE ProcessBootCompletion
  <2> DEFINE s == IF msBootNext /\ status = "previousViolation"
                  THEN "violation" ELSE status
  <2>1. SetRebootReason(s)
    BY <1>5 DEF ProcessBootCompletion
  <2>2. s = "violation" => violation # "none"
    BY <1>5 DEF ProcessBootCompletion
  <2>3. s \in Statuses
    OBVIOUS
  <2>4. ReasonFor(s) \in Reasons /\ (ReasonFor(s) = "SEC_FAIL" => s = "violation")
    BY <2>3 DEF ReasonFor
  <2> HIDE DEF s
  <2>5. reason' \in {reason, ReasonFor(s)}
    BY <2>1 DEF SetRebootReason
  <2>6. alert' \in BOOLEAN /\ (alert' => alert \/ s = "violation")
    BY <2>1 DEF SetRebootReason, UpdateSecureBootViolation
  <2>7. /\ reason' \in Reasons
        /\ reason' = "SEC_FAIL" => reason = "SEC_FAIL" \/ s = "violation"
    BY <2>4, <2>5
  <2>8. ~msBootNext' /\ pc' \in {"toFrontPage", "bds"}
    BY <1>5 DEF ProcessBootCompletion
  <2>9. QED
    BY ZenonT(90), <1>5, <2>2, <2>6, <2>7, <2>8 DEF ProcessBootCompletion
<1>6. CASE UnableToBoot
  BY <1>6 DEF UnableToBoot
<1>7. CASE RebootToFrontPage
  BY <1>7, ResetKeeps DEF RebootToFrontPage
<1>8. QED
  BY <1>1, <1>2, <1>3, <1>4, <1>5, <1>6, <1>7 DEF Hooks

(***************************************************************************)
(* BDS, and the options it starts, keep the invariant.                     *)
(***************************************************************************)
LEMMA BdsKeeps == Inv /\ (Bds \/ Outside \/ LosePower) /\ UNCHANGED faulty => Inv'
<1> SUFFICES ASSUME Inv, Bds \/ Outside \/ LosePower, UNCHANGED faulty PROVE Inv'
  OBVIOUS
<1> USE RebootAssumption, OutcomesBoolean
    DEF Inv, TypeOK, RecordsTrue, MsBootNextConfined, AlertClosed, Reasons,
        Statuses, PcStates, bdsVars, pageVars, nvVars
<1>1. CASE FollowOsIndication
  BY ZenonT(90), <1>1 DEF FollowOsIndication
<1>2. CASE FollowBootNext
  BY ZenonT(90), <1>2 DEF FollowBootNext
<1>3. CASE TryBootOrder
  <2>1. orderLength' \in 0..MaxOptions /\ tried' \in 0..orderLength'
    BY <1>3 DEF TryBootOrder
  <2>2. QED
    BY ZenonT(90), <1>3, <2>1 DEF TryBootOrder
<1>4. CASE OptionReturns
  BY <1>4 DEF OptionReturns, Noticed
<1>5. CASE SystemRestarts
  BY <1>5, ResetKeeps DEF SystemRestarts
<1>6. CASE BootNextReturns
  BY <1>6, ResetKeeps DEF BootNextReturns, Noticed
<1>7. CASE LosePower
  BY <1>7, ResetKeeps DEF LosePower
<1>8. QED
  BY <1>1, <1>2, <1>3, <1>4, <1>5, <1>6, <1>7 DEF Bds, Outside

(***************************************************************************)
(* FrontPage and its user keep the invariant.                              *)
(***************************************************************************)
LEMMA PageKeeps == Inv /\ (Page \/ User) /\ UNCHANGED faulty => Inv'
<1> SUFFICES ASSUME Inv, Page \/ User, UNCHANGED faulty PROVE Inv'
  OBVIOUS
<1> USE RebootAssumption, OutcomesBoolean
    DEF Inv, TypeOK, RecordsTrue, MsBootNextConfined, AlertClosed, Reasons,
        Statuses, PcStates, bdsVars, pageVars, nvVars
<1>1. CASE UefiMain
  BY ZenonT(90), <1>1 DEF UefiMain
<1>2. CASE UefiMainFails
  BY <1>2 DEF UefiMainFails
<1>3. CASE NotifyUserOfAlerts
  <2>1. /\ alert' \in BOOLEAN
        /\ alert' => alert /\ faulty
        /\ violation' \in {violation, "told"}
    BY <1>3 DEF NotifyUserOfAlerts, Outcomes
  <2>2. QED
    BY ZenonT(90), <1>3, <2>1 DEF NotifyUserOfAlerts
<1>4. CASE RenderTitlebar
  BY <1>4 DEF RenderTitlebar
<1>5. CASE ExitFrontPage
  BY <1>5 DEF ExitFrontPage
<1>6. CASE HandleRebootToFrontPage
  <2>1. /\ osIndication' \in BOOLEAN
        /\ resetRequired' \in BOOLEAN
        /\ pc = "forms" /\ pc' \in {"forms", "leave"}
    BY <1>6 DEF HandleRebootToFrontPage
  <2>2. QED
    BY ZenonT(90), <1>6, <2>1 DEF HandleRebootToFrontPage
<1>7. CASE HandleSecureBootChange
  BY <1>7 DEF HandleSecureBootChange
<1>8. CASE BootNow
  BY <1>8 DEF BootNow
<1>9. CASE ResetRequired
  BY <1>9, ResetKeeps DEF ResetRequired
<1>10. CASE ProcessBootNext
  BY <1>10 DEF ProcessBootNext
<1>11. CASE ReturnToBds
  BY <1>11 DEF ReturnToBds
<1>12. QED
  BY <1>1, <1>2, <1>3, <1>4, <1>5, <1>6, <1>7, <1>8, <1>9, <1>10, <1>11 DEF Page, User

LEMMA InvStep == Inv /\ [Next]_vars => Inv'
<1>1. Inv /\ UNCHANGED vars => Inv'
  BY DEF Inv, TypeOK, RecordsTrue, MsBootNextConfined, AlertClosed, vars, nvVars,
         bdsVars, pageVars
<1>2. QED
  BY <1>1, HooksKeep, BdsKeeps, PageKeeps DEF Next, Firmware, Others

LEMMA InvAlways == Spec => []Inv
BY InvInit, InvStep, PTL DEF Spec

(***************************************************************************)
(* SecureBootAlert is raised only after a Secure Boot violation.           *)
(***************************************************************************)
THEOREM AlertsAreTrue == Spec => [](TypeOK /\ NoFalseAlarm)
<1>1. Inv => TypeOK /\ NoFalseAlarm
  BY DEF Inv, RecordsTrue, NoFalseAlarm
<1>2. QED
  BY <1>1, InvAlways, PTL

(***************************************************************************)
(* While MsBootNext is set BDS boots nothing of its own choice.            *)
(***************************************************************************)
THEOREM BootNowIsAlone == Spec => BootNowAlone
<1>1. Inv => ((pc = "bds" /\ pc' # "bds") => ~msBootNext)
  BY DEF Inv, TypeOK, MsBootNextConfined
<1>2. QED
  BY <1>1, InvAlways, PTL DEF BootNowAlone

(***************************************************************************)
(* A recorded Secure Boot failure waits for the user.                      *)
(***************************************************************************)
THEOREM SecFailWaits == Spec => SecFailKept
<1> DEFINE Kept == (reason = "SEC_FAIL" /\ reason' # "SEC_FAIL") =>
                     \/ pc = "titlebar" /\ (alert => faulty)
                     \/ pc \in {"completed", "priority"}
<1>1. UNCHANGED vars => Kept
  BY DEF vars, nvVars
<1>2. ASSUME Inv, Next PROVE Kept
  <2> USE <1>2 DEF nvVars, bdsVars, pageVars
  <2>1. CASE Bds \/ Outside \/ LosePower
    BY <2>1 DEF Bds, FollowOsIndication, FollowBootNext, TryBootOrder, Outside,
                OptionReturns, SystemRestarts, BootNextReturns, LosePower
  <2>2. CASE Hooks
    BY <2>2 DEF Hooks, BdsEntry, UpdateRebootReason, StartsWithB, PriorityFrontPage,
                PriorityApplication, NoPriorityBoot, ProcessBootCompletion, UnableToBoot,
                RebootToFrontPage
  <2>3. CASE User
    BY <2>3 DEF User, NotifyUserOfAlerts, ExitFrontPage, HandleRebootToFrontPage,
                HandleSecureBootChange, BootNow
  <2>4. CASE Page
    BY <2>4 DEF Page, UefiMain, UefiMainFails, RenderTitlebar, ResetRequired,
                ProcessBootNext, ReturnToBds, Inv, AlertClosed
  <2> QED
    BY <2>1, <2>2, <2>3, <2>4 DEF Next, Firmware, Others
<1>3. QED
  BY <1>1, <1>2, InvAlways, PTL DEF Spec, SecFailKept

------------------------------------------------------------------------------
(***************************************************************************)
(* Where nothing fails and the power stays on, the alert is up only for a  *)
(* violation still to be told.  When the dialog is closed SEC_FAIL may     *)
(* still be recorded, and a boot that found it would raise the alert once  *)
(* more; but the next step is the title bar, which clears it.  It does not *)
(* when there are load options, but then the key has replaced SEC_FAIL.    *)
(***************************************************************************)
AlertPending ==
  /\ alert => violation = "untold"
  /\ pc = "alertDialog" => alert
  /\ (pc = "completed" /\ status = "violation") => violation = "untold"

RecordPending ==
  /\ reason = "SEC_FAIL" => violation = "untold" \/ (pc = "titlebar" /\ ~loadOptions)
  /\ (pc \in {"uefiMain", "alertDialog", "titlebar"} /\ loadOptions) => reason # "SEC_FAIL"

TellInv == Inv /\ (~faulty => AlertPending /\ RecordPending)

LEMMA ResetKeepsPending ==
  ASSUME ~faulty, TellInv, ResetSystem, UNCHANGED reason, pc # "titlebar",
         violation' \in {violation, "untold"}
  PROVE  AlertPending' /\ RecordPending'
BY DEF TellInv, AlertPending, RecordPending, ResetSystem

LEMMA FirmwareTells ==
  ASSUME ~faulty, TellInv, Hooks \/ Page
  PROVE  AlertPending' /\ RecordPending'
<1>0. Outcomes = {TRUE}
  BY DEF Outcomes
<1> USE <1>0 DEF TellInv, AlertPending, RecordPending, bdsVars, pageVars, nvVars
<1>1. CASE BdsEntry
  BY <1>1 DEF BdsEntry, UpdateRebootReason, StartsWithB
<1>2. CASE PriorityFrontPage
  BY <1>2 DEF PriorityFrontPage
<1>3. CASE PriorityApplication \/ NoPriorityBoot \/ UnableToBoot
  BY <1>3 DEF PriorityApplication, NoPriorityBoot, UnableToBoot
<1>4. CASE ProcessBootCompletion
  <2>1. msBootNext => status = "success"
    BY <1>4 DEF ProcessBootCompletion, Inv, MsBootNextConfined
  <2>2. SetRebootReason(status)
    BY <1>4, <2>1 DEF ProcessBootCompletion
  <2>3. /\ alert' = (alert \/ status = "violation")
        /\ reason' = ReasonFor(status)
    BY <2>2 DEF SetRebootReason, UpdateSecureBootViolation
  <2>4. reason' = "SEC_FAIL" => status = "violation"
    BY <2>3 DEF ReasonFor, Inv, TypeOK, Statuses
  <2>5. pc = "completed" /\ pc' \in {"toFrontPage", "bds"} /\ violation' = violation
    BY <1>4 DEF ProcessBootCompletion
  <2>6. QED
    BY <2>3, <2>4, <2>5
<1>5. CASE RebootToFrontPage
  BY <1>5, ResetKeepsPending DEF RebootToFrontPage
<1>6. CASE UefiMain
  BY <1>6 DEF UefiMain
<1>7. CASE UefiMainFails
  BY <1>7 DEF UefiMainFails
<1>8. CASE RenderTitlebar
  BY <1>8 DEF RenderTitlebar
<1>9. CASE ResetRequired
  BY <1>9, ResetKeepsPending DEF ResetRequired
<1>10. CASE ProcessBootNext \/ ReturnToBds
  BY <1>10 DEF ProcessBootNext, ReturnToBds
<1>11. QED
  BY <1>1, <1>2, <1>3, <1>4, <1>5, <1>6, <1>7, <1>8, <1>9, <1>10 DEF Hooks, Page

LEMMA OthersTell ==
  ASSUME ~faulty, TellInv, Bds \/ User \/ Outside
  PROVE  AlertPending' /\ RecordPending'
<1>0. Outcomes = {TRUE}
  BY DEF Outcomes
<1> USE <1>0 DEF TellInv, AlertPending, RecordPending, bdsVars, pageVars, nvVars
<1>1. CASE Bds
  BY <1>1 DEF Bds, FollowOsIndication, FollowBootNext, TryBootOrder
<1>2. CASE OptionReturns
  BY <1>2 DEF OptionReturns, Noticed
<1>3. CASE SystemRestarts
  BY <1>3, ResetKeepsPending DEF SystemRestarts
<1>4. CASE BootNextReturns
  <2>1. violation' \in {violation, "untold"}
    BY <1>4 DEF BootNextReturns, Noticed
  <2>2. QED
    BY <1>4, <2>1, ResetKeepsPending DEF BootNextReturns
<1>5. CASE NotifyUserOfAlerts
  BY <1>5 DEF NotifyUserOfAlerts
<1>6. CASE ExitFrontPage \/ HandleSecureBootChange \/ BootNow
  BY <1>6 DEF ExitFrontPage, HandleSecureBootChange, BootNow
<1>7. CASE HandleRebootToFrontPage
  BY <1>7 DEF HandleRebootToFrontPage
<1>8. QED
  BY <1>1, <1>2, <1>3, <1>4, <1>5, <1>6, <1>7 DEF User, Outside

(***************************************************************************)
(* On a machine where the power stays on and nothing fails, one violation  *)
(* is announced once, however many boots find it recorded.                 *)
(***************************************************************************)
THEOREM ViolationToldOnce == Spec => []ToldOnce
<1>1. Init => TellInv
  BY InvInit, Zenon DEF TellInv, AlertPending, RecordPending, Init, Volatile
<1>2. TellInv /\ [Next]_vars => TellInv'
  <2> SUFFICES ASSUME TellInv, [Next]_vars, ~faulty'
               PROVE  AlertPending' /\ RecordPending'
    BY InvStep DEF TellInv
  <2>1. ~faulty
    BY DEF Next, Firmware, Others, vars
  <2>2. CASE Hooks \/ Page
    BY <2>1, <2>2, FirmwareTells
  <2>3. CASE Bds \/ User \/ Outside
    BY <2>1, <2>3, OthersTell
  <2>4. CASE LosePower
    BY <2>1, <2>4 DEF LosePower
  <2>5. CASE UNCHANGED vars
    BY <2>1, <2>5 DEF vars, nvVars, bdsVars, pageVars, TellInv, AlertPending, RecordPending
  <2>6. QED
    BY <2>2, <2>3, <2>4, <2>5 DEF Next, Firmware, Others
<1>3. TellInv => ToldOnce
  BY DEF TellInv, AlertPending, ToldOnce
<1>4. QED
  BY <1>1, <1>2, <1>3, PTL DEF Spec
=============================================================================
