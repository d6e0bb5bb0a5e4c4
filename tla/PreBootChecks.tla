---------------------------- MODULE PreBootChecks ----------------------------
(***************************************************************************)
(* MsPreBootChecks of DeviceBootManagerLib: before anything is booted the  *)
(* firmware asks the platform whether there is enough power and whether it *)
(* is cool enough, tries to mend what is wrong, and shuts the machine down *)
(* when it cannot.                                                         *)
(*                                                                         *)
(* The platform's answers (SystemPowerCheck, SystemPowerMitigate,          *)
(* SystemThermalCheck) may differ from one call to the next.  An answer    *)
(* that is an error does not stop the boot.                                *)
(***************************************************************************)
EXTENDS Integers

CONSTANT RetrySettings   \* the values PcdPowerAndThermalRetries may have, as INT32

ASSUME RetryAssumption == RetrySettings \subseteq Int

VARIABLES
  pc,
  retryCount,    \* RetryCount
  powerGood,     \* PowerGood
  thermalGood,   \* ThermalGood
  \* What the platform last said (read by the properties only).
  lastPower,
  lastThermal

flags == <<powerGood, thermalGood>>
said  == <<lastPower, lastThermal>>
vars  == <<pc, retryCount, flags, said>>

Ends     == {"thermalShutdown", "powerShutdown", "boot"}
PcStates == {"create", "power", "mitigate", "thermal", "wait", "again", "cleanUp"} \cup Ends

(***************************************************************************)
(* RetryCount ends at most one below zero, or one below a setting that was *)
(* not positive to begin with.                                             *)
(***************************************************************************)
TypeOK ==
  /\ pc \in PcStates
  /\ retryCount \in Int
  /\ \E s \in RetrySettings : retryCount <= s /\ (retryCount >= s - 1 \/ retryCount >= -1)
  /\ powerGood \in BOOLEAN
  /\ thermalGood \in BOOLEAN
  /\ lastPower \in {"none", "error", "good", "bad", "mitigated"}
  /\ lastThermal \in {"none", "error", "good", "bad"}

Start ==
  /\ pc = "create"
  /\ powerGood = TRUE
  /\ thermalGood = TRUE
  /\ lastPower = "none"
  /\ lastThermal = "none"

Init == retryCount \in RetrySettings /\ Start

PowerOn ==
  /\ pc \in Ends
  /\ retryCount' \in RetrySettings
  /\ pc' = "create"
  /\ powerGood' = TRUE
  /\ thermalGood' = TRUE
  /\ lastPower' = "none"
  /\ lastThermal' = "none"

(***************************************************************************)
(* Without a timer event every check is skipped.                           *)
(***************************************************************************)
CreateEvent ==
  /\ pc = "create"
  /\ pc' \in {"power", "cleanUp"}
  /\ UNCHANGED <<retryCount, flags, said>>

PowerCheck ==
  /\ pc = "power"
  /\ lastPower' \in {"error", "good", "bad"}
  /\ powerGood' = (lastPower' # "bad")
  /\ pc' = IF lastPower' = "bad" THEN "mitigate" ELSE "thermal"
  /\ UNCHANGED <<retryCount, thermalGood, lastThermal>>

MitigateSettles ==  \* mutant: a mitigation that succeeds counts as a good check
  /\ pc = "mitigate"
  /\ \/ lastPower' = "mitigated" /\ powerGood' = TRUE /\ pc' = "thermal"
     \/ pc' = "cleanUp" /\ UNCHANGED <<powerGood, lastPower>>
  /\ UNCHANGED <<retryCount, thermalGood, lastThermal>>

(***************************************************************************)
(* A mitigation that succeeds leaves PowerGood FALSE, which is what makes  *)
(* the loop go round again.                                                *)
(***************************************************************************)
Mitigate ==
  /\ pc = "mitigate"
  /\ \/ lastPower' = "mitigated" /\ pc' = "thermal"
     \/ pc' = "cleanUp" /\ UNCHANGED lastPower
  /\ UNCHANGED <<retryCount, flags, lastThermal>>

ThermalCheckAlwaysWaits ==  \* mutant: waits even when no retry is left
  /\ pc = "thermal"
  /\ lastThermal' \in {"error", "good", "bad"}
  /\ thermalGood' = (lastThermal' # "bad")
  /\ pc' = IF lastThermal' = "bad" THEN "wait" ELSE "again"
  /\ UNCHANGED <<retryCount, powerGood, lastPower>>

ThermalCheck ==
  /\ pc = "thermal"
  /\ lastThermal' \in {"error", "good", "bad"}
  /\ thermalGood' = (lastThermal' # "bad")
  /\ pc' = IF lastThermal' = "bad" /\ retryCount > 0 THEN "wait" ELSE "again"
  /\ UNCHANGED <<retryCount, powerGood, lastPower>>

Wait ==
  /\ pc = "wait"
  /\ pc' = "again"
  /\ UNCHANGED <<retryCount, flags, said>>

AgainForever ==  \* mutant: the retry counter is not decremented
  /\ pc = "again"
  /\ pc' = IF retryCount > 0 /\ (~thermalGood \/ ~powerGood) THEN "power" ELSE "cleanUp"
  /\ UNCHANGED <<retryCount, flags, said>>

AgainAtZero ==  \* mutant: one round more than the setting allows
  /\ pc = "again"
  /\ pc' = IF retryCount >= 0 /\ (~thermalGood \/ ~powerGood) THEN "power" ELSE "cleanUp"
  /\ retryCount' = retryCount - 1
  /\ UNCHANGED <<flags, said>>

Again ==
  /\ pc = "again"
  /\ pc' = IF retryCount > 0 /\ (~thermalGood \/ ~powerGood) THEN "power" ELSE "cleanUp"
  /\ retryCount' = retryCount - 1
  /\ UNCHANGED <<flags, said>>

(***************************************************************************)
(* ThermalFailureShutdown and PowerFailureShutdown do not return.          *)
(***************************************************************************)
CleanUp ==
  /\ pc = "cleanUp"
  /\ pc' = IF ~thermalGood THEN "thermalShutdown"
           ELSE IF ~powerGood THEN "powerShutdown" ELSE "boot"
  /\ UNCHANGED <<retryCount, flags, said>>

Checks == CreateEvent \/ PowerCheck \/ Mitigate \/ ThermalCheck \/ Wait \/ Again \/ CleanUp
Next   == Checks \/ PowerOn

Spec == Init /\ [][Next]_vars

(***************************************************************************)
(* MsPreBootChecks runs on the only thread, and its waits are timed.       *)
(***************************************************************************)
FairSpec == Spec /\ WF_vars(Checks)

-----------------------------------------------------------------------------
(***************************************************************************)
(* The boot goes on only if the last answers on power and on temperature,  *)
(* whichever round they are from, were not bad ones: a mitigation is not   *)
(* taken for an answer, and the result of an earlier round never decides.  *)
(* The machine is shut down only for the reason that is shown.             *)
(***************************************************************************)
VerdictMatchesAnswers ==
  /\ pc = "boot" => lastPower \notin {"bad", "mitigated"} /\ lastThermal # "bad"
  /\ pc = "powerShutdown" => lastPower \in {"bad", "mitigated"}
  /\ pc = "thermalShutdown" => lastThermal = "bad"

(***************************************************************************)
(* "Wait for cooling to have an effect": the wait, which drains the        *)
(* battery, is always followed by another round of checks.                 *)
(***************************************************************************)
NoIdleWait == pc = "wait" ~> pc = "power"

(***************************************************************************)
(* The checks always come to a verdict, however the answers alternate.     *)
(***************************************************************************)
VerdictReached == pc = "create" ~> pc \in Ends
=============================================================================
