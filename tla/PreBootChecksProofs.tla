------------------------ MODULE PreBootChecksProofs ------------------------
(***************************************************************************)
(* MsPreBootChecks decides by the platform's last answers, for every value *)
(* of PcdPowerAndThermalRetries.                                           *)
(***************************************************************************)
EXTENDS PreBootChecks, TLAPS

(***************************************************************************)
(* The two flags always say what the last answers said, and only a bad     *)
(* answer on power leads to a mitigation.  A verdict follows the flags.    *)
(* Until the loop is left RetryCount is the setting, or not below zero.    *)
(***************************************************************************)
FlagsFollowAnswers ==
  /\ powerGood <=> lastPower \notin {"bad", "mitigated"}
  /\ thermalGood <=> lastThermal # "bad"
  /\ pc = "mitigate" => ~powerGood
  /\ pc = "boot" => powerGood /\ thermalGood
  /\ pc = "powerShutdown" => ~powerGood
  /\ pc = "thermalShutdown" => ~thermalGood

InLoop == {"create", "power", "mitigate", "thermal", "wait", "again"}
CountInLoop ==
  pc \in InLoop =>
    \E s \in RetrySettings : retryCount <= s /\ (retryCount = s \/ retryCount >= 0)

Inv == TypeOK /\ FlagsFollowAnswers /\ CountInLoop

LEMMA InvInit == Init => Inv
BY RetryAssumption DEF Init, Start, Inv, TypeOK, FlagsFollowAnswers, CountInLoop, InLoop, PcStates, Ends

(***************************************************************************)
(* No step separates the flags from the answers.                           *)
(***************************************************************************)
LEMMA InvStep == Inv /\ [Next]_vars => Inv'
<1> SUFFICES ASSUME Inv, [Next]_vars PROVE Inv'
  OBVIOUS
<1> USE RetryAssumption DEF Inv, TypeOK, FlagsFollowAnswers, CountInLoop, InLoop, PcStates, Ends, flags, said
<1>1. CASE PowerOn
  BY <1>1 DEF PowerOn
<1>2. CASE CreateEvent
  BY <1>2 DEF CreateEvent
<1>3. CASE PowerCheck
  BY <1>3 DEF PowerCheck
<1>4. CASE Mitigate
  BY <1>4 DEF Mitigate
<1>5. CASE ThermalCheck
  BY <1>5 DEF ThermalCheck
<1>6. CASE Wait
  BY <1>6 DEF Wait
<1>7. CASE Again
  BY <1>7 DEF Again
<1>8. CASE CleanUp
  BY <1>8 DEF CleanUp
<1>9. CASE UNCHANGED vars
  BY <1>9 DEF vars
<1>10. QED
  BY <1>1, <1>2, <1>3, <1>4, <1>5, <1>6, <1>7, <1>8, <1>9 DEF Next, Checks

(***************************************************************************)
(* MsPreBootChecks lets the boot go on only after good answers, and shuts  *)
(* down only for the reason it shows, whatever the retry setting.          *)
(***************************************************************************)
THEOREM VerdictCorrect == Spec => [](TypeOK /\ VerdictMatchesAnswers)
<1>1. Inv => TypeOK /\ VerdictMatchesAnswers
  BY DEF Inv, FlagsFollowAnswers, VerdictMatchesAnswers
<1>2. QED
  BY <1>1, InvInit, InvStep, PTL DEF Spec
=============================================================================
