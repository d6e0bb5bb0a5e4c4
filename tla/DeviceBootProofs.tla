--------------------------- MODULE DeviceBootProofs ---------------------------
(***************************************************************************)
(* One boot, for every retry setting, every set of images and SD card      *)
(* paths, both settings of the build and every bound on the options tried: *)
(* the options follow the checks, the keys decide once, and what is done   *)
(* once per boot is done once.                                             *)
(***************************************************************************)
EXTENDS DeviceBoot, PreBootChecksProofs

(***************************************************************************)
(* Nothing past the checks happens before they have let the boot go on.    *)
(***************************************************************************)
OptionsFollowChecks ==
  stage \notin {"checks", "off"} => pc = "boot"

(***************************************************************************)
(* Until a boot decides on the keys, what the button service remembers and *)
(* claims is what was pressed since the last decision, unless it failed to *)
(* forget the earlier ones; only a platform's own service remembers        *)
(* anything.                                                               *)
(***************************************************************************)
KeysPending ==
  /\ stage \in {"checks", "priority"} /\ ~uncleared => pending = latched \cup Claimed
  /\ stage \in {"options", "loading", "readyToBoot", "running", "unable"}
       => pending = {} /\ (~uncleared => latched = {})
  /\ buttonService # "platform" => latched = {}

(***************************************************************************)
(* FirstPass says whether PostReadyToBoot has done its work, with what it  *)
(* read.  An image that is loaded has been announced by ReadyToBoot,       *)
(* except for FrontPage.                                                   *)
(***************************************************************************)
WorkFollowsFirstPass ==
  /\ firstPass => signatures = 0 /\ networking = 0
  /\ ~firstPass =>
       signatures = 1 /\ networking = (IF StartNetworkStack(networkRead) THEN 1 ELSE 0)
  /\ stage \in {"loading", "running"} => ~firstPass \/ image[1] = FrontPage

BootInv ==
  /\ BootTypeOK
  /\ FlagsFollowAnswers
  /\ CountInLoop
  /\ OptionsFollowChecks
  /\ KeysPending
  /\ WorkFollowsFirstPass

-----------------------------------------------------------------------------
LEMMA BootInvInit == DeviceInit => BootInv
<1> SUFFICES ASSUME DeviceInit PROVE BootInv
  OBVIOUS
<1>1. Inv
  BY InvInit DEF DeviceInit
<1>2. latched \subseteq Keys /\ pending \subseteq Keys
  BY DEF DeviceInit, Claimed, Keys
<1>3. image = <<>> /\ stage = "checks" /\ tried \in 0..MaxTried
  BY DeviceAssumption DEF DeviceInit
<1>4. BootTypeOK
  BY <1>1, <1>2, <1>3 DEF DeviceInit, BootTypeOK, Inv, Stages, Requests
<1>5. OptionsFollowChecks /\ KeysPending /\ WorkFollowsFirstPass
  BY DEF DeviceInit, OptionsFollowChecks, KeysPending, WorkFollowsFirstPass
<1> QED
  BY <1>1, <1>4, <1>5 DEF BootInv, Inv

(***************************************************************************)
(* Every step of the boot is one of the checks', a restart, or leaves them *)
(* alone.                                                                  *)
(***************************************************************************)
LEMMA ChecksEmbedded == [DeviceNext]_bootVars => [Next]_vars
BY DEF DeviceNext, bootVars, Next, AfterConsole, PriorityBoot, NextOption, NoMoreOptions,
       PostReadyToBoot, LoadImage, ImageReturns, Restart, WarmReset, SwitchOff, ColdStart

LEMMA ChecksKeep == ASSUME BootInv, [DeviceNext]_bootVars PROVE Inv'
BY ChecksEmbedded, InvStep DEF BootInv, BootTypeOK, Inv

(***************************************************************************)
(* A step of the checks ends them with a verdict or goes on.               *)
(***************************************************************************)
LEMMA AfterConsoleKeeps == ASSUME BootInv, AfterConsole PROVE BootInv'
<1> USE DEF machine, keys, progress, oncePerBoot
<1>1. Inv'
  BY ChecksKeep DEF DeviceNext
<1>2. stage' \in {"checks", "priority", "off"} /\ (stage' = "priority" => pc' = "boot")
  BY DEF AfterConsole
<1>3. BootTypeOK'
  BY <1>1, <1>2 DEF AfterConsole, BootInv, BootTypeOK, Inv, Stages
<1>4. OptionsFollowChecks' /\ KeysPending' /\ WorkFollowsFirstPass'
  BY <1>2 DEF AfterConsole, BootInv, OptionsFollowChecks, KeysPending, Claimed,
              WorkFollowsFirstPass, StartNetworkStack
<1> QED
  BY <1>1, <1>3, <1>4 DEF BootInv, Inv

LEMMA RestartKeeps == ASSUME BootInv, Restart \/ ColdStart PROVE BootInv'
<1> USE DEF machine, FreshBoot
<1>1. Inv'
  BY ChecksKeep DEF DeviceNext
<1>2. FreshBoot /\ UNCHANGED machine
  BY DEF Restart, WarmReset, ColdStart
<1>3. /\ latched' \subseteq Keys /\ pending' \subseteq Keys /\ uncleared' \in BOOLEAN
      /\ ~uncleared' => pending' = latched' \cup Claimed
      /\ buttonService # "platform" => latched' = {}
  <2>1. CASE Restart
    BY <2>1 DEF Restart, WarmReset, BootInv, BootTypeOK, KeysPending, Claimed, Keys
  <2>2. CASE ColdStart
    BY <2>2 DEF ColdStart, Claimed, Keys
  <2> QED
    BY <2>1, <2>2
<1>4. BootTypeOK'
  <2>1. tried' \in 0..MaxTried
    BY <1>2, DeviceAssumption
  <2> QED
    BY <1>1, <1>2, <1>3, <2>1 DEF BootInv, BootTypeOK, Inv, Stages, Requests
<1>5. OptionsFollowChecks' /\ KeysPending' /\ WorkFollowsFirstPass'
  BY <1>2, <1>3 DEF OptionsFollowChecks, KeysPending, Claimed, WorkFollowsFirstPass
<1> QED
  BY <1>1, <1>4, <1>5 DEF BootInv, Inv

(***************************************************************************)
(* The answers of the button service in one decision.                      *)
(***************************************************************************)
Decided(upOk, downOk, left, cleared) ==
  /\ upOk \/ buttonService = "platform"
  /\ downOk \/ (buttonService = "platform" /\ ~AltBootForbidden)
  /\ cleared \/ buttonService = "platform"
  /\ misread' = (~upOk \/ ~downOk)
  /\ request' = PriorityRequest(IsSettingsBoot(upOk), IsAltBoot(downOk, left))
  /\ ClearBootRequests(cleared)
  /\ uncleared' = ~cleared

LEMMA RequestSays ==
  ASSUME NEW up \in BOOLEAN, NEW down \in BOOLEAN
  PROVE  /\ PriorityRequest(up, down) \in {"NS", "VOL+"} <=> up
         /\ PriorityRequest(up, down) \in {"NS", "MA"} <=> down
BY DEF PriorityRequest

LEMMA PriorityBootDecides ==
  ASSUME PriorityBoot
  PROVE  \E upOk, downOk, left, cleared \in BOOLEAN : Decided(upOk, downOk, left, cleared)
BY DEF PriorityBoot, Decided

LEMMA PriorityBootKeeps == ASSUME BootInv, PriorityBoot PROVE BootInv'
<1> USE DEF machine, oncePerBoot
<1>1. Inv'
  BY ChecksKeep DEF DeviceNext
<1>2. PICK upOk \in BOOLEAN, downOk \in BOOLEAN, left \in BOOLEAN, cleared \in BOOLEAN :
        Decided(upOk, downOk, left, cleared)
  BY PriorityBootDecides
<1>3. /\ request' \in Requests
      /\ misread' \in BOOLEAN
      /\ uncleared' \in BOOLEAN
      /\ latched' \subseteq latched
      /\ ~uncleared' => latched' = {}
  BY <1>2 DEF Decided, PriorityRequest, Requests, ClearBootRequests
<1>4. pending' = {} /\ UNCHANGED <<vars, machine, tried, oncePerBoot>> /\ stage = "priority"
  BY DEF PriorityBoot
<1>5. \/ stage' = "options" /\ image' = image
      \/ stage' = "loading" /\ image' = <<FrontPage>>
      \/ stage' = "readyToBoot" /\ image' = <<App>>
  BY DEF PriorityBoot
<1>6. BootTypeOK'
  BY <1>1, <1>3, <1>4, <1>5 DEF BootInv, BootTypeOK, Inv, Stages, Loadable
<1>7. OptionsFollowChecks' /\ KeysPending' /\ WorkFollowsFirstPass'
  <2>1. OptionsFollowChecks' /\ KeysPending'
    BY <1>3, <1>4, <1>5 DEF BootInv, OptionsFollowChecks, KeysPending, Claimed, vars
  <2>2. WorkFollowsFirstPass'
    BY <1>4, <1>5 DEF BootInv, WorkFollowsFirstPass, StartNetworkStack
  <2> QED
    BY <2>1, <2>2
<1> QED
  BY <1>1, <1>6, <1>7 DEF BootInv, Inv

(***************************************************************************)
(* The actions on the boot options.                                        *)
(***************************************************************************)
LEMMA OptionsKeep ==
  ASSUME BootInv,
         \/ NextOption \/ NoMoreOptions \/ PostReadyToBoot \/ LoadImage
         \/ ImageReturns \/ SwitchOff
  PROVE  BootInv'
<1> USE DEF machine, keys, progress, oncePerBoot
<1>1. Inv'
  BY ChecksKeep DEF DeviceNext
<1>2. CASE NextOption
  <2>1. BootTypeOK'
    BY <1>1, <1>2, DeviceAssumption
    DEF NextOption, BootInv, BootTypeOK, Inv, Stages, Loadable
  <2>2. OptionsFollowChecks' /\ KeysPending' /\ WorkFollowsFirstPass'
    BY <1>2 DEF NextOption, BootInv, OptionsFollowChecks, KeysPending, Claimed,
                WorkFollowsFirstPass, StartNetworkStack, vars
  <2> QED
    BY <1>1, <2>1, <2>2 DEF BootInv, Inv
<1>3. CASE NoMoreOptions
  <2>1. BootTypeOK'
    BY <1>1, <1>3 DEF NoMoreOptions, BootInv, BootTypeOK, Inv, Stages
  <2>2. OptionsFollowChecks' /\ KeysPending' /\ WorkFollowsFirstPass'
    BY <1>3 DEF NoMoreOptions, BootInv, OptionsFollowChecks, KeysPending, Claimed,
                WorkFollowsFirstPass, StartNetworkStack, vars
  <2> QED
    BY <1>1, <2>1, <2>2 DEF BootInv, Inv
<1>4. CASE PostReadyToBoot
  <2>1. networking' \in Nat /\ signatures' \in Nat
    BY <1>4 DEF PostReadyToBoot, BootInv, BootTypeOK
  <2>2. BootTypeOK'
    BY <1>1, <1>4, <2>1 DEF PostReadyToBoot, BootInv, BootTypeOK, Inv, Stages
  <2>3. OptionsFollowChecks' /\ KeysPending' /\ WorkFollowsFirstPass'
    BY <1>4 DEF PostReadyToBoot, BootInv, OptionsFollowChecks, KeysPending, Claimed,
                WorkFollowsFirstPass, StartNetworkStack, vars
  <2> QED
    BY <1>1, <2>2, <2>3 DEF BootInv, Inv
<1>5. CASE LoadImage
  <2>1. BootTypeOK'
    BY <1>1, <1>5 DEF LoadImage, BootInv, BootTypeOK, Inv, Stages
  <2>2. OptionsFollowChecks' /\ KeysPending' /\ WorkFollowsFirstPass'
    BY <1>5 DEF LoadImage, BootInv, OptionsFollowChecks, KeysPending, Claimed,
                WorkFollowsFirstPass, StartNetworkStack, vars
  <2> QED
    BY <1>1, <2>1, <2>2 DEF BootInv, Inv
<1>6. CASE ImageReturns \/ SwitchOff
  <2>1. BootTypeOK'
    BY <1>1, <1>6 DEF ImageReturns, SwitchOff, BootInv, BootTypeOK, Inv, Stages
  <2>2. OptionsFollowChecks' /\ KeysPending' /\ WorkFollowsFirstPass'
    BY <1>6 DEF ImageReturns, SwitchOff, BootInv, OptionsFollowChecks, KeysPending, Claimed,
                WorkFollowsFirstPass, StartNetworkStack, vars
  <2> QED
    BY <1>1, <2>1, <2>2 DEF BootInv, Inv
<1> QED
  BY <1>2, <1>3, <1>4, <1>5, <1>6

LEMMA BootInvAlways == DeviceSpec => []BootInv
<1>1. ASSUME BootInv, UNCHANGED bootVars PROVE BootInv'
  BY <1>1 DEF BootInv, BootTypeOK, TypeOK, FlagsFollowAnswers, CountInLoop,
     OptionsFollowChecks, KeysPending, Claimed, WorkFollowsFirstPass,
     StartNetworkStack, bootVars, vars, flags, said, deviceVars, machine, keys, progress,
     oncePerBoot
<1>2. BootInv /\ [DeviceNext]_bootVars => BootInv'
  BY <1>1, AfterConsoleKeeps, RestartKeeps, PriorityBootKeeps, OptionsKeep DEF DeviceNext
<1>3. QED
  BY BootInvInit, <1>2, PTL DEF DeviceSpec

-----------------------------------------------------------------------------
(***************************************************************************)
(* Every variable of a boot keeps its type, RetryCount among them.         *)
(***************************************************************************)
THEOREM BootTypeCorrect == DeviceSpec => []BootTypeOK
BY BootInvAlways, PTL DEF BootInv

(***************************************************************************)
(* No option is tried, and no key acted on, unless the platform's last     *)
(* answers on power and temperature let the boot go on; a shutdown follows *)
(* the answers as well.                                                    *)
(***************************************************************************)
THEOREM ChecksComeFirst == DeviceSpec => [](VerdictMatchesAnswers /\ OptionsFollowChecks)
<1>1. BootInv => VerdictMatchesAnswers /\ OptionsFollowChecks
  BY DEF BootInv, FlagsFollowAnswers, VerdictMatchesAnswers
<1>2. QED
  BY <1>1, BootInvAlways, PTL

(***************************************************************************)
(* The hardware signature is computed once before an announced option      *)
(* runs, and the network started once or not at all, as the one reading of *)
(* the setting said, however many options a boot tries and whether or not  *)
(* the setting could be read.                                              *)
(***************************************************************************)
THEOREM DoneOncePerBoot == DeviceSpec => []OncePerBoot
<1>1. ASSUME BootInv PROVE OncePerBoot
  <2> SUFFICES ASSUME stage = "running", image[1] # FrontPage
               PROVE  /\ signatures = 1
                      /\ networking = (CASE networkRead = "value"   -> IF startNetwork THEN 1 ELSE 0
                                         [] networkRead = "default" -> IF StartNetworkDefault THEN 1 ELSE 0
                                         [] OTHER                   -> 0)
    BY DEF OncePerBoot
  <2>1. signatures = 1 /\ networking = (IF StartNetworkStack(networkRead) THEN 1 ELSE 0)
    BY <1>1 DEF BootInv, BootTypeOK, WorkFollowsFirstPass
  <2> QED
    BY <2>1 DEF StartNetworkStack
<1>2. QED
  BY <1>1, BootInvAlways, PTL

(***************************************************************************)
(* A boot acts on the keys pressed since the last decision and on no       *)
(* others, over any number of warm resets and cold starts, as long as the  *)
(* button service answers and forgets; a failing service never gets past   *)
(* the owner's setting, nor makes a volume-up press that was not there.    *)
(***************************************************************************)
THEOREM KeysDecide == DeviceSpec => KeysDecideOnce
<1> DEFINE wanted == IF AltBootForbidden THEN pending \ {"down"} ELSE pending
<1> DEFINE Decision ==
      stage = "priority" =>
        /\ ~misread' /\ ~uncleared =>
             /\ request' \in {"NS", "VOL+"} <=> "up" \in wanted
             /\ request' \in {"NS", "MA"} <=> "down" \in wanted
        /\ AltBootForbidden => request' \notin {"NS", "MA"}
        /\ request' \in {"NS", "VOL+"} => "up" \in pending \/ uncleared
<1>1. ASSUME BootInv, [DeviceNext]_bootVars PROVE [Decision]_bootVars
  <2> SUFFICES ASSUME stage = "priority", DeviceNext PROVE Decision
    BY <1>1
  <2>1. PriorityBoot
    BY DEF DeviceNext, AfterConsole, NextOption, NoMoreOptions, PostReadyToBoot, LoadImage,
           ImageReturns, Restart, SwitchOff, ColdStart
  <2>2. /\ ~uncleared => pending = latched \cup Claimed
        /\ buttonService # "platform" => latched = {}
        /\ buttonService \in Services
    BY <1>1 DEF BootInv, BootTypeOK, KeysPending
  <2>3. PICK upOk \in BOOLEAN, downOk \in BOOLEAN, left \in BOOLEAN, cleared \in BOOLEAN :
          Decided(upOk, downOk, left, cleared)
    BY <2>1, PriorityBootDecides
  <2>4. /\ request' \in {"NS", "VOL+"} <=> IsSettingsBoot(upOk)
        /\ request' \in {"NS", "MA"} <=> IsAltBoot(downOk, left)
    <3>1. IsSettingsBoot(upOk) \in BOOLEAN /\ IsAltBoot(downOk, left) \in BOOLEAN
      BY <2>3 DEF IsSettingsBoot, IsAltBoot
    <3>2. request' = PriorityRequest(IsSettingsBoot(upOk), IsAltBoot(downOk, left))
      BY <2>3 DEF Decided
    <3> QED
      BY <3>1, <3>2, RequestSays
  <2>5. /\ AltBootForbidden => ~IsAltBoot(downOk, left)
        /\ IsSettingsBoot(upOk) => "up" \in pending \/ uncleared
    BY <2>2 DEF IsAltBoot, IsSettingsBoot, Claimed
  <2>6. ASSUME ~misread', ~uncleared
        PROVE  /\ IsSettingsBoot(upOk) <=> "up" \in wanted
               /\ IsAltBoot(downOk, left) <=> "down" \in wanted
    <3>1. upOk /\ downOk /\ pending = latched \cup Claimed
      BY <2>2, <2>3, <2>6 DEF Decided
    <3>2. "up" \in wanted <=> "up" \in latched \/ buttonService = "volumeUp"
      BY <3>1 DEF Claimed
    <3>3. "down" \in wanted <=> "down" \in latched /\ ~AltBootForbidden
      BY <3>1 DEF Claimed
    <3> QED
      BY <2>2, <3>1, <3>2, <3>3 DEF IsSettingsBoot, IsAltBoot
  <2> QED
    BY <2>4, <2>5, <2>6
<1>2. QED
  BY <1>1, BootInvAlways, PTL DEF DeviceSpec, KeysDecideOnce
=============================================================================
