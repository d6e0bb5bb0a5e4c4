------------------------------ MODULE DeviceBoot ------------------------------
(***************************************************************************)
(* One boot as DeviceBootManagerLib and MsBootPolicyLib steer it: the      *)
(* checks of PreBootChecks, then the keys held at power-on, then the boot  *)
(* options, each of which must pass the policy on devices before its image *)
(* is loaded, and what is done once before the first of them starts.       *)
(*                                                                         *)
(* BDS, the settings manager and a platform's own button service are       *)
(* outside the repository; the repository's button service,                *)
(* FrontpageButtonsVolumeUp, always asks for FrontPage.                    *)
(***************************************************************************)
EXTENDS PreBootChecks, Sequences

S == INSTANCE SequencesExt

CONSTANTS
  Images,               (* what BDS may be asked to load: [path, valid] records *)
  SdCard,               (* the platform's SD card: a set of at most one path    *)
  BdsBootPolicy,        (* PcdBdsBootPolicy: the policy is built into BDS       *)
  StartNetworkDefault,  (* PcdStartNetwork                                      *)
  MaxTried              (* bound on the options tried in one boot               *)

ASSUME DeviceAssumption ==
  /\ BdsBootPolicy \in BOOLEAN
  /\ StartNetworkDefault \in BOOLEAN
  /\ MaxTried \in Nat

Keys     == {"up", "down"}
Services == {"none", "platform", "volumeUp"}

VARIABLES
  \* The machine.
  buttonService,   \* which button service is installed, if any
  latched,         \* keys the service remembers; they survive a warm reset
  \* The owner's settings, and whether the settings manager answers in this boot.
  altBoot, usbBoot, startNetwork, answers,
  \* The firmware.
  stage,
  request,         \* what DeviceBootManagerPriorityBoot returned
  image,           \* the image being loaded or running, if it is not <<>>
  tried,
  firstPass,       \* FirstPass of PostReadyToBoot
  networking,      \* times StartNetworking was called
  signatures,      \* times UpdateFacsHardwareSignature was called
  \* Read by the properties only.
  pending,         \* keys pressed at power-on that no boot has acted on yet
  misread,         \* the button service failed to say what was pressed in this boot
  uncleared,       \* it failed to forget the keys when it was last asked to
  networkRead      \* how the first pass of PostReadyToBoot read START_NETWORK

machine     == <<buttonService, altBoot, usbBoot, startNetwork, answers>>
keys        == <<latched, pending, misread, uncleared>>
oncePerBoot == <<firstPass, networking, signatures, networkRead>>
progress    == <<request, image, tried>>
deviceVars  == <<machine, keys, stage, progress, oncePerBoot>>
bootVars    == <<vars, deviceVars>>

Stages   == {"checks", "priority", "options", "loading", "readyToBoot",
             "running", "unable", "off"}
Requests == {"none", "NS", "MA", "VOL+"}

(***************************************************************************)
(* The applications in the firmware volume that the keys lead to.          *)
(***************************************************************************)
App       == [path |-> <<"fv", "app">>, valid |-> TRUE]
FrontPage == [path |-> <<"fv", "menu">>, valid |-> TRUE]
Loadable  == Images \cup {App, FrontPage}

BootTypeOK ==
  /\ TypeOK
  /\ buttonService \in Services
  /\ latched \subseteq Keys
  /\ altBoot \in BOOLEAN /\ usbBoot \in BOOLEAN /\ startNetwork \in BOOLEAN
  /\ answers \in BOOLEAN
  /\ stage \in Stages
  /\ request \in Requests
  /\ image \in {<<>>} \cup {<<i>> : i \in Loadable}
  /\ image # <<>> <=> stage \in {"loading", "readyToBoot", "running"}
  /\ tried \in 0..MaxTried
  /\ firstPass \in BOOLEAN
  /\ networking \in Nat
  /\ signatures \in Nat
  /\ pending \subseteq Keys
  /\ misread \in BOOLEAN /\ uncleared \in BOOLEAN
  /\ networkRead \in {"unread", "value", "default", "error"}
  /\ firstPass <=> networkRead = "unread"

(***************************************************************************)
(* What a start leaves of the keys: a platform's service latches those     *)
(* held at power-on and keeps them over a warm reset; FrontpageButtons-    *)
(* VolumeUp claims volume-up at every start.                               *)
(***************************************************************************)
Claimed == IF buttonService = "volumeUp" THEN {"up"} ELSE {}

FreshBoot ==
  /\ stage' = "checks"
  /\ request' = "none"
  /\ image' = <<>>
  /\ tried' = 0
  /\ firstPass' = TRUE
  /\ networking' = 0
  /\ signatures' = 0
  /\ networkRead' = "unread"
  /\ misread' = FALSE

DeviceInit ==
  /\ Init
  /\ buttonService \in Services
  /\ \E held \in SUBSET Keys :
       /\ latched = IF buttonService = "platform" THEN held ELSE {}
       /\ pending = latched \cup Claimed
  /\ altBoot \in BOOLEAN /\ usbBoot \in BOOLEAN /\ startNetwork \in BOOLEAN
  /\ answers \in BOOLEAN
  /\ stage = "checks"
  /\ request = "none"
  /\ image = <<>>
  /\ tried = 0
  /\ firstPass = TRUE
  /\ networking = 0
  /\ signatures = 0
  /\ networkRead = "unread"
  /\ misread = FALSE
  /\ uncleared = FALSE

ColdStart ==
  /\ stage = "off"
  /\ PowerOn
  /\ FreshBoot
  /\ \E held \in SUBSET Keys :
       /\ latched' = IF buttonService = "platform" THEN held ELSE {}
       /\ pending' = latched' \cup Claimed
  /\ uncleared' = FALSE
  /\ UNCHANGED machine

WarmReset ==
  /\ PowerOn
  /\ FreshBoot
  /\ pending' = pending \cup Claimed
  /\ UNCHANGED <<machine, latched, uncleared>>

-----------------------------------------------------------------------------
(***************************************************************************)
(* DeviceBootManagerAfterConsole: the checks, which return or shut down.   *)
(***************************************************************************)
AfterConsole ==
  /\ stage = "checks"
  /\ Checks
  /\ stage' = CASE pc' = "boot" -> "priority"
                [] pc' \in Ends \ {"boot"} -> "off"
                [] OTHER -> "checks"
  /\ UNCHANGED <<machine, keys, progress, oncePerBoot>>

(***************************************************************************)
(* MsBootPolicyLib's questions to the button service.  A missing service   *)
(* counts as no key, and so does one that fails to answer for volume-up;   *)
(* for volume-down what a failing service has left in the answer is taken. *)
(* A setting that cannot be read counts as enabled.                        *)
(***************************************************************************)
IsSettingsBoot(ok) ==
  \/ buttonService = "platform" /\ ok /\ "up" \in latched
  \/ buttonService = "volumeUp"

AltBootForbidden == answers /\ ~altBoot

IsAltBoot(ok, left) ==
  /\ ~AltBootForbidden
  /\ buttonService = "platform"
  /\ IF ok THEN "down" \in latched ELSE left

ClearBootRequestsNever(ok) ==  \* mutant: the latched keys stay for the next boot
  UNCHANGED latched

(***************************************************************************)
(* A service that fails may have cleared its keys or not; nobody looks at  *)
(* the status.                                                             *)
(***************************************************************************)
ClearBootRequests(ok) ==
  latched' \in IF ok THEN {{}} ELSE SUBSET latched

PriorityRequest(frontPageBoot, altDeviceBoot) ==
  IF altDeviceBoot
  THEN IF frontPageBoot THEN "NS" ELSE "MA"
  ELSE IF frontPageBoot THEN "VOL+" ELSE "none"

PriorityBoot ==
  /\ stage = "priority"
  /\ \E upOk, downOk, left, cleared, found \in BOOLEAN :
       /\ upOk \/ buttonService = "platform"
       /\ downOk \/ (buttonService = "platform" /\ ~AltBootForbidden)
       /\ cleared \/ buttonService = "platform"
       /\ misread' = (~upOk \/ ~downOk)
       /\ request' = PriorityRequest(IsSettingsBoot(upOk), IsAltBoot(downOk, left))
       /\ ClearBootRequests(cleared)
       /\ uncleared' = ~cleared
       /\ IF request' # "none" /\ found
          THEN /\ image' = <<IF request' = "VOL+" THEN FrontPage ELSE App>>
               /\ stage' = IF request' = "VOL+" THEN "loading" ELSE "readyToBoot"
          ELSE stage' = "options" /\ UNCHANGED image
  /\ pending' = {}
  /\ UNCHANGED <<vars, machine, tried, oncePerBoot>>

-----------------------------------------------------------------------------
(***************************************************************************)
(* BDS takes the next option and signals ReadyToBoot before it loads it,   *)
(* unless it is FrontPage.                                                 *)
(***************************************************************************)
NextOption ==
  /\ stage = "options"
  /\ tried < MaxTried
  /\ tried' = tried + 1
  /\ \E i \in Images : image' = <<i>>
  /\ stage' = "readyToBoot"
  /\ UNCHANGED <<vars, machine, keys, request, oncePerBoot>>

NoMoreOptions ==
  /\ stage = "options"
  /\ stage' = "unable"
  /\ UNCHANGED <<vars, machine, keys, progress, oncePerBoot>>

(***************************************************************************)
(* Whether the first pass starts the network: GetBootManagerSetting gives  *)
(* the owner's value, or the build's when the settings variable cannot be  *)
(* read; an error it returns means no.                                     *)
(***************************************************************************)
StartNetworkStack(read) ==
  \/ read = "value" /\ startNetwork
  \/ read = "default" /\ StartNetworkDefault

PostReadyToBootAlways ==  \* mutant: FirstPass is not cleared
  /\ stage = "readyToBoot"
  /\ networkRead' \in {"value", "default", "error"}
  /\ networking' = networking + (IF StartNetworkStack(networkRead') THEN 1 ELSE 0)
  /\ signatures' = signatures + 1
  /\ stage' = "loading"
  /\ UNCHANGED <<vars, machine, keys, progress, firstPass>>

(***************************************************************************)
(* PostReadyToBoot, signalled for every option of the boot.                *)
(***************************************************************************)
PostReadyToBoot ==
  /\ stage = "readyToBoot"
  /\ IF firstPass
     THEN /\ networkRead' \in {"value", "default", "error"}
          /\ networking' = networking + (IF StartNetworkStack(networkRead') THEN 1 ELSE 0)
          /\ signatures' = signatures + 1
     ELSE UNCHANGED <<networkRead, networking, signatures>>
  /\ firstPass' = FALSE
  /\ stage' = "loading"
  /\ UNCHANGED <<vars, machine, keys, progress>>

(***************************************************************************)
(* MsBootPolicyLibIsDevicePathBootable.  A path that is not known is not   *)
(* excluded; one that is not valid is.  Only a path longer than the SD     *)
(* card's is compared with it: the card's own path passes.  USB devices    *)
(* count only while the owner has forbidden them, and the setting counts   *)
(* as enabled when it cannot be read.                                      *)
(***************************************************************************)
UsbNodes == {"usb", "usbWwid", "usbClass"}

OnSdCard(path) == \E card \in SdCard : S!IsStrictPrefix(card, path)

UsesUsb(path) == \E n \in 1..Len(path) : path[n] \in UsbNodes

IsDevicePathBootable(i) ==
  \/ i.path = <<>>
  \/ /\ i.valid
     /\ ~OnSdCard(i.path)
     /\ ~(answers /\ ~usbBoot /\ UsesUsb(i.path))

(***************************************************************************)
(* LocalLoadImage, which the library puts in the place of gBS->LoadImage   *)
(* where it is built into BDS, refuses or hands the image on.              *)
(***************************************************************************)
LoadImage ==
  /\ stage = "loading"
  /\ \/ /\ BdsBootPolicy => IsDevicePathBootable(image[1])
        /\ stage' = "running"
        /\ UNCHANGED image
     \/ stage' = "options" /\ image' = <<>>
  /\ UNCHANGED <<vars, machine, keys, request, tried, oncePerBoot>>

ImageReturns ==
  /\ stage = "running"
  /\ stage' = "options"
  /\ image' = <<>>
  /\ UNCHANGED <<vars, machine, keys, request, tried, oncePerBoot>>

Restart == stage \in {"running", "unable"} /\ WarmReset

SwitchOff ==
  /\ stage = "running"
  /\ stage' = "off"
  /\ image' = <<>>
  /\ UNCHANGED <<vars, machine, keys, request, tried, oncePerBoot>>

DeviceNext ==
  \/ AfterConsole \/ PriorityBoot \/ NextOption \/ NoMoreOptions \/ PostReadyToBoot
  \/ LoadImage \/ ImageReturns \/ Restart \/ SwitchOff \/ ColdStart

(***************************************************************************)
(* The checks run on the only thread and their waits are timed.            *)
(***************************************************************************)
DeviceSpec == DeviceInit /\ [][DeviceNext]_bootVars /\ WF_bootVars(AfterConsole)

-----------------------------------------------------------------------------
(***************************************************************************)
(* A key press is acted on once.  The service keeps it until it is told to *)
(* forget it, over warm resets too, so a boot must decide on the keys      *)
(* pressed since the last decision, and on no older ones: both ask for the *)
(* network unlock, either for its application, volume-down only while the  *)
(* owner allows it.  A service that fails to say what was pressed, or has  *)
(* failed to forget it in the boot before, can mislead the decision, but   *)
(* not past the owner's setting, and a failure to answer does not make a   *)
(* volume-up press out of none.                                            *)
(***************************************************************************)
KeysDecideOnce ==
  [][stage = "priority" =>
       LET wanted == IF AltBootForbidden THEN pending \ {"down"} ELSE pending
       IN  /\ ~misread' /\ ~uncleared =>
                /\ request' \in {"NS", "VOL+"} <=> "up" \in wanted
                /\ request' \in {"NS", "MA"} <=> "down" \in wanted
           /\ AltBootForbidden => request' \notin {"NS", "MA"}
           /\ request' \in {"NS", "VOL+"} => "up" \in pending \/ uncleared]_bootVars

(***************************************************************************)
(* When an option that was announced by ReadyToBoot runs, the hardware     *)
(* signature has been computed once in this boot, and the network started  *)
(* once if what the first pass read asked for it: the owner's value, or    *)
(* the build's if the variable could not be read.  A later option neither  *)
(* reads again nor starts again.                                           *)
(***************************************************************************)
OncePerBoot ==
  stage = "running" /\ image[1] # FrontPage =>
    /\ signatures = 1
    /\ networking = (CASE networkRead = "value"   -> IF startNetwork THEN 1 ELSE 0
                       [] networkRead = "default" -> IF StartNetworkDefault THEN 1 ELSE 0
                       [] OTHER                   -> 0)
=============================================================================
