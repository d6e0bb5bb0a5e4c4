---------------------------- MODULE BootMenuOrder ----------------------------
(***************************************************************************)
(* The boot order list of the boot menu (OemPkg/BootMenu/BootMenu.c) with  *)
(* the UEFI variables it edits, and the ReadyToBoot handler of             *)
(* DeviceBootManagerLib that locks those variables.                        *)
(*                                                                         *)
(* The menu shows a snapshot of the load options named by BootOrder.  Each *)
(* gesture of the user comes back from the form browser as an array of     *)
(* slots (RouteConfig, "BootOrderConfig"); the driver compares the array   *)
(* with its snapshot, asks for confirmation, and turns the difference into *)
(* a series of separate variable writes.  Power may be lost between any    *)
(* two of them, and any of them may fail.                                  *)
(***************************************************************************)
EXTENDS Naturals, Sequences, FiniteSets

CONSTANTS
  Numbers,          (* load option numbers: the #### of Boot####            *)
  NoOption,         (* an empty slot of the list, or an absent BootNext     *)
  Hidden,           (* options with LOAD_OPTION_HIDDEN or CATEGORY_APP      *)
  Defaults,         (* options of the platform's default list               *)
  MaxShown,         (* MAX_BOOT_OPTIONS_SUPPORTED                           *)
  ServiceFailures   (* may variable, policy and setting services fail?      *)

ASSUME ConstantsAssumption ==
  /\ NoOption \notin Numbers
  /\ Hidden \subseteq Numbers
  /\ Defaults \subseteq Numbers
  /\ MaxShown \in Nat \ {0}
  /\ ServiceFailures \in BOOLEAN
  /\ Numbers \cap {"BootOrder", "BootNext"} = {}

VARIABLES
  \* Non-volatile variables.
  bootOrder,     \* BootOrder: a sequence of option numbers
  options,       \* Boot####: absent, or present and inactive or active
  bootNext,      \* BootNext
  lockSetting,   \* the BootOrderLock setting
  \* Volatile state of the platform.
  msBootNext,    \* MsBootNext
  policyLocked,  \* variables under a LOCK_NOW variable policy
  preReadyDone,  \* mPreReadyToBootEvent has been closed
  \* The boot menu driver.
  menu,          \* mBootOptions: the snapshot of the load options
  orderConfig,   \* mOrderConfiguration.OrderOptions
  pc,            \* where the driver, or the boot manager, stands
  idx,           \* the loop counter Index
  newOrder,      \* NewBootOrder
  allowSet,      \* AllowSetBootorder
  \* What the dialogs said and what was left over (read by the properties only).
  asked,         \* the option the last boot dialog named
  consent,       \* options whose deletion the user confirmed
  leftOver       \* the list holds a gesture that RouteConfig took in and gave up

nvVars     == <<bootOrder, options, bootNext, lockSetting>>
platVars   == <<msBootNext, policyLocked, preReadyDone>>
routeVars  == <<idx, newOrder, allowSet>>
dialogVars == <<asked, consent, leftOver>>
vars == <<nvVars, platVars, menu, orderConfig, pc, routeVars, dialogVars>>

OptionStates  == {"absent", "inactive", "active"}
VariableNames == Numbers \cup {"BootOrder", "BootNext"}
Slots         == 1..MaxShown
Slot          == [num : Numbers \cup {NoOption}, checked : BOOLEAN, boot : BOOLEAN]
LoadOption    == [num : Numbers, active : BOOLEAN]
EmptySlot     == [num |-> NoOption, checked |-> FALSE, boot |-> FALSE]
EmptyList     == [i \in Slots |-> EmptySlot]

ScanStates == {"scan", "bootDialog"}
DropStates == {"drop", "deleteDialog", "unlist", "erase"}
LockStates == {"lockOrder", "dropNext", "lockNext", "lockOptions"}
PcStates   == {"closed", "idle", "exited", "commit", "rebuild", "booting"}
                \cup ScanStates \cup DropStates \cup LockStates

TypeOK ==
  /\ bootOrder \in Seq(Numbers)
  /\ options \in [Numbers -> OptionStates]
  /\ bootNext \in Numbers \cup {NoOption}
  /\ lockSetting \in BOOLEAN
  /\ msBootNext \in BOOLEAN
  /\ policyLocked \in SUBSET VariableNames
  /\ preReadyDone \in BOOLEAN
  /\ menu \in Seq(LoadOption)
  /\ orderConfig \in [Slots -> Slot]
  /\ pc \in PcStates
  /\ idx \in Nat \ {0}
  /\ newOrder \in Seq(Numbers)
  /\ allowSet \in BOOLEAN
  /\ asked \in Numbers \cup {NoOption}
  /\ consent \in SUBSET Numbers
  /\ leftOver \in BOOLEAN

-----------------------------------------------------------------------------
(***************************************************************************)
(* The variable services.  A write to a locked variable is refused; any    *)
(* other write may fail when ServiceFailures holds.                        *)
(***************************************************************************)
WriteOutcomes(name) ==
  IF name \in policyLocked THEN {FALSE}
  ELSE IF ServiceFailures THEN BOOLEAN ELSE {TRUE}

ServiceOutcomes == IF ServiceFailures THEN BOOLEAN ELSE {TRUE}

Present(n)    == options[n] # "absent"
Contains(s,n) == \E i \in DOMAIN s : s[i] = n
Without(s, i) == SubSeq(s, 1, i - 1) \o SubSeq(s, i + 1, Len(s))

(***************************************************************************)
(* mBootOptionLimit, and the slots that RebuildOrderList fills.            *)
(***************************************************************************)
OptionLimit == IF Len(menu) < MaxShown THEN Len(menu) ELSE MaxShown

ListFor(m) ==
  [i \in Slots |->
     IF i <= Len(m) /\ i <= MaxShown /\ m[i].num \notin Hidden
     THEN [num |-> m[i].num, checked |-> m[i].active, boot |-> FALSE]
     ELSE EmptySlot]

(***************************************************************************)
(* The form browser.  DriverCallback answers every change of the list with *)
(* FORM_APPLY, so a submission carries one gesture: a new arrangement, a   *)
(* checkbox flipped, an option removed (only where the list entry has the  *)
(* ALLOW_DELETE bit, which the driver withholds from the default options), *)
(* or a request to boot an option now.  The list has mBootOptionLimit      *)
(* containers; the browser keeps the order of the entries but is free to   *)
(* choose in which of those it leaves the zeros.                           *)
(***************************************************************************)
Shown == {i \in Slots : orderConfig[i].num # NoOption}

Arrangements ==
  {q \in [Slots -> Shown \cup {0}] :
     /\ \A k \in Shown : \E i \in Slots : q[i] = k
     /\ \A i, j \in Slots : (q[i] = q[j] /\ q[i] # 0) => i = j
     /\ \A i \in Slots : i > OptionLimit => q[i] = 0}

Rearranged ==
  {[i \in Slots |-> IF q[i] = 0 THEN EmptySlot ELSE orderConfig[q[i]]] : q \in Arrangements}

InListOrder(cfg) ==
  \A i, j \in Slots :
     \A k, l \in Shown :
        (i < j /\ cfg[i].num = orderConfig[k].num /\ cfg[j].num = orderConfig[l].num)
          => k < l

Toggled(cfg) ==
  {[cfg EXCEPT ![i].checked = ~@] : i \in {k \in Slots : cfg[k].num # NoOption}}

DeletableAlways(n) == TRUE  \* mutant: the default list is not consulted
\* IsDefaultBootOption says FALSE when it cannot get the default list.
Deletable(n) == n \notin Defaults \/ FALSE \in ServiceOutcomes

Removed(cfg) ==
  {[cfg EXCEPT ![i] = EmptySlot] :
     i \in {k \in Slots : cfg[k].num # NoOption /\ Deletable(cfg[k].num)}}
BootRequested(cfg) ==
  {[cfg EXCEPT ![i].boot = TRUE] : i \in {k \in Slots : cfg[k].num # NoOption}}

SubmissionsBatched ==  \* mutant: DriverCallback does not request FORM_APPLY
  UNION {Toggled(cfg) \cup Removed(cfg) \cup BootRequested(cfg) : cfg \in Rearranged}

Submissions ==
  Rearranged \cup
    UNION {Toggled(cfg) \cup Removed(cfg) \cup BootRequested(cfg) :
             cfg \in {c \in Rearranged : InListOrder(c)}}

-----------------------------------------------------------------------------
(***************************************************************************)
(* A booted system starts with a BootOrder that names existing options,    *)
(* each once, and with the menu driver's data zeroed.                      *)
(***************************************************************************)
StartOrders ==
  {s \in UNION {[1..k -> Numbers] : k \in 0..Cardinality(Numbers)} :
     \A i, j \in DOMAIN s : s[i] = s[j] => i = j}

Volatile ==
  /\ msBootNext = FALSE
  /\ policyLocked = {}
  /\ preReadyDone = FALSE
  /\ menu = <<>>
  /\ orderConfig = EmptyList
  /\ pc = "closed"
  /\ idx = 1
  /\ newOrder = <<>>
  /\ allowSet = TRUE
  /\ asked = NoOption
  /\ consent = {}
  /\ leftOver = FALSE

Init ==
  /\ options \in [Numbers -> OptionStates]
  /\ bootOrder \in StartOrders
  /\ \A i \in DOMAIN bootOrder : Present(bootOrder[i])
  /\ bootNext = NoOption
  /\ lockSetting \in BOOLEAN
  /\ Volatile

(***************************************************************************)
(* A reset or a loss of power: what is not in a non-volatile variable is   *)
(* gone, whatever the code was doing.                                      *)
(***************************************************************************)
Reset ==
  /\ pc # "closed" \/ preReadyDone
  /\ msBootNext' = FALSE
  /\ policyLocked' = {}
  /\ preReadyDone' = FALSE
  /\ menu' = <<>>
  /\ orderConfig' = EmptyList
  /\ pc' = "closed"
  /\ idx' = 1
  /\ newOrder' = <<>>
  /\ allowSet' = TRUE
  /\ asked' = NoOption
  /\ consent' = {}
  /\ leftOver' = FALSE
  /\ UNCHANGED nvVars

-----------------------------------------------------------------------------
(***************************************************************************)
(* RebuildOrderList.  EfiBootManagerGetLoadOptions walks BootOrder, loads  *)
(* every option that exists and drops the reference to one that does not;  *)
(* the list is then filled from the snapshot.                              *)
(***************************************************************************)
StartRebuild ==
  /\ menu' = <<>>
  /\ orderConfig' = EmptyList
  /\ pc' = "rebuild"
  /\ idx' = 1

FormOpen ==
  /\ pc \in {"closed", "idle"}
  /\ StartRebuild
  /\ UNCHANGED <<nvVars, platVars, newOrder, allowSet, dialogVars>>

LoadPresent ==
  /\ pc = "rebuild"
  /\ idx <= Len(bootOrder)
  /\ Present(bootOrder[idx])
  /\ menu' = Append(menu, [num    |-> bootOrder[idx],
                           active |-> options[bootOrder[idx]] = "active"])
  /\ idx' = idx + 1
  /\ UNCHANGED <<nvVars, platVars, orderConfig, pc, newOrder, allowSet, dialogVars>>

PruneDangling ==
  /\ pc = "rebuild"
  /\ idx <= Len(bootOrder)
  /\ ~Present(bootOrder[idx])
  /\ \E ok \in WriteOutcomes("BootOrder") :
       IF ok THEN bootOrder' = Without(bootOrder, idx) /\ UNCHANGED idx
             ELSE idx' = idx + 1 /\ UNCHANGED bootOrder
  /\ UNCHANGED <<options, bootNext, lockSetting, platVars, menu, orderConfig, pc,
                 newOrder, allowSet, dialogVars>>

FillList ==
  /\ pc = "rebuild"
  /\ idx > Len(bootOrder)
  /\ orderConfig' = ListFor(menu)
  /\ pc' = "idle"
  /\ idx' = 1
  /\ newOrder' = <<>>
  /\ allowSet' = TRUE
  /\ asked' = NoOption
  /\ consent' = {}
  /\ leftOver' = FALSE
  /\ UNCHANGED <<nvVars, platVars, menu>>

-----------------------------------------------------------------------------
(***************************************************************************)
(* RouteConfig for BootOrderConfig.  The handler does nothing when it can  *)
(* read the BootOrderLock setting and finds it set.                        *)
(***************************************************************************)
EditAllowedAlways == TRUE  \* mutant: the BootOrderLock setting is not consulted
EditAllowed == ~lockSetting \/ FALSE \in ServiceOutcomes

RouteConfig ==
  /\ pc = "idle"
  /\ EditAllowed
  /\ orderConfig' \in Submissions
  /\ pc' = "scan"
  /\ idx' = 1
  /\ newOrder' = <<>>
  /\ allowSet' = TRUE
  /\ asked' = NoOption
  /\ consent' = {}
  /\ UNCHANGED <<nvVars, platVars, menu, leftOver>>

(***************************************************************************)
(* Two exits of the same handler do not reach the rebuild at its end.      *)
(* ConfigToBlock fails, and the list stays what it was; or NewBootOrder    *)
(* cannot be allocated after ConfigToBlock has stored the gesture, and the *)
(* next gesture of the user is read on top of this one.                    *)
(***************************************************************************)
RouteConfigGivesUp ==
  /\ pc = "idle"
  /\ EditAllowed
  /\ FALSE \in ServiceOutcomes
  /\ orderConfig' \in {orderConfig} \cup Submissions
  /\ leftOver' = (leftOver \/ orderConfig' # orderConfig)
  /\ UNCHANGED <<nvVars, platVars, menu, pc, routeVars, asked, consent>>

ScanEmptyStays ==  \* mutant: an empty slot does not advance the loop
  /\ pc = "scan"
  /\ idx <= OptionLimit
  /\ orderConfig[idx].num = NoOption
  /\ UNCHANGED vars

ScanEmpty ==
  /\ pc = "scan"
  /\ idx <= OptionLimit
  /\ orderConfig[idx].num = NoOption
  /\ idx' = idx + 1
  /\ UNCHANGED <<nvVars, platVars, menu, orderConfig, pc, newOrder, allowSet, dialogVars>>

(***************************************************************************)
(* The dialog names the option at the same position of the snapshot, not   *)
(* the option the slot holds.                                              *)
(***************************************************************************)
ScanBootRequest ==
  /\ pc = "scan"
  /\ idx <= OptionLimit
  /\ orderConfig[idx].num # NoOption
  /\ orderConfig[idx].boot
  /\ asked' = menu[idx].num
  /\ pc' = "bootDialog"
  /\ UNCHANGED <<nvVars, platVars, menu, orderConfig, routeVars, consent, leftOver>>

(***************************************************************************)
(* A checkbox that differs from the snapshot flips the snapshot's flag and *)
(* writes the option back, at once: before any later dialog is answered.   *)
(***************************************************************************)
DifferingIgnored(slot) ==  \* mutant: flips whatever the checkbox says
  {k \in 1..OptionLimit : menu[k].num = slot.num}

Differing(slot) ==
  {k \in 1..OptionLimit : menu[k].num = slot.num /\ menu[k].active # slot.checked}

Flag(active) == IF active THEN "active" ELSE "inactive"

AtOption ==
  /\ pc = "scan"
  /\ idx <= OptionLimit
  /\ orderConfig[idx].num # NoOption
  /\ ~orderConfig[idx].boot

ScanOption ==
  /\ AtOption
  /\ Differing(orderConfig[idx]) = {}
  /\ newOrder' = Append(newOrder, orderConfig[idx].num)
  /\ idx' = idx + 1
  /\ UNCHANGED <<nvVars, platVars, menu, orderConfig, pc, allowSet, dialogVars>>

ScanToggled ==
  /\ AtOption
  /\ newOrder' = Append(newOrder, orderConfig[idx].num)
  /\ \E k \in Differing(orderConfig[idx]) :
       /\ menu' = [menu EXCEPT ![k].active = ~@]
       /\ \E ok \in WriteOutcomes(menu[k].num) :
            options' = IF ok THEN [options EXCEPT ![menu[k].num] = Flag(~menu[k].active)]
                             ELSE options
  /\ idx' = idx + 1
  /\ UNCHANGED <<bootOrder, bootNext, lockSetting, platVars, orderConfig, pc,
                 allowSet, dialogVars>>

ScanBeyondList ==
  /\ pc = "scan"
  /\ OptionLimit < idx
  /\ idx <= Len(menu)
  /\ newOrder' = Append(newOrder, menu[idx].num)
  /\ idx' = idx + 1
  /\ UNCHANGED <<nvVars, platVars, menu, orderConfig, pc, allowSet, dialogVars>>

ScanDoneFromZero ==  \* mutant: the index of the delete loop starts one too low
  /\ pc = "scan"
  /\ idx > Len(menu)
  /\ pc' = IF Len(menu) # Len(newOrder) THEN "drop" ELSE "commit"
  /\ allowSet' = (Len(menu) = Len(newOrder))
  /\ idx' = 0
  /\ UNCHANGED <<nvVars, platVars, menu, orderConfig, newOrder, dialogVars>>

ScanDone ==
  /\ pc = "scan"
  /\ idx > Len(menu)
  /\ pc' = IF Len(menu) # Len(newOrder) THEN "drop" ELSE "commit"
  /\ allowSet' = (Len(menu) = Len(newOrder))
  /\ idx' = 1
  /\ UNCHANGED <<nvVars, platVars, menu, orderConfig, newOrder, dialogVars>>

BootConfirmed ==
  /\ pc = "bootDialog"
  /\ \E ok \in WriteOutcomes("BootNext") :
       IF ok THEN /\ bootNext' = orderConfig[idx].num
                  /\ \E stored \in ServiceOutcomes : msBootNext' = (stored \/ msBootNext)
             ELSE UNCHANGED <<bootNext, msBootNext>>
  /\ pc' = "exited"
  /\ UNCHANGED <<bootOrder, options, lockSetting, policyLocked, preReadyDone,
                 menu, orderConfig, routeVars, dialogVars>>

BootDeclined ==
  /\ pc = "bootDialog"
  /\ StartRebuild
  /\ UNCHANGED <<nvVars, platVars, newOrder, allowSet, dialogVars>>

-----------------------------------------------------------------------------
(***************************************************************************)
(* Deleted options.  The numbers that made it into NewBootOrder are marked *)
(* unassigned; each remaining one is put to the user.  Deleting an option  *)
(* takes it off BootOrder first and then erases its Boot#### variable.     *)
(***************************************************************************)
DropKept ==
  /\ pc = "drop"
  /\ idx <= OptionLimit
  /\ Contains(newOrder, menu[idx].num)
  /\ idx' = idx + 1
  /\ UNCHANGED <<nvVars, platVars, menu, orderConfig, pc, newOrder, allowSet, dialogVars>>

DropAsk ==
  /\ pc = "drop"
  /\ idx <= OptionLimit
  /\ ~Contains(newOrder, menu[idx].num)
  /\ pc' = "deleteDialog"
  /\ UNCHANGED <<nvVars, platVars, menu, orderConfig, routeVars, dialogVars>>

DropDone ==
  /\ pc = "drop"
  /\ idx > OptionLimit
  /\ pc' = "commit"
  /\ UNCHANGED <<nvVars, platVars, menu, orderConfig, routeVars, dialogVars>>

DeleteDeclinedAllows ==  \* mutant: any answer allows the new order
  /\ pc = "deleteDialog"
  /\ pc' = "drop"
  /\ idx' = idx + 1
  /\ allowSet' = TRUE
  /\ UNCHANGED <<nvVars, platVars, menu, orderConfig, newOrder, dialogVars>>

DeleteDeclined ==
  /\ pc = "deleteDialog"
  /\ pc' = "drop"
  /\ idx' = idx + 1
  /\ UNCHANGED <<nvVars, platVars, menu, orderConfig, newOrder, allowSet, dialogVars>>

DeleteConfirmed ==
  /\ pc = "deleteDialog"
  /\ allowSet' = TRUE
  /\ consent' = consent \cup {menu[idx].num}
  /\ pc' = "unlist"
  /\ UNCHANGED <<nvVars, platVars, menu, orderConfig, idx, newOrder, asked, leftOver>>

UnlistNothing ==  \* mutant: the option is erased while BootOrder still names it
  /\ pc = "unlist"
  /\ pc' = "erase"
  /\ UNCHANGED <<nvVars, platVars, menu, orderConfig, routeVars, dialogVars>>

Unlist ==
  /\ pc = "unlist"
  /\ \E ok \in WriteOutcomes("BootOrder") :
       IF ok /\ Contains(bootOrder, menu[idx].num)
       THEN \E i \in DOMAIN bootOrder : /\ bootOrder[i] = menu[idx].num
                                        /\ bootOrder' = Without(bootOrder, i)
       ELSE UNCHANGED bootOrder
  /\ pc' = "erase"
  /\ UNCHANGED <<options, bootNext, lockSetting, platVars, menu, orderConfig,
                 routeVars, dialogVars>>

EraseNothing ==  \* mutant: only the reference in BootOrder is deleted
  /\ pc = "erase"
  /\ pc' = "drop"
  /\ idx' = idx + 1
  /\ UNCHANGED <<nvVars, platVars, menu, orderConfig, newOrder, allowSet, dialogVars>>

EraseOption ==
  /\ pc = "erase"
  /\ \E ok \in WriteOutcomes(menu[idx].num) :
       options' = IF ok THEN [options EXCEPT ![menu[idx].num] = "absent"] ELSE options
  /\ pc' = "drop"
  /\ idx' = idx + 1
  /\ UNCHANGED <<bootOrder, bootNext, lockSetting, platVars, menu, orderConfig,
                 newOrder, allowSet, dialogVars>>

(***************************************************************************)
(* The new order is written unless every deletion was declined, and the    *)
(* list is rebuilt from the variables whether or not the write succeeded.  *)
(***************************************************************************)
CommitIfWritten ==  \* mutant: no rebuild when the write fails
  /\ pc = "commit"
  /\ \E ok \in WriteOutcomes("BootOrder") :
       /\ bootOrder' = IF allowSet /\ ok THEN newOrder ELSE bootOrder
       /\ IF ok THEN StartRebuild
                ELSE pc' = "idle" /\ UNCHANGED <<menu, orderConfig, idx>>
  /\ UNCHANGED <<options, bootNext, lockSetting, platVars, newOrder, allowSet, dialogVars>>

Commit ==
  /\ pc = "commit"
  /\ \E ok \in WriteOutcomes("BootOrder") :
       bootOrder' = IF allowSet /\ ok THEN newOrder ELSE bootOrder
  /\ StartRebuild
  /\ UNCHANGED <<options, bootNext, lockSetting, platVars, newOrder, allowSet, dialogVars>>

-----------------------------------------------------------------------------
(***************************************************************************)
(* The settings page changes BootOrderLock.  Settings close at             *)
(* ReadyToBoot (DeviceBootManagerUnableToBoot says so).                    *)
(***************************************************************************)
SetLockSetting ==
  /\ pc = "idle"
  /\ ~preReadyDone
  /\ lockSetting' = ~lockSetting
  /\ UNCHANGED <<bootOrder, options, bootNext, platVars, menu, orderConfig, pc,
                 routeVars, dialogVars>>

(***************************************************************************)
(* BDS starts a load option: it may consume BootNext, then signals         *)
(* PreReadyToBoot.  The handler runs once per boot, since it closes its    *)
(* own event.                                                              *)
(***************************************************************************)
StartBoot ==
  /\ pc \in {"closed", "idle", "exited"}
  /\ bootNext' \in {bootNext, NoOption}
  /\ pc' = IF preReadyDone THEN "booting" ELSE "lockOrder"
  /\ UNCHANGED <<bootOrder, options, lockSetting, platVars, menu, orderConfig,
                 routeVars, dialogVars>>

(***************************************************************************)
(* BdsBootLockBootVariables.                                               *)
(***************************************************************************)
LockSkipped ==
  /\ pc = "lockOrder"
  /\ ~lockSetting \/ FALSE \in ServiceOutcomes
  /\ pc' = "booting"
  /\ preReadyDone' = TRUE
  /\ UNCHANGED <<nvVars, msBootNext, policyLocked, menu, orderConfig, routeVars, dialogVars>>

LockBootOrder ==
  /\ pc = "lockOrder"
  /\ lockSetting
  /\ \E ok \in ServiceOutcomes :
       policyLocked' = IF ok THEN policyLocked \cup {"BootOrder"} ELSE policyLocked
  /\ pc' = "dropNext"
  /\ UNCHANGED <<nvVars, msBootNext, preReadyDone, menu, orderConfig, routeVars, dialogVars>>

DeleteBootNextForgotten ==  \* mutant: BootNext is locked as it is
  /\ pc = "dropNext"
  /\ pc' = "lockNext"
  /\ UNCHANGED <<nvVars, platVars, menu, orderConfig, routeVars, dialogVars>>

DeleteBootNext ==
  /\ pc = "dropNext"
  /\ \E ok \in WriteOutcomes("BootNext") :
       bootNext' = IF ok THEN NoOption ELSE bootNext
  /\ pc' = "lockNext"
  /\ UNCHANGED <<bootOrder, options, lockSetting, platVars, menu, orderConfig,
                 routeVars, dialogVars>>

LockBootNext ==
  /\ pc = "lockNext"
  /\ \E ok \in ServiceOutcomes :
       policyLocked' = IF ok THEN policyLocked \cup {"BootNext"} ELSE policyLocked
  /\ pc' = "lockOptions"
  /\ UNCHANGED <<nvVars, msBootNext, preReadyDone, menu, orderConfig, routeVars, dialogVars>>

LockOptionsFromSecond ==  \* mutant: the loop over BootOrder starts at its second entry
  /\ pc = "lockOptions"
  /\ policyLocked' = policyLocked \cup {bootOrder[i] : i \in DOMAIN bootOrder \ {1}}
  /\ preReadyDone' = TRUE
  /\ pc' = "booting"
  /\ UNCHANGED <<nvVars, msBootNext, menu, orderConfig, routeVars, dialogVars>>

LockOptions ==
  /\ pc = "lockOptions"
  /\ LET listed == {bootOrder[i] : i \in DOMAIN bootOrder}
     IN  \E refused \in (IF ServiceFailures THEN SUBSET listed ELSE {{}}) :
           policyLocked' = policyLocked \cup (listed \ refused)
  /\ preReadyDone' = TRUE
  /\ pc' = "booting"
  /\ UNCHANGED <<nvVars, msBootNext, menu, orderConfig, routeVars, dialogVars>>

(***************************************************************************)
(* The option returned, and the boot manager falls back to its menu.       *)
(***************************************************************************)
BootReturned ==
  /\ pc = "booting"
  /\ pc' = "closed"
  /\ UNCHANGED <<nvVars, platVars, menu, orderConfig, routeVars, dialogVars>>

-----------------------------------------------------------------------------
Rebuild  == LoadPresent \/ PruneDangling \/ FillList
Scan     == ScanEmpty \/ ScanBootRequest \/ ScanOption \/ ScanToggled
              \/ ScanBeyondList \/ ScanDone
Drop     == DropKept \/ DropAsk \/ DropDone \/ Unlist \/ EraseOption
Answer   == BootConfirmed \/ BootDeclined \/ DeleteConfirmed \/ DeleteDeclined
Lock     == LockSkipped \/ LockBootOrder \/ DeleteBootNext \/ LockBootNext \/ LockOptions

Code == Rebuild \/ Scan \/ Drop \/ Commit \/ Lock
User == FormOpen \/ RouteConfig \/ RouteConfigGivesUp \/ SetLockSetting \/ Answer \/ StartBoot
Next == Code \/ User \/ BootReturned \/ Reset

Spec == Init /\ [][Next]_vars

(***************************************************************************)
(* The handlers are straight-line code that nothing preempts, so each of   *)
(* their steps is weakly fair; the user owes nobody an answer (the dialogs *)
(* are opened with no timeout).                                            *)
(***************************************************************************)
FairSpec == Spec /\ WF_vars(Code)

-----------------------------------------------------------------------------
Listed(n) == Contains(bootOrder, n)

(***************************************************************************)
(* BootOrder never names an option that does not exist and never names one *)
(* twice: not in the middle of a deletion, which takes an option off the   *)
(* list before erasing it, and not after a power loss at any point.        *)
(***************************************************************************)
OrderNamesOptions ==
  \A i, j \in DOMAIN bootOrder :
     Present(bootOrder[i]) /\ (bootOrder[i] = bootOrder[j] => i = j)

(***************************************************************************)
(* An option leaves BootOrder only if the user confirmed its deletion (or  *)
(* its Boot#### variable is gone, and the reference is being pruned):      *)
(* "only allow setting the boot order if confirmation is YES".  On top of  *)
(* a gesture that an earlier submission left over, one submission can ask  *)
(* for several deletions, and then one YES lets all of them go, also those *)
(* answered NO.                                                            *)
(***************************************************************************)
LossNeedsConsent ==
  [][\A n \in Numbers : (Listed(n) /\ ~Listed(n)') =>
       (n \in consent \/ ~Present(n) \/ (leftOver /\ consent # {}))]_vars

(***************************************************************************)
(* When the deletions of a gesture are over, each one the user confirmed   *)
(* is done: off the list, and erased.  The order written last must not     *)
(* bring a deleted option back.                                            *)
(***************************************************************************)
ConfirmedDeletionDone ==
  pc \in {"rebuild", "idle"} => \A n \in consent : ~Present(n) /\ ~Listed(n)

(***************************************************************************)
(* The boot dialog describes mBootOptions[Index] while BootNext gets the   *)
(* number held by slot Index; what the user confirms is what will boot.    *)
(***************************************************************************)
DialogNamesTarget ==
  pc = "bootDialog" => asked = orderConfig[idx].num

(***************************************************************************)
(* The snapshot holds the options that exist among the first n entries of  *)
(* BootOrder, in their order, with their flags: entry k comes from         *)
(* position at[k].                                                         *)
(***************************************************************************)
LoadedUpTo(n) ==
  \E at \in [1..Len(menu) -> 1..n] :
     /\ \A k, l \in 1..Len(menu) : k < l => at[k] < at[l]
     /\ \A k \in 1..Len(menu) :
          /\ Present(bootOrder[at[k]])
          /\ menu[k] = [num    |-> bootOrder[at[k]],
                        active |-> options[bootOrder[at[k]]] = "active"]
     /\ \A i \in 1..n : Present(bootOrder[i]) => \E k \in 1..Len(menu) : at[k] = i

(***************************************************************************)
(* While the form waits for the user, what it shows is what the variables  *)
(* hold: whatever part of a gesture was refused, declined, failed or done  *)
(* halfway, the list has been rebuilt since.  Two exits of RouteConfig     *)
(* skip the rebuild.  Neither has written a variable, so the snapshot is   *)
(* still true; only the order and the checkboxes of a submission for which *)
(* no memory was left stay on screen, until the list is rebuilt.           *)
(***************************************************************************)
ScreenMatchesVariables ==
  pc = "idle" => LoadedUpTo(Len(bootOrder)) /\ (orderConfig = ListFor(menu) \/ leftOver)

(***************************************************************************)
(* LOAD_OPTION_ACTIVE of an option changes only to what the checkbox of    *)
(* that same option says, wherever the gesture moved its slot.             *)
(***************************************************************************)
FlagFollowsCheckbox ==
  [][\A n \in Numbers :
       (options'[n] # options[n] /\ options'[n] # "absent") =>
         \E i \in Slots : /\ orderConfig[i].num = n
                          /\ options'[n] = Flag(orderConfig[i].checked)]_vars

(***************************************************************************)
(* "A locked BootNext is a bad thing": BootNext is empty whenever the      *)
(* policy stops the code from consuming it.                                *)
(***************************************************************************)
NoLockedBootNext == "BootNext" \in policyLocked => bootNext = NoOption

(***************************************************************************)
(* With the BootOrderLock setting on, every option is started with         *)
(* BootOrder, BootNext and all the options BootOrder names locked, also    *)
(* when earlier options were tried and returned.                           *)
(***************************************************************************)
LockedTogether ==
  (pc = "booting" /\ lockSetting) =>
    {"BootOrder", "BootNext"} \cup {n \in Numbers : Listed(n)} \subseteq policyLocked

(***************************************************************************)
(* While the BootOrderLock setting is on the menu changes neither the      *)
(* order nor any load option: the check at the top of RouteConfig covers   *)
(* every write that follows it.                                            *)
(***************************************************************************)
LockHonoured == [][lockSetting => UNCHANGED <<bootOrder, options>>]_vars

(***************************************************************************)
(* A gesture, a rebuild and a ReadyToBoot event always come to an end, or  *)
(* to a dialog that waits for the user.                                    *)
(***************************************************************************)
HandlerReturns ==
  pc \in {"scan", "drop", "unlist", "erase", "commit", "rebuild"} \cup LockStates
    ~> pc \in {"closed", "idle", "bootDialog", "deleteDialog", "booting"}

(***************************************************************************)
(* What the boot menu promises, as one atomic step per change.             *)
(***************************************************************************)
Contract ==
  INSTANCE BootOrderContract WITH
    order <- bootOrder, flags <- options, next <- bootNext, locked <- lockSetting
ContractSpec == Contract!Spec
=============================================================================
