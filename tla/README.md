# A verified model of mu_oem_sample

`mu_oem_sample` is the sample OEM layer of Project Mu firmware: what a platform
adds to UEFI's Boot Device Selection (BDS) phase. It decides whether the machine
may boot, what is booted first, what is locked before an option is started, and it
gives the user FrontPage (the setup screen) with a boot menu in it. This directory
holds TLA+ modules translated from that C code, TLC runs that check them on small
instances, and TLAPS proofs that hold for every value of the constants.

Paths below are relative to the repository; `OemPkg/Library/X` is written `X`.

## 1. Inventory

The firmware is single-threaded: handlers are straight-line code that is only
interrupted by waiting for the user (dialogs), by a started option that never
returns, or by power loss. What makes it hard is that nearly everything it does is a
*sequence of separate writes to UEFI variables*, some volatile and some not, that
any of those writes can be refused, and that cooperation between components goes
through variables that outlive the boot.

| Component | State | Operations | What makes it correct | Modules |
|---|---|---|---|---|
| `OemPkg/BootMenu` | snapshot `mBootOptions`, the list `mOrderConfiguration`, three settings page buffers, `mAuthToken`; writes `BootOrder`, `Boot####`, `BootNext`, `MsBootNext` | FORM_OPEN, RouteConfig, ExtractConfig, dialogs | BootOrder names existing options once; nothing lost without consent; the screen agrees with the variables; the lock is honoured; the page writes only what was ticked | `BootMenuOrder`, `BootOrderContract`, `SettingsPage` |
| `DeviceBootManagerLib` | events, static flags; writes variable policies, `OsIndications`, `BootNext` | BDS hooks (entry, console, priority boot, completion, unable to boot), PreReadyToBoot, PostReadyToBoot, pre-boot checks | everything is locked before an option starts; the checks reach a verdict that follows the platform; failures end in front of the user; a key decides one boot | `BootMenuOrder`, `PreBootChecks`, `DeviceBoot`, `RebootReason` |
| `MsNVBootReasonLib` | `RebootReason` (NV), `SecureBootAlert` (volatile) | Set, Update, Get, Clear | a Secure Boot failure is kept until told, told once, never invented | `RebootReason` |
| `OemPkg/FrontPage` | menu and form indices, token, `mResetRequired`, the master frame event | UefiMain, UiCallback, notifications, password challenge, Secure Boot keys | no full menu without a token; pending resets happen; alerts reach the user | `RebootReason`, `FrontPageSession` |
| `MsBootManagerSettingsDxeLib` | the settings variable | create, convert, upgrade, get/set/default per setting | settings survive starts, upgrades and power loss | `BootManagerSettings`, `SettingsContract` |
| `PasswordStoreLib`, `PasswordPolicyLib` | the password hash variable | initialise, set, is-set, authenticate, hash | a password is lost only by the user's choice (or a failing read); only its owner passes | `PasswordStore` |
| `MsBootPolicyLib`, `FrontpageButtonsVolumeUp` | the button service and what it latches | which boot is requested, clear, is a device path bootable, LoadImage | requests are read once and cleared; the device policy is asked before an image is loaded | `DeviceBoot` |
| `MsSecureBootModeSettingLib` | Secure Boot variables | key enum get/set | the keys become those asked for, or none | `SecureBootModes` |
| `OemConfigPolicyCreatorPei`, `ActiveProfileIndexSelectorPcdLib` | knob caches, two policies | profile selection, overrides, rollback, publication | what is published is one profile as a whole | `ConfigPolicy` |
| `UpdateFacsHardwareSignatureLib` | the buffer of one computation, the FACS field | measuring, allocating, filling, compacting the memory map in place, CRC | the signature tells machines apart; no descriptor is overwritten before it is read | `HardwareSignature` |
| `MsAltBootLib`, `MuUefiVersionLib`, `BootManagerPolicyDxe`, Dfci libraries, `OemMfciLib`, `DeviceStatePei`, `BootGraphicsProviderLib`, `PasswordPolicyLibNull`, `HelloUefi` | little or none | lookups, one-shot computations | see `PROJECT.json` for each | none |

Interactions: BootMenu is a form inside FrontPage and leaves `BootNext` and
`MsBootNext` behind; FrontPage acts on `BootNext` when it ends; BDS calls the hooks of
DeviceBootManagerLib, which read and write `RebootReason` through MsNVBootReasonLib;
FrontPage consumes `RebootReason` and `SecureBootAlert`; PreReadyToBoot freezes the
variables that BootMenu edits; settings (BootOrderLock, ...) come from
MsBootManagerSettingsDxeLib through the DFCI settings provider.

The hazards, each at its line, are listed in `PROJECT.json` with the properties that
would catch them.

## 2. Modules

### `BootMenuOrder`: the boot order list and the lock (the core)

Translates `RouteConfig`, `RebuildOrderList`, `DriverCallback`, `IsDefaultBootOption`
and `GetSetting` of `BootMenu.c` and `BdsBootLockBootVariables` / `PreReadyToBoot` of
`DeviceBootManagerLib.c`. One action is one step between two variable writes, dialogs
or loop iterations, so that power can be lost (`Reset`) between any two of them.

* `bootOrder`, `options`, `bootNext`, `lockSetting` are the non-volatile variables;
  `msBootNext`, `policyLocked`, `preReadyDone` the volatile platform state.
* `menu` is `mBootOptions`, `orderConfig` the slots of the ordered list, `idx`,
  `newOrder`, `allowSet` the locals of `RouteConfig`. `pc` says where the handler stands.
* `FormOpen`, `LoadPresent`, `PruneDangling`, `FillList`: `RebuildOrderList` and the
  library call inside it. `RouteConfig`, `Scan*`: the first loop, with the boot dialog
  (`BootConfirmed`, `BootDeclined`) and the option flags that are written at once.
  `Drop*`, `Delete*`, `Unlist`, `EraseOption`: the delete path. `Commit`: the write of the
  order and the rebuild. `LockSkipped` ... `LockOptions`: the PreReadyToBoot handler.
* `Submissions` is what the browser (outside the repository) can send after one gesture.
  It is built from the flags the driver gives the list: FORM_APPLY on every change (so one
  gesture per submission), ALLOW_DELETE only on options that are not default ones.
* The marking of options as `LoadOptionNumberUnassigned` is the guard
  `Contains(newOrder, ...)` of `DropKept` and `DropAsk`: the snapshot is thrown away by the
  rebuild that follows, and nothing else reads the mark.
* `RouteConfigGivesUp` is the two exits that skip the rebuild: ConfigToBlock fails, or
  there is no memory for the new order. In the second case the gesture stays in
  `mOrderConfiguration`, where the next one is read on top of it; `leftOver` says so.
* Ghosts `asked`, `consent` and `leftOver` record what the dialogs said and whether a gesture
  was given up; no guard reads them.

`BootOrderContract` is the abstract specification: one atomic step per promise (reorder
the part on screen, withdraw, erase, set active, set or clear next, set the lock), each
allowed only while the lock is off. `BootMenuOrder!ContractSpec` instantiates it by the
identity on the four variables; every intermediate step of the driver is a stutter or one
of its steps.

### `PreBootChecks`

`MsPreBootChecks`: the retry loop over power and temperature with a mitigation, an early
exit and an error rule. The platform answers anything at any time. `powerGood`,
`thermalGood`, `retryCount` are its locals; `lastPower` and `lastThermal` are ghosts.

### `RebootReason`

How the machine remembers over resets why FrontPage is entered. Translates
`MsNVBootReasonLib` completely, the BDS hooks that use it, and the beginning and end of
FrontPage's `UefiMain`. BDS itself is outside the repository: `FollowOsIndication`,
`FollowBootNext`, `TryBootOrder`, `OptionReturns` say only what the hooks presuppose of
it (OsIndications before BootNext before the boot order). `violation` is a ghost: whether a
Secure Boot violation has happened and whether the user was told. The user's stay on the
forms is reduced to the four things that matter to a later boot. A machine is one on which
variables and FrontPage's start may fail and power may be lost, or one on which they do not
(`faulty`, which never changes): what holds only where nothing fails says so.

### `DeviceBoot`

Extends `PreBootChecks` (its actions are the only way out of the stage `checks`) and follows the
boot: `PriorityBoot` asks `MsBootPolicyLib` for the keys and clears them, `NextOption` is BDS
taking an option, `PostReadyToBoot` the handler that runs for every option but does its work
once, `LoadImage` the function the library puts in the place of `gBS->LoadImage` where
`PcdBdsBootPolicy` is set. A device path is a short sequence of nodes. `latched` survives `WarmReset`,
as the button service does, and the service may fail in each of its three calls: its answer on
volume-up is then not used, its answer on volume-down is (whatever it left there), and the keys
it was told to forget may all stay. `PostReadyToBoot` reads the setting for the network, gets the
build's default if the variable cannot be read, or an error. `pending`, `misread`, `uncleared` and
`networkRead` are ghosts.

### `SettingsContract`, `BootManagerSettings`, `SettingsPage`

`BootManagerSettings` is the driver that creates, converts or upgrades the settings variable at
each start, one access per step, with at most `MaxFaults` failing accesses in a boot, and the
get and set of its providers. A variable's `format` abstracts signature, version, size and
attributes to what `InitializeNvVariable` tells apart. `SettingsPage` puts the boot menu's
check boxes on top: the three buffers that the browser extracts in any order, the token that
FrontPage publishes before or after the driver starts, and `StoreSetting`, which writes the
settings one by one. `listening` says that `BootMenuEntry` has registered its callback, which it does
only when it finds no token, and if registering works. `SettingsContract` is the abstract specification: the values change by
Set, by the upgrade of an old format, or to the defaults when something is damaged or fails; the
refinement maps the moment between the two writes of a conversion to a state of its own.

### `PasswordStore`, `SecureBootModes`, `FrontPageSession`

`FrontPageSession` extends the other two and is one boot into FrontPage: `UefiMain`,
`GetAuthToken` and the challenge, `CreateTopMenu` with `RemoveMenuFromList`, the loop of
`CallFrontPage` with the master frame's callback, the Security form (`SetSystemPassword`,
`HandleSecureBootChange`) and the ways out. `PasswordStore` is the password variable with the
rules for what may be stored and compared; a hash is represented by its password, because the salt
is taken from the stored hash when two are compared. `SecureBootModes` is
`SecureBootModeSet` split between the deletion of the old keys and the writing of the new ones.
Deletions of `BootNext` and the write of `OsIndications` may fail as they may in the code.
`mFormMap` is the table of `FrontPage.c`, with its indexes; `cells` are the labels of the
list box. Power may be lost at any step.

### `ConfigPolicy`

`OemConfigPolicyCreatorPei` step by step: sizing, profile selection, one action per override
applied and per override taken back, one per knob, the metadata policy and the configuration
policy, with every error return. Profiles, validators and the overrides in variable
storage are arbitrary; `ordered` says which knobs stand where their number says.

### `HardwareSignature`

`UpdateFacsHardwareSignature` step by step, with the buffer word by word: a part's index follows
from the sizes measured, the map is written as an array of 12-word descriptors, and the compaction
reads them from the buffer it writes to, one descriptor in an action. Between the measuring and the
fetching of the map lies the allocation, which may add a descriptor or merge two. The CRC is the
buffer's content itself, that is, it is taken to be free of collisions. `last` remembers the
latest boot with a signature. `DeviceBoot` models when the function is called.

### Proof modules and MC modules

`BootMenuOrderProofs`, `PreBootChecksProofs`, `RebootReasonProofs`, `DeviceBootProofs` (which also
uses `PreBootChecksProofs`), `SettingsPageProofs`, `FrontPageSessionProofs`, `ConfigPolicyProofs` and
`HardwareSignatureProofs` extend the module they are about; `MC*` extend it for TLC. Operators commented as a
*mutant* are plausible bugs in the code: `PROJECT.json` pairs each with the property that
finds it.

## 3. Runs

| Run | Instance | Shows |
|---|---|---|
| `menu` | 3 options, 2 slots, one default option, services work | the safety properties, progress and the refinement, 90k states |
| `menu_failures` | 2 options, 2 slots, every service may fail at every call | consent, agreement of the screen, flags |
| `menu_hidden_loss` | 3 options, one hidden | *violation*: two dialogs, one answer decides both |
| `device_boot` | retry settings -3, 0, 1 and 2; three button services, which may fail; SD (its own path too), USB and disk images; up to 2 options | verdict and termination of the checks, keys, once-per-boot work, 1.2M states |
| `settings` | five settings, nine formats, one failing access per boot, one managed and one refused setting | the contract, and the page on top of it, 920k states |
| `reboot` | up to 2 options; machines without faults, and machines with power loss anywhere and variables that fail | an announcement happens once and FrontPage is reached where nothing fails; alerts are true, SEC_FAIL waits, a chosen option boots alone on both |
| `reboot_told` | no fault | *violation*: an option booted by `ProcessBootNext` is refused and nobody is told |
| `frontpage` | two passwords, 2 sets of keys, limits of 0, 1 and 2 attempts, services may fail | a whole session with power loss, 307k states |
| `frontpage_keys` | the same | *violation*: a change of keys that fails leaves no keys |
| `signature` | 3 sets of devices, 2 settings and versions, maps of up to 2 descriptors of 3 kinds | the ranges are all in; one machine has one signature, and machines of one layout are told apart |
| `signature_map` | the same | *violation*: a map that grew is left out of the signature |
| `config_policy` | 2 knobs, up to 3 overrides, 2 values | the published policy is one profile |

What the properties say, beyond their names:

* `OrderNamesOptions` holds in every intermediate state and after power loss, because a
  deletion unlists before it erases. `ConfirmedDeletionDone` is its counterpart: a
  confirmed deletion is complete when the handler is.
* With a hidden option listed, `OrderNamesOptions` is proved rather than run (section 5).
* `LossNeedsConsent` relates each step that shortens BootOrder to a dialog answer. It holds
  when services fail; it does not hold when an option is hidden (finding 1). On top of a gesture
  that RouteConfig gave up for want of memory, the dialogs and the deletions are those of two
  gestures, and any consent is taken for enough; the exception in the property is that case.
* `ScreenMatchesVariables` says of the same case that the snapshot behind the list is true; the order
  and the checkboxes shown are then the user's, not the variables'.
* `DialogNamesTarget`: the dialog describes position `Index` of the snapshot and the code
  uses the number in the slot. They agree only because a submission carries one gesture
  and every submission ends in a rebuild; the mutant drops the first of these.
* `LockedTogether` covers options tried later in the same boot, when the handler no
  longer runs. `NoLockedBootNext` is the comment "a locked BootNext is a bad thing".
* `ToldOnce` and `SecFailKept` pull in opposite directions: the volatile alert is raised
  again from the non-volatile reason at each start, so both must be consumed, but not before
  the dialog is closed.
* `KeysDecideOnce` compares each decision with the keys pressed since the last one (`pending`), so
  a key that stays latched for a second boot, or is dropped in its own, is found. A service that
  failed to answer, or to forget the keys in the boot before, can mislead a decision, since nobody
  looks at either status; the property then says only what cannot happen.
* `OncePerBoot` ties the network to what was read: the owner's value, the build's default, or an
  error, which starts nothing. A later option neither reads nor starts again.
* `TokenIsCurrent`: a boot menu that listens always has the token of the day. One that found a token at
  its start does not listen; if FrontPage disposes of that token, returns and publishes another, it
  goes on with the old one. The property makes that exception, and no other.
* `OnlyTickedSettingsChange`: RouteConfig writes all settings that are not grayed out; only the
  freshness of its buffers makes that harmless. The exception in the property is real: a
  setting that could not be read is shown as its default (or as on) and then written back.
* `KeepsContract` includes power loss between the deletion and the re-creation of the variable.
* `PolicyBackBeforeBoot` and `StatusNamesKeys` both rest on the unconditional
  `mResetRequired = TRUE` at the end of `HandleSecureBootChange`. `StatusNamesKeys` and
  `KeysFollowRequest` say what the code keeps when a change of keys fails: no keys at worst, an
  old text, and a reset. The header of the handler says more; `FailedChangeKeepsKeys` is that
  statement, and finding 4. `MenuShowsForms` needs the two index columns of `mFormMap` to be closed up alike.
* `PasswordKept` allows one loss the user did not ask for: a read that fails leaves size 0,
  which counts as a missing variable, and the delete marker is written over it.
* `PolicyFollowsProfile` compares the published list with the profile the metadata names,
  recomputed from the profile's last override of each knob.

Bounds. Three options and two slots are the least with an option beyond the list, a
default one, and a list that is shortened and reordered; failures multiply each step by
two, so that run has two options. `MaxShown` is 6 in the code; nothing depends on the number.
Retry settings include zero and a value that is negative as an INT32. Two options in
the boot order let a second failure follow the first. Two options in a boot are the least for
a second ReadyToBoot; one failing access per boot hits each of the driver's accesses in turn
and the page's; devices and settings
of odd and even length move every part of the signature's buffer; three overrides let a profile give one knob two values and fail after
both. `MaxCount` and `MaxTried` bound what the code leaves to generated data and to BDS. No run uses a state constraint.

Findings (`PROJECT.json` quotes the lines):

1. `BootMenu.c:1075`: with a hidden option in BootOrder (the repository's own
   `PcdBootManagerInBootOrder|TRUE`), one gesture opens two deletion dialogs; OK to one and Cancel
   to the other removes both from BootOrder.
2. `FrontPage.c:1469`: the result of an option booted by FrontPage is dropped, and with it
   a Secure Boot violation. (The same invariant also fails another way: a later ordinary
   failure in the boot order overwrites BSecFail, while the alert, which is volatile, does not
   survive the reset to FrontPage.)
3. `UpdateFacsHardwareSignatureLib.c:300`: the memory map is measured, memory is allocated, the map
   is fetched; if the allocation added a descriptor, the fetch fails, the failure is
   overwritten and the signature is computed without the map.
4. `FrontPageUi.c:565`: a change of the Secure Boot keys that fails after the old keys were deleted
   leaves none; the header of the handler (`:503`) says that the state remains unchanged.

Differences met on the way that have no run of their own, because the code's own comments or
the reference for them leave room:

* `DeviceBootManagerLib.c:197` says of a mitigation that succeeded that power will be checked once
  more before booting. In the last round (`:242`) it is not: the machine is shut down, so nothing
  is booted unchecked. `VerdictMatchesAnswers` admits that shutdown.
* `FrontPageUi.c:691` announces a halt after too many attempts; the code, and `OemPkg.dec:100`,
  go on with the limited menu. `ChallengeEnds` and `FullMenuHasToken` state the latter.
* Variables created from the defaults have version 0 and are therefore never upgraded
  (`BootManagerSettings.c:133`); the format `v0` of the model.
* A stored override that a validator refuses leaves the knob's default, not the value of the active
  profile (`OemConfigPolicyCreatorPei.c:242`); `Decided` says so.
* A path equal to the platform's SD card path is not excluded (`MsBootPolicyLib.c:336` compares
  sizes strictly), although `:304` says that SD cards are not bootable. The instance contains
  that path; whether BDS ever loads an image by it is decided outside the repository, and no
  property is stated of the device policy.

## 4. Fairness

Liveness is checked under weak fairness of the firmware's own steps only (`Code` in
`BootMenuOrder`, `Checks` in `PreBootChecks` and, as `AfterConsole`, in `DeviceBoot`, `Firmware` in `RebootReason`):
they are straight-line code on the only processor in use, and timed waits end. With
one exception there is no
fairness for the user (the dialogs are opened with "No timeout"), for the browser, for
a started system, or for resets. `HandlerReturns` therefore ends in a dialog or at rest;
`FrontPageReached` may end in a system that a priority key started. The exception is
`ChallengeEnds`: it assumes that a user who is asked for the password answers in the end,
rightly, wrongly or by cancelling (`WF(AnswerChallenge)`), and says that a limit then ends the
prompt however the user answers; without a limit nothing is claimed.

## 5. What is proved

| Theorem | For every | Argument |
|---|---|---|
| `TypeCorrect` | constants | `TypeInv`: the types, and `idx <= OptionLimit` wherever the code indexes the snapshot |
| `BootNextLockedEmpty`, `BootVariablesLocked` | constants, services work | `LockInv`: edits only happen with the lock off; once any policy is registered the setting is on and the handler is past; in each of its steps, what is already locked or deleted |
| `OrderAlwaysNamesOptions` | constants, services work, hidden options too | `OrderInv`, below |
| `LockAlwaysHonoured` | constants, services work | from the two above: pruning never happens, and edits only with the lock off |
| `FlagsFollowCheckboxes` | constants, services fail or not | a flag is written in one step, which has looked the option up by its number |
| `ScreenIsTrue` | constants, services fail or not | `ScreenInv`, below |
| `ConfirmedDeletionsDone` | constants, services work, hidden options too | `DeletionInv`: an option agreed to is gone, or the delete path has not reached it |
| `DialogTellsTruth` | constants with `Hidden = {}`, services fail or not, no gesture left over | `GestureInv`, below |
| `LossesHaveConsent` | constants with `Hidden = {}`, services fail or not | `CoverInv`, below; `SpreadInv` for a gesture left over |
| `MenuKeepsContract` | constants with `Hidden = {}`, services work | refinement of `BootOrderContract`, below |
| `VerdictCorrect` | every set of retry settings | the flags always say what the last answers said; the counter bounds |
| `AlertsAreTrue`, `BootNowIsAlone`, `SecFailWaits` | boot orders of any length, with and without faults | one invariant: SEC_FAIL, the alert and a returning violation come from a violation; MsBootNext is set only between the request and the reset |
| `ViolationToldOnce` | the same; speaks of the machines without faults | the alert is up only for an untold violation; SEC_FAIL outlives the dialog only until the title bar, or a key has replaced it |
| `BootTypeCorrect`, `ChecksComeFirst`, `DoneOncePerBoot`, `KeysDecide` | retry settings, images, services, number of options | `BootInv`, below |
| `PageTypeCorrect`, `TokenFollowsProtocol`, `PageIsTrue`, `OnlyTicksAreStored` | settings, providers, number of failing accesses | `PageInv`, below |
| `SettingsKeepContract` | the same | refinement of `SettingsContract`, below |
| `SessionTypeCorrect`, `FullMenuWithToken`, `CellsOpenTheirForms`, `PolicyRestored`, `TextNamesKeys`, `KeysOnlyAsAsked`, `PasswordSurvives` | passwords, sets of keys, limits, failures | `SessionInv`, below |
| `PolicyCorrect` | number of knobs, values, bound | `ConfigInv`, below |
| `RangesAreSigned` | memory map, devices, settings | `SignatureInv`, below |
| `MachinesAreTold` | the same | `TellInv`, below |

`OrderNamesOptions` is not inductive: the driver writes `newOrder`, which it has built from
the slots over many steps, so its entries must be known to exist and to be distinct.
`OrderInv` adds: the snapshot equals BootOrder entry by entry from the end of the rebuild to
the first deletion (`SnapshotInv`); the slots hold entries of its visible part, each at most
once (`SlotsInv`, kept by every submission: `SubmissionsSlots`); what `newOrder` holds comes
from slots already passed or from the part beyond the screen (`CollectedInv`); on the
delete path, the option being deleted is not in `newOrder`, and is off BootOrder before
it is erased.

`ScreenMatchesVariables` needs the rebuild followed entry by entry: `LoadedUpTo(n)` says that the
snapshot holds the existing ones among the first `n` entries of BootOrder in their order, by an
increasing map from the snapshot's positions to BootOrder's (no recursion, hence no induction);
each step of the rebuild extends that map by one entry or by none, and pruning an entry that does
not exist leaves it as it is, whether or not the write succeeds. `ScreenInv` is that, at `idx - 1`.

`GestureInv` is about one gesture. At most one slot `r` of the list on screen is empty; if one is,
or if a boot is requested, every other slot still holds the option of its position (`SlotsFit`).
For a submission without a deletion that is an argument about arrangements: the slots
hold as many options as there are positions, so none is empty and none is missing
(`OnePlaceShort`, `NoPlaceEmpty`: the pigeonhole principle of the library), and an arrangement in
the old order is the identity (`InOrderInPlace`). The new order then is the list without `r`
(`CollectedFrom`), and what is asked about is the option of that slot. With a hidden
option two slots can be empty, `SlotsFit` is false, and so is the theorem: the run
`menu_hidden_loss` shows it. `CoverInv` adds that an order which lacks an option is written only after
a consent to that option, or when nothing is lost.
All of this is about a list without a gesture left over. With one (`leftOver`), `SpreadInv` remains:
several slots may be empty, but the others still hold different options of the snapshot, so that a new
order as long as the snapshot lacks none of them (the pigeonhole principle again), and a shorter one
is written only after a deletion dialog was answered with OK.

`MenuKeepsContract` maps each step that writes a variable to a step of `BootOrderContract`, and all
others to stutters (`StepKeepsContract`). `Commit` is the hard one: the order written is a
permutation that leaves what is beyond the screen in place (`CommitIsReorder`), or, after a
deletion, is what the variable already holds, since unlisting has written it (`WriteInv`).

`BootInv` strengthens the properties of `DeviceBoot` by: flags follow the last answers (from
`PreBootChecksProofs`), no option before the checks have ended well, the keys latched are, until the
decision, the keys pending (unless the service has failed to forget earlier ones), and the
once-per-boot work is done exactly when the first pass of the handler is over, as it read the setting.

`PageInv`: at a start without a fault the format leads to a current one (`StartInv`); the token of a
boot menu that listens is that of the latest publication (`TokenInv`); a buffer extracted is fresh until a tick or a
failed read marks a setting (`FreshInv`); in RouteConfig, what was ticked is stored or its turn is still to
come (`RouteInv`). `SettingsKeepContract` maps each step of the driver and the page to one of
`SettingsContract`; the deletion and re-creation of the variable is the pair of steps that is not
atomic.

`SessionInv`: a key change in progress has its old keys gone or not yet touched (`KeyChangeInv`); text,
policy and reset hang together (`SecurityInv`); the full menu follows the token (`TokenInv`); the cells of
the list box are the entries left in mFormMap, one for each index up to the last (`MenuInv`). The
last is proved for the four maps that `RemoveMenuFromList` can leave.

`PolicyFollowsProfile` speaks of the last step only. `ConfigInv` follows the caches there: while
overrides are applied, each cache holds what the overrides so far give it (`Gives(next - 1, ...)`,
extended by one override in `GivesExtends`); while they are taken back, a knob that none of the
overrides left to undo names holds its default; while the list is filled, knobs not yet reached
still follow the profile, and the list holds what was decided for those that were.

`SignatureHoldsRanges` speaks of the finished signature. `SignatureInv` says of the compaction that
the descriptors not read yet are as they were fetched (`Compacted`, `Intact`), because four words
written for each stable descriptor never pass twelve words read for each (`RoomBehindEntry`),
and that the ranges of those read are in place; a range's place is the number of
stable descriptors up to it (`StableCount`, `StableStep`), so no recursion is needed.

`SignatureTellsMachines` compares two boots. `TellInv` adds the words of the header as they are filled
(`HeaderInv`), so that the whole signature is a function of the machine (`Signs`, `SignedIdentity`,
`OneSignature`), of the boot before as well (`LastInv`). That function tells machines apart when their
parts have the same lengths (`SignatureTells`). It does not otherwise: without a length in front of
it, a part that ends in zero words may look like a shorter one with its padding.

Assumptions: the typing of the constants (`ConstantsAssumption`, `RetryAssumption`,
`RebootAssumption`, `DeviceAssumption`, `SettingsAssumption`, `ManagedAssumption`,
`PasswordAssumption`, `KeyCountAssumption`, `AttemptAssumption`, `ConfigAssumption`,
`SignatureAssumption`); TLC evaluates them in each run. Where the table says so,
theorems have hypotheses:

* *services work* (`ServiceFailures = FALSE`): with failing services `OrderNamesOptions` is false of
  the code by design of the two writes (unlisting may fail and erasing succeed); the
  rebuild then prunes the dangling reference. An unreadable BootOrderLock counts as off, so the
  lock's theorems need it too.
* *`Hidden = {}`*: finding 1 is the counterexample without it.
* *machines without faults* (`~faulty`, a conjunct of the property) for `ViolationToldOnce`: a reset
  between the dialog and the title bar brings the dialog back.
* *no gesture left over* (`~leftOver`) for `DialogTellsTruth`: with one, the list is no longer in the
  order of the snapshot, and the dialog describes another option than the slot holds.

Only model-checked: liveness (`HandlerReturns`, `FrontPageReached`, `NoIdleWait`, `VerdictReached`,
`ChallengeEnds`), which needs ENABLED. Every other property of a passing run is proved; the runs whose
result is a violation are for TLC alone.

## 6. Not modelled, and why

* The boot order list and the settings page run as two modules: they share one setting
  (BootOrderLock), which `BootMenuOrder` changes in one step. FrontPage's forms likewise.
* Failing memory allocations, except that of the new boot order and where they stand for a
  service that reports an error.
* The salt, the iterations and the layout of a password hash; UTF-16 strings.
* `PasswordStoreResetPasswordLib`, `MsAltBootLib`: no caller in the repository.
* RouteConfig before the first FORM_OPEN (the browser opens a form before it submits it).
* Opcode layout, strings, dialogs' texts, graphics, console lists, telemetry.
* The code outside the repository (form browser, BDS, variable driver, DFCI) is modelled
  from how it is used and marked external in the map.
* The components with status `not_modelled` in `PROJECT.json`, each with its reason.

## 7. Plan

The components with state of their own are modelled, and the safety properties, the action
properties and both refinements are proved. What is left:

1. Which of the theorems with *services work* hold with failures in a weaker form (an
   option is lost only by a failing write).
2. The safety part of the liveness properties: the measures that decrease in the loops of
   RouteConfig, of the rebuild and of the pre-boot checks, as action properties.
