------------------------- MODULE BootManagerSettings -------------------------
(***************************************************************************)
(* The boot manager's settings, MsBootManagerSettingsDxeLib: one           *)
(* non-volatile variable that is created, converted or upgraded when the   *)
(* driver starts, and a settings provider for each of its five settings.   *)
(*                                                                         *)
(* One step is one access to the variable, so that power can be lost       *)
(* between any two of them.  SettingsPage composes this module with the    *)
(* page of the boot menu that reads and writes the settings.               *)
(***************************************************************************)
EXTENDS Naturals

CONSTANTS
  Pcd,         (* the build's value of each setting: PcdEnableIPv6Boot, ...    *)
  Refusable,   (* settings whose provider the settings manager may refuse      *)
  MaxFaults    (* bound on the failing accesses of one boot                    *)

Settings == {"IPv6", "AltBoot", "BootOrderLock", "EnableUsbBoot", "StartNetwork"}

ASSUME SettingsAssumption ==
  /\ Pcd \in [Settings -> BOOLEAN]
  /\ Refusable \subseteq Settings
  /\ MaxFaults \in Nat

VARIABLES
  \* Non-volatile: the variable's format and the values it holds.
  format, stored,
  \* The driver.
  pc,
  settings,     \* the local Settings of InitializeNvVariable
  registered,   \* settings that have a provider
  faults        \* accesses that have failed in this boot

settingVars == <<format, stored, settings, registered, faults>>

(***************************************************************************)
(* "old" has the old signature and is visible to the system at run time;   *)
(* "v1", "v2" and "v3" are the versions of the new one; "v0" is the new    *)
(* one as created from defaults, with a version of zero.  The others fail  *)
(* a check of InitializeNvVariable: "long" does not fit the structure (one *)
(* too short takes the same path), "attributes" and "signature" are wrong  *)
(* in what they are named for.                                             *)
(***************************************************************************)
Upgradable == {"v1", "v2"}
Current    == {"v0", "v3"}
Damaged    == {"long", "attributes", "signature"}
Formats    == {"absent", "old"} \cup Upgradable \cup Current \cup Damaged
Readable   == Formats \ {"absent", "long"}
ForeignAttributes == {"old", "attributes", "long"}

MayFail == faults < MaxFaults

Access(ok) ==
  /\ ok \/ MayFail
  /\ faults' = faults + (IF ok THEN 0 ELSE 1)

(***************************************************************************)
(* SetVariable does not change the attributes of a variable that exists.   *)
(***************************************************************************)
WriteSucceeds(ok) == ok /\ format \notin ForeignAttributes

DeleteVariable(ok) ==
  /\ format' = IF ok THEN "absent" ELSE format
  /\ stored' = IF ok THEN Pcd ELSE stored

-----------------------------------------------------------------------------
(***************************************************************************)
(* MsBootManagerSettingsConstructor and the protocol notification.  The    *)
(* providers are registered when the settings manager is there: at once,   *)
(* or after the variable has been initialised.  The template is shared, so *)
(* the settings are registered in order and only the last one is kept off  *)
(* the preboot user interface.                                             *)
(***************************************************************************)
Register == \E refused \in SUBSET Refusable : registered' = Settings \ refused

Constructor ==
  /\ pc = "constructor"
  /\ Register \/ UNCHANGED registered
  /\ pc' = "initialize"
  /\ UNCHANGED <<format, stored, settings, faults>>

ProviderSupportInstalled ==
  /\ pc = "dxe"
  /\ IF registered = {} THEN Register ELSE UNCHANGED registered
  /\ pc' = "ready"
  /\ UNCHANGED <<format, stored, settings, faults>>

(***************************************************************************)
(* InitializeNvVariable.                                                   *)
(***************************************************************************)
KeepVariable ==
  /\ pc = "initialize"
  /\ format \in Current
  /\ pc' = "dxe"
  /\ UNCHANGED settingVars

Converted ==
  [stored EXCEPT !["BootOrderLock"] = FALSE,
                 !["EnableUsbBoot"] = Pcd["EnableUsbBoot"],
                 !["StartNetwork"]  = Pcd["StartNetwork"]]

ConvertDelete ==
  /\ pc = "initialize"
  /\ format = "old"
  /\ settings' = Converted
  /\ \E ok \in BOOLEAN : Access(ok) /\ DeleteVariable(ok)
  /\ pc' = "recreate"
  /\ UNCHANGED registered

ConvertRecreate ==
  /\ pc = "recreate"
  /\ \E ok \in BOOLEAN :
       /\ Access(ok)
       /\ format' = IF WriteSucceeds(ok) THEN "v3" ELSE format
       /\ stored' = IF WriteSucceeds(ok) THEN settings ELSE stored
  /\ settings' = Pcd
  /\ pc' = "dxe"
  /\ UNCHANGED registered

UpgradedTakesUsb ==  \* mutant: version 2 is upgraded like version 1
  [stored EXCEPT !["EnableUsbBoot"] = Pcd["EnableUsbBoot"],
                 !["StartNetwork"]  = Pcd["StartNetwork"]]

Upgraded ==
  [stored EXCEPT !["EnableUsbBoot"] = IF format = "v1" THEN Pcd["EnableUsbBoot"] ELSE @,
                 !["StartNetwork"]  = Pcd["StartNetwork"]]

Upgrade ==
  /\ pc = "initialize"
  /\ format \in Upgradable
  /\ \E ok \in BOOLEAN :
       /\ Access(ok)
       /\ format' = IF ok THEN "v3" ELSE format
       /\ stored' = IF ok THEN Upgraded ELSE stored
  /\ pc' = "dxe"
  /\ UNCHANGED <<settings, registered>>

(***************************************************************************)
(* A variable that fails a check, or that cannot be read this time, is     *)
(* deleted before the defaults are written; one that is not there is not.  *)
(***************************************************************************)
Reject ==
  /\ pc = "initialize"
  /\ \E ok \in BOOLEAN : Access(ok) /\ (ok => format \in Damaged)
  /\ pc' = "discard"
  /\ UNCHANGED <<format, stored, settings, registered>>

Discard ==
  /\ pc = "discard"
  /\ \E ok \in BOOLEAN : Access(ok) /\ DeleteVariable(ok)
  /\ pc' = "defaults"
  /\ UNCHANGED <<settings, registered>>

WriteDefaults ==
  /\ pc = "defaults" \/ (pc = "initialize" /\ format = "absent")
  /\ \E ok \in BOOLEAN :
       /\ Access(ok)
       /\ format' = IF WriteSucceeds(ok) THEN "v0" ELSE format
       /\ stored' = IF WriteSucceeds(ok) THEN Pcd ELSE stored
  /\ pc' = "dxe"
  /\ UNCHANGED <<settings, registered>>

Start ==
  \/ Constructor \/ KeepVariable \/ ConvertDelete \/ ConvertRecreate
  \/ Upgrade \/ Reject \/ Discard \/ WriteDefaults \/ ProviderSupportInstalled

-----------------------------------------------------------------------------
(***************************************************************************)
(* GetBootManagerSetting: the stored value, or the default when the        *)
(* variable cannot be read.  SetBootManagerSetting reads the whole         *)
(* structure, changes one field and writes it back, if it changed;         *)
(* nothing can be set before the variable exists.                          *)
(***************************************************************************)
GetBootManagerSettingDefault(id) == Pcd[id]

GetBootManagerSettingV3Only(id, ok) ==  \* mutant: a variable created from defaults is not recognised
  IF ok /\ format = "v3" THEN stored[id] ELSE GetBootManagerSettingDefault(id)

GetBootManagerSetting(id, ok) ==
  IF ok /\ format \in Readable THEN stored[id] ELSE GetBootManagerSettingDefault(id)

SetBootManagerSetting(id, value) ==
  \E ok \in BOOLEAN :
    /\ Access(ok)
    /\ stored' = IF WriteSucceeds(ok) /\ format \in Readable
                 THEN [stored EXCEPT ![id] = value] ELSE stored
    /\ UNCHANGED <<format, settings, registered>>

(***************************************************************************)
(* The settings manager, outside the repository, finds the provider of a   *)
(* setting and calls it.                                                   *)
(***************************************************************************)
BootManagerSettingsSet(id, value) ==
  IF id \in registered THEN SetBootManagerSetting(id, value) ELSE UNCHANGED settingVars

BootManagerSettingsGet(id, ok) ==
  IF id \in registered THEN GetBootManagerSetting(id, ok) ELSE "notFound"

BootManagerSettingsSetDefault(id) ==
  BootManagerSettingsSet(id, GetBootManagerSettingDefault(id))

-----------------------------------------------------------------------------
(***************************************************************************)
(* Between the deletion and the second write of a conversion the values    *)
(* only exist in the driver's memory.                                      *)
(***************************************************************************)
Converting == pc = "recreate" /\ format = "absent"

Contract ==
  INSTANCE SettingsContract WITH
    state  <- IF Converting THEN "converting" ELSE format,
    values <- IF Converting THEN settings ELSE stored,
    trouble <- faults
=============================================================================
