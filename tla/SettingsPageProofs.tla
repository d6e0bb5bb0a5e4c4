-------------------------- MODULE SettingsPageProofs --------------------------
(***************************************************************************)
(* The settings and their page, for every default, every set of settings   *)
(* that a remote owner manages or whose provider may be refused, and any   *)
(* number of failing accesses, with power lost at any step.                *)
(***************************************************************************)
EXTENDS SettingsPage, TLAPS

Started == {"dxe", "ready", "extract", "page", "route"}
InPage  == {"extract", "page", "route"}

(***************************************************************************)
(* Where the start of the driver has got to.  A boot in which no access    *)
(* has failed deletes nothing but a variable to be converted or a damaged  *)
(* one, and ends with a current one.                                       *)
(***************************************************************************)
StartInv ==
  /\ pc = "recreate" => format \in {"absent", "old"}
  /\ pc \in {"recreate", "defaults"} /\ faults = 0 => format = "absent"
  /\ pc = "discard" /\ faults = 0 => format \in Damaged
  /\ pc \in Started /\ faults = 0 => format \in Current

TokenInv ==
  /\ TokenIsCurrent
  /\ ~entered => authToken = "none" /\ ~listening

(***************************************************************************)
(* The buffers are as fresh as the page: what may be written has a         *)
(* provider that accepts the token, and what neither was ticked nor could  *)
(* not be read shows what is stored.                                       *)
(***************************************************************************)
FreshInv ==
  /\ pc \in {"page", "route"} => loaded = Buffers
  /\ pc \in InPage /\ "BootGrayoutConfig" \in loaded =>
       \A s \in writable : s \in registered /\ WriteAccess(s)
  /\ pc \in InPage /\ "BootSettingsConfig" \in loaded /\ format \in Readable =>
       \A s \in Shown : s \in ticked \cup unread \/ page[s] = stored[s]
  /\ pc \in InPage /\ "BootSettingsConfig" \in loaded /\ faults = 0 =>
       \A s \in unread : s \notin registered

(***************************************************************************)
(* Unless an access fails, what was ticked is stored, or its turn in       *)
(* RouteConfig is still to come.                                           *)
(***************************************************************************)
RouteInv ==
  /\ pc = "extract" => ticked = {}
  /\ pc \in {"page", "route"} /\ faults = 0 =>
       \A i \in 1..4 :
         OnPage[i] \in ticked \cap registered =>
           \/ page[OnPage[i]] = stored[OnPage[i]]
           \/ pc = "route" /\ index <= i /\ OnPage[i] \in writable

PageInv == PageTypeOK /\ StartInv /\ TokenInv /\ FreshInv /\ RouteInv

StoreTypes ==
  /\ format \in Formats
  /\ stored \in [Settings -> BOOLEAN]
  /\ format = "absent" => stored = Pcd
  /\ settings \in [Settings -> BOOLEAN]
  /\ registered \subseteq Settings
  /\ faults \in 0..MaxFaults

ScreenTypes ==
  /\ page \in [Shown -> BOOLEAN]
  /\ writable \subseteq Shown
  /\ suppressed \subseteq Shown
  /\ restricted \in BOOLEAN
  /\ authToken \in {"none", "live", "stale"}
  /\ authToken = "live" => published
  /\ entered \in BOOLEAN
  /\ listening \in BOOLEAN
  /\ published \in BOOLEAN
  /\ loaded \subseteq Buffers
  /\ ticked \subseteq Shown
  /\ unread \subseteq Shown

PlaceTypes ==
  /\ pc \in PcStates
  /\ index \in 0..4
  /\ index > 0 <=> pc = "route"

LEMMA Boxes ==
  /\ Len(OnPage) = 4
  /\ Shown = {OnPage[1], OnPage[2], OnPage[3], OnPage[4]}
  /\ Shown = {"IPv6", "AltBoot", "BootOrderLock", "EnableUsbBoot"}
  /\ Shown \subseteq Settings
  /\ \A i, j \in 1..4 : OnPage[i] = OnPage[j] => i = j
<1>1. Len(OnPage) = 4
  BY DEF OnPage
<1>2. Shown = {OnPage[1], OnPage[2], OnPage[3], OnPage[4]}
  BY <1>1 DEF Shown
<1>3. /\ OnPage[1] = "IPv6" /\ OnPage[2] = "AltBoot"
      /\ OnPage[3] = "BootOrderLock" /\ OnPage[4] = "EnableUsbBoot"
  BY DEF OnPage
<1> QED
  BY <1>1, <1>2, <1>3 DEF Settings

LEMMA TypeParts ==
  /\ PageTypeOK <=> StoreTypes /\ ScreenTypes /\ PlaceTypes
  /\ PageTypeOK' <=> StoreTypes' /\ ScreenTypes' /\ PlaceTypes'
<1>1. Len(OnPage) = 4
  BY Boxes
<1>2. PageTypeOK <=> StoreTypes /\ ScreenTypes /\ PlaceTypes
  BY <1>1 DEF PageTypeOK, StoreTypes, ScreenTypes, PlaceTypes
<1>3. PageTypeOK' <=> StoreTypes' /\ ScreenTypes' /\ PlaceTypes'
  BY <1>1 DEF PageTypeOK, StoreTypes, ScreenTypes, PlaceTypes
<1> QED
  BY <1>2, <1>3

(***************************************************************************)
(* An access counts its failure, so a boot without faults had only         *)
(* accesses that succeeded.                                                *)
(***************************************************************************)
LEMMA AccessCounts ==
  ASSUME NEW ok \in BOOLEAN, faults \in 0..MaxFaults, Access(ok)
  PROVE  /\ faults' \in 0..MaxFaults
         /\ faults' = 0 => ok /\ faults = 0
         /\ ~ok => faults' > 0
<1>1. MaxFaults \in Nat
  BY SettingsAssumption
<1>2. CASE ok
  BY <1>2 DEF Access
<1>3. CASE ~ok
  BY <1>1, <1>3 DEF Access, MayFail
<1> QED
  BY <1>2, <1>3

LEMMA NewValues ==
  ASSUME stored \in [Settings -> BOOLEAN]
  PROVE  /\ Converted \in [Settings -> BOOLEAN]
         /\ Upgraded \in [Settings -> BOOLEAN]
BY SettingsAssumption DEF Converted, Upgraded, Settings

-----------------------------------------------------------------------------
LEMMA PageInvInit == PageInit => PageInv
<1> SUFFICES ASSUME PageInit PROVE PageInv
  OBVIOUS
<1> USE DEF PageInit, Volatile
<1>1. StoreTypes
  <2>1. Pcd \in [Settings -> BOOLEAN] /\ [s \in Settings |-> ~Pcd[s]] \in [Settings -> BOOLEAN]
    BY SettingsAssumption
  <2>2. 0 \in 0..MaxFaults
    BY SettingsAssumption
  <2> QED
    BY <2>1, <2>2 DEF StoreTypes
<1>2. ScreenTypes
  <2>1. Off \in [Shown -> BOOLEAN]
    BY DEF Off
  <2> QED
    BY <2>1 DEF ScreenTypes
<1>3. PlaceTypes
  BY DEF PlaceTypes, PcStates
<1>4. StartInv /\ TokenInv /\ FreshInv /\ RouteInv
  BY DEF StartInv, Started, TokenInv, TokenIsCurrent, FreshInv, RouteInv, InPage
<1> QED
  BY <1>1, <1>2, <1>3, <1>4, TypeParts DEF PageInv

LEMMA PowerOnKeeps == ASSUME PageInv, PowerOn PROVE PageInv'
<1> USE DEF PowerOn
<1>1. StoreTypes'
  <2>1. Pcd \in [Settings -> BOOLEAN] /\ 0 \in 0..MaxFaults
    BY SettingsAssumption
  <2> QED
    BY <2>1, TypeParts DEF PageInv, StoreTypes
<1>2. ScreenTypes'
  <2>1. Off \in [Shown -> BOOLEAN]
    BY DEF Off
  <2> QED
    BY <2>1 DEF ScreenTypes
<1>3. PlaceTypes'
  BY DEF PlaceTypes, PcStates
<1>4. StartInv' /\ TokenInv' /\ FreshInv' /\ RouteInv'
  BY DEF StartInv, Started, TokenInv, TokenIsCurrent, FreshInv, RouteInv, InPage
<1> QED
  BY <1>1, <1>2, <1>3, <1>4, TypeParts DEF PageInv

-----------------------------------------------------------------------------
(***************************************************************************)
(* The start of the driver, one access after the other.                    *)
(***************************************************************************)
LEMMA StartStep ==
  ASSUME StoreTypes, StartInv, Start
  PROVE  StoreTypes' /\ StartInv'
<1> USE DEF StartInv, Started
<1>1. CASE Constructor \/ ProviderSupportInstalled
  <2>1. registered' \subseteq Settings
    BY <1>1 DEF Constructor, ProviderSupportInstalled, Register, StoreTypes
  <2> QED
    BY <1>1, <2>1 DEF Constructor, ProviderSupportInstalled, StoreTypes
<1>2. CASE KeepVariable
  BY <1>2 DEF KeepVariable, settingVars, StoreTypes
<1>3. CASE ConvertDelete
  <2>1. PICK ok \in BOOLEAN : Access(ok) /\ DeleteVariable(ok)
    BY <1>3 DEF ConvertDelete
  <2>2. faults' \in 0..MaxFaults /\ (faults' = 0 => ok)
    BY <2>1, AccessCounts DEF StoreTypes
  <2>3. settings' \in [Settings -> BOOLEAN]
    BY <1>3, NewValues DEF ConvertDelete, StoreTypes
  <2>4. stored' \in [Settings -> BOOLEAN] /\ format' \in {"absent", "old"}
         /\ (format' = "absent" => stored' = Pcd) /\ (ok => format' = "absent")
    BY <1>3, <2>1, SettingsAssumption DEF ConvertDelete, DeleteVariable, StoreTypes
  <2> QED
    BY <1>3, <2>2, <2>3, <2>4 DEF ConvertDelete, StoreTypes, Formats
<1>4. CASE ConvertRecreate
  <2>1. PICK ok \in BOOLEAN :
          /\ Access(ok)
          /\ format' = IF WriteSucceeds(ok) THEN "v3" ELSE format
          /\ stored' = IF WriteSucceeds(ok) THEN settings ELSE stored
    BY <1>4 DEF ConvertRecreate
  <2>2. faults' \in 0..MaxFaults /\ (faults' = 0 => ok /\ faults = 0)
    BY <2>1, AccessCounts DEF StoreTypes
  <2>3. faults' = 0 => format' = "v3"
    BY <1>4, <2>1, <2>2 DEF ConvertRecreate, WriteSucceeds, ForeignAttributes
  <2> QED
    BY <1>4, <2>1, <2>2, <2>3, SettingsAssumption
       DEF ConvertRecreate, StoreTypes, Formats, Current
<1>5. CASE Upgrade
  <2>1. PICK ok \in BOOLEAN :
          /\ Access(ok)
          /\ format' = IF ok THEN "v3" ELSE format
          /\ stored' = IF ok THEN Upgraded ELSE stored
    BY <1>5 DEF Upgrade
  <2>2. faults' \in 0..MaxFaults /\ (faults' = 0 => ok)
    BY <2>1, AccessCounts DEF StoreTypes
  <2>3. stored' \in [Settings -> BOOLEAN]
    BY <2>1, NewValues DEF StoreTypes
  <2> QED
    BY <1>5, <2>1, <2>2, <2>3 DEF Upgrade, StoreTypes, Formats, Current
<1>6. CASE Reject
  <2>1. PICK ok \in BOOLEAN : Access(ok) /\ (ok => format \in Damaged)
    BY <1>6 DEF Reject
  <2>2. faults' \in 0..MaxFaults /\ (faults' = 0 => ok)
    BY <2>1, AccessCounts DEF StoreTypes
  <2> QED
    BY <1>6, <2>1, <2>2 DEF Reject, StoreTypes
<1>7. CASE Discard
  <2>1. PICK ok \in BOOLEAN : Access(ok) /\ DeleteVariable(ok)
    BY <1>7 DEF Discard
  <2>2. faults' \in 0..MaxFaults /\ (faults' = 0 => ok)
    BY <2>1, AccessCounts DEF StoreTypes
  <2> QED
    BY <1>7, <2>1, <2>2, SettingsAssumption DEF Discard, DeleteVariable, StoreTypes, Formats
<1>8. CASE WriteDefaults
  <2>1. PICK ok \in BOOLEAN :
          /\ Access(ok)
          /\ format' = IF WriteSucceeds(ok) THEN "v0" ELSE format
          /\ stored' = IF WriteSucceeds(ok) THEN Pcd ELSE stored
    BY <1>8 DEF WriteDefaults
  <2>2. faults' \in 0..MaxFaults /\ (faults' = 0 => ok /\ faults = 0)
    BY <2>1, AccessCounts DEF StoreTypes
  <2>3. faults' = 0 => format' = "v0"
    BY <1>8, <2>1, <2>2 DEF WriteDefaults, WriteSucceeds, ForeignAttributes
  <2> QED
    BY <1>8, <2>1, <2>2, <2>3, SettingsAssumption DEF WriteDefaults, StoreTypes, Formats, Current
<1> QED
  BY <1>1, <1>2, <1>3, <1>4, <1>5, <1>6, <1>7, <1>8 DEF Start

LEMMA StartKeeps == ASSUME PageInv, Start, UNCHANGED pageVars PROVE PageInv'
<1> USE DEF PageInv, pageVars, buffers, tokens, observed
<1>1. StoreTypes' /\ StartInv'
  BY StartStep, TypeParts
<1>2. /\ pc \in {"constructor", "initialize", "recreate", "discard", "defaults", "dxe"}
      /\ pc' \in {"initialize", "recreate", "discard", "defaults", "dxe", "ready"}
  BY DEF Start, Constructor, KeepVariable, ConvertDelete, ConvertRecreate, Upgrade, Reject, Discard,
         WriteDefaults, ProviderSupportInstalled
<1>3. ScreenTypes' /\ PlaceTypes'
  BY <1>2, TypeParts DEF ScreenTypes, PlaceTypes, PcStates
<1>4. TokenInv' /\ FreshInv' /\ RouteInv'
  BY <1>2 DEF TokenInv, TokenIsCurrent, FreshInv, RouteInv, InPage
<1> QED
  BY <1>1, <1>3, <1>4, TypeParts

-----------------------------------------------------------------------------
(***************************************************************************)
(* A provider stores a value in the variable that is there, or nothing.    *)
(***************************************************************************)
LEMMA ProviderSets ==
  ASSUME StoreTypes, NEW id \in Settings, NEW value \in BOOLEAN, BootManagerSettingsSet(id, value)
  PROVE  /\ StoreTypes'
         /\ UNCHANGED <<format, registered, settings>>
         /\ stored' \in {stored, [stored EXCEPT ![id] = value]}
         /\ format \notin Readable => stored' = stored
         /\ faults' = 0 => faults = 0
         /\ faults' = 0 /\ format \in Current /\ id \in registered => stored'[id] = value
<1>1. CASE id \notin registered
  BY <1>1 DEF BootManagerSettingsSet, settingVars, StoreTypes
<1>2. CASE id \in registered
  <2>1. PICK ok \in BOOLEAN :
          /\ Access(ok)
          /\ stored' = IF WriteSucceeds(ok) /\ format \in Readable
                       THEN [stored EXCEPT ![id] = value] ELSE stored
          /\ UNCHANGED <<format, settings, registered>>
    BY <1>2 DEF BootManagerSettingsSet, SetBootManagerSetting
  <2>2. faults' \in 0..MaxFaults /\ (faults' = 0 => ok /\ faults = 0)
    BY <2>1, AccessCounts DEF StoreTypes
  <2>3. [stored EXCEPT ![id] = value] \in [Settings -> BOOLEAN]
         /\ [stored EXCEPT ![id] = value][id] = value
    BY DEF StoreTypes
  <2>4. format = "absent" => stored' = stored
    BY <2>1 DEF Readable
  <2>5. format \in Current => format \in Readable /\ format \notin ForeignAttributes
    BY DEF Current, Readable, Formats, ForeignAttributes
  <2>6. StoreTypes'
    BY <2>1, <2>2, <2>3, <2>4 DEF StoreTypes
  <2> QED
    BY <2>1, <2>2, <2>3, <2>5, <2>6 DEF WriteSucceeds
<1> QED
  BY <1>1, <1>2

LEMMA ApplyRemotelyKeeps == ASSUME PageInv, ApplyRemotely PROVE PageInv'
<1> USE DEF PageInv, ApplyRemotely, pageVars, buffers, tokens, observed
<1>1. PICK s \in Settings, v \in BOOLEAN : BootManagerSettingsSet(s, v)
  <2>1. \A s \in Settings : Pcd[s] \in BOOLEAN
    BY SettingsAssumption
  <2> QED
    BY <2>1 DEF BootManagerSettingsSetDefault, GetBootManagerSettingDefault
<1>2. StoreTypes' /\ format' = format /\ (faults' = 0 => faults = 0)
  BY <1>1, ProviderSets, TypeParts
<1>3. ScreenTypes' /\ PlaceTypes'
  BY TypeParts DEF ScreenTypes, PlaceTypes
<1>4. StartInv' /\ TokenInv' /\ FreshInv' /\ RouteInv'
  BY <1>2 DEF StartInv, Started, TokenInv, TokenIsCurrent, FreshInv, RouteInv, InPage
<1> QED
  BY <1>2, <1>3, <1>4, TypeParts

(***************************************************************************)
(* The token, outside of the page.                                         *)
(***************************************************************************)
LEMMA TokenStepKeeps ==
  ASSUME PageInv, BootMenuEntry \/ PublishToken \/ DisposeToken
  PROVE  PageInv'
<1> USE DEF PageInv, BootMenuEntry, PublishToken, DisposeToken, AuthTokenCallback,
            settingVars, buffers, observed
<1>1. StoreTypes' /\ StartInv'
  BY TypeParts DEF StoreTypes, StartInv
<1>2. ScreenTypes'
  <2>1. CASE BootMenuEntry
    BY <2>1, TypeParts DEF ScreenTypes
  <2>2. CASE PublishToken
    BY <2>2, TypeParts DEF ScreenTypes
  <2>3. CASE DisposeToken
    BY <2>3, TypeParts DEF ScreenTypes, TokenInv
  <2> QED
    BY <2>1, <2>2, <2>3
<1>3. PlaceTypes'
  BY TypeParts DEF PlaceTypes
<1>4. TokenInv' /\ FreshInv' /\ RouteInv'
  BY DEF TokenInv, TokenIsCurrent, FreshInv, RouteInv, InPage
<1> QED
  BY <1>1, <1>2, <1>3, <1>4, TypeParts

-----------------------------------------------------------------------------
(***************************************************************************)
(* The page is opened, its buffers are filled, and it is left.             *)
(***************************************************************************)
LEMMA OpenAndCloseKeep == ASSUME PageInv, OpenPage \/ ClosePage PROVE PageInv'
<1> USE DEF PageInv, settingVars, buffers, tokens, pageVars, observed
<1>1. StoreTypes' /\ StartInv'
  BY TypeParts DEF OpenPage, ClosePage, StoreTypes, StartInv, Started
<1>2. ScreenTypes'
  BY TypeParts DEF OpenPage, ClosePage, ScreenTypes
<1>3. PlaceTypes'
  BY TypeParts DEF OpenPage, ClosePage, PlaceTypes, PcStates
<1>4. TokenInv' /\ FreshInv' /\ RouteInv'
  BY DEF OpenPage, ClosePage, TokenInv, TokenIsCurrent, FreshInv, RouteInv, InPage
<1> QED
  BY <1>1, <1>2, <1>3, <1>4, TypeParts

LEMMA ExtractSettingsKeeps == ASSUME PageInv, ExtractSettings PROVE PageInv'
<1> USE DEF PageInv, tokens
<1>1. PICK ok \in BOOLEAN, refused \in BOOLEAN, victim \in Shown :
        /\ Access(ok)
        /\ page' = [s \in Shown |-> GetSetting(s, ~(~ok /\ s = victim /\ refused),
                                               ~(~ok /\ s = victim))]
        /\ unread' = {s \in Shown : s \notin registered \/ (~ok /\ s = victim)}
  BY DEF ExtractSettings
<1>2. faults' \in 0..MaxFaults /\ (faults' = 0 => ok /\ faults = 0)
  BY <1>1, AccessCounts, TypeParts DEF StoreTypes
<1>3. ASSUME NEW s \in Shown, NEW answers \in BOOLEAN, NEW reads \in BOOLEAN
      PROVE  GetSetting(s, answers, reads) \in BOOLEAN
  BY SettingsAssumption, Boxes, TypeParts
     DEF GetSetting, BootManagerSettingsGet, GetBootManagerSetting, GetBootManagerSettingDefault,
         StoreTypes
<1>4. page' \in [Shown -> BOOLEAN]
  BY <1>1, <1>3
<1>5. ASSUME NEW s \in Shown, format \in Readable, s \notin unread' PROVE page'[s] = stored[s]
  BY <1>1, <1>5 DEF GetSetting, BootManagerSettingsGet, GetBootManagerSetting
<1>6. StoreTypes' /\ StartInv'
  BY <1>2, TypeParts DEF ExtractSettings, StoreTypes, StartInv, Started
<1>7. ScreenTypes'
  <2>1. unread' \subseteq Shown /\ loaded' \subseteq Buffers
    BY <1>1, TypeParts DEF ExtractSettings, ScreenTypes, Buffers
  <2> QED
    BY <1>4, <2>1, TypeParts DEF ExtractSettings, ScreenTypes
<1>8. PlaceTypes' /\ TokenInv'
  BY TypeParts DEF ExtractSettings, PlaceTypes, TokenInv, TokenIsCurrent
<1>9. FreshInv'
  <2>1. \A s \in writable : "BootGrayoutConfig" \in loaded => s \in registered /\ WriteAccess(s)
    BY DEF ExtractSettings, FreshInv, InPage
  <2>2. faults' = 0 => \A s \in unread' : s \notin registered
    BY <1>1, <1>2
  <2> QED
    BY <1>5, <2>1, <2>2 DEF ExtractSettings, FreshInv, InPage, WriteAccess
<1>10. RouteInv'
  BY DEF ExtractSettings, RouteInv
<1> QED
  BY <1>6, <1>7, <1>8, <1>9, <1>10, TypeParts

LEMMA ExtractGrayoutKeeps == ASSUME PageInv, ExtractGrayout PROVE PageInv'
<1> USE DEF PageInv, tokens, observed
<1>1. PICK ok \in BOOLEAN, victim \in Shown :
        /\ Access(ok)
        /\ writable' = {s \in Shown : GetSettingGrayoutFlag(s, ok \/ s # victim)}
        /\ restricted' = \E s \in Shown : RestrictedAccess(s, ok \/ s # victim)
  BY DEF ExtractGrayout
<1>2. faults' \in 0..MaxFaults /\ (faults' = 0 => ok /\ faults = 0)
  BY <1>1, AccessCounts, TypeParts DEF StoreTypes
<1>3. \A s \in writable' : s \in registered /\ WriteAccess(s)
  BY <1>1 DEF GetSettingGrayoutFlag
<1>4. StoreTypes' /\ StartInv'
  BY <1>2, TypeParts DEF ExtractGrayout, StoreTypes, StartInv, Started
<1>5. ScreenTypes'
  <2>1. writable' \subseteq Shown /\ loaded' \subseteq Buffers /\ restricted' \in BOOLEAN
    BY <1>1, TypeParts DEF ExtractGrayout, ScreenTypes, Buffers
  <2> QED
    BY <2>1, TypeParts DEF ExtractGrayout, ScreenTypes
<1>6. PlaceTypes' /\ TokenInv'
  BY TypeParts DEF ExtractGrayout, PlaceTypes, TokenInv, TokenIsCurrent
<1>7. FreshInv' /\ RouteInv'
  BY <1>2, <1>3 DEF ExtractGrayout, FreshInv, RouteInv, InPage, WriteAccess
<1> QED
  BY <1>4, <1>5, <1>6, <1>7, TypeParts

LEMMA ShowPageKeeps == ASSUME PageInv, ExtractSuppress \/ ShowPage PROVE PageInv'
<1> USE DEF PageInv, settingVars, tokens, observed, pageVars, buffers
<1>1. StoreTypes' /\ StartInv'
  BY TypeParts DEF ExtractSuppress, ShowPage, StoreTypes, StartInv, Started
<1>2. ScreenTypes'
  BY TypeParts DEF ExtractSuppress, ShowPage, ScreenTypes, Buffers
<1>3. PlaceTypes' /\ TokenInv'
  BY TypeParts DEF ExtractSuppress, ShowPage, PlaceTypes, PcStates, TokenInv, TokenIsCurrent
<1>4. FreshInv' /\ RouteInv'
  <2>1. CASE ExtractSuppress
    BY <2>1 DEF ExtractSuppress, FreshInv, RouteInv, InPage, WriteAccess
  <2>2. CASE ShowPage
    BY <2>2 DEF ShowPage, FreshInv, RouteInv, InPage, WriteAccess
  <2> QED
    BY <2>1, <2>2
<1> QED
  BY <1>1, <1>2, <1>3, <1>4, TypeParts

-----------------------------------------------------------------------------
(***************************************************************************)
(* A box is ticked, and RouteConfig stores one setting after the other.    *)
(***************************************************************************)
LEMMA TickKeeps == ASSUME PageInv, Tick PROVE PageInv'
<1> USE DEF PageInv, tokens
<1>1. PICK t \in writable \ suppressed, ok \in BOOLEAN :
        /\ Access(ok)
        /\ ticked' = ticked \cup {t}
        /\ IF ok
           THEN page' = [page EXCEPT ![t] = ~@] /\ pc' = "route" /\ index' = 1
           ELSE page' \in {page, [page EXCEPT ![t] = ~@]} /\ UNCHANGED <<pc, index>>
  BY DEF Tick
<1>2. /\ pc = "page"
      /\ UNCHANGED <<format, stored, settings, registered, writable, restricted, suppressed,
                     tokens, loaded, unread>>
  BY DEF Tick
<1>3. t \in Shown /\ page \in [Shown -> BOOLEAN]
  BY TypeParts DEF ScreenTypes
<1>4. page' \in [Shown -> BOOLEAN] /\ \A s \in Shown : s # t => page'[s] = page[s]
  BY <1>1, <1>3
<1>5. /\ faults' \in 0..MaxFaults
      /\ faults' = 0 => ok /\ faults = 0
  BY <1>1, AccessCounts, TypeParts DEF StoreTypes
<1>6. pc' \in {"page", "route"} /\ (pc' = "route" => index' = 1) /\ (pc' = "page" => index' = index)
  BY <1>1, <1>2
<1>7. StoreTypes' /\ StartInv'
  BY <1>2, <1>5, <1>6, TypeParts DEF StoreTypes, StartInv, Started
<1>8. ScreenTypes'
  BY <1>1, <1>2, <1>3, <1>4, TypeParts DEF ScreenTypes
<1>9. PlaceTypes' /\ TokenInv'
  BY <1>2, <1>6, TypeParts DEF PlaceTypes, PcStates, TokenInv, TokenIsCurrent
<1>10. FreshInv'
  BY <1>1, <1>2, <1>3, <1>4, <1>5, <1>6 DEF FreshInv, InPage, WriteAccess
<1>11. RouteInv'
  <2>1. ASSUME NEW i \in 1..4, faults' = 0, OnPage[i] \in ticked' \cap registered
        PROVE  page'[OnPage[i]] = stored[OnPage[i]] \/ (index' <= i /\ OnPage[i] \in writable)
    <3>1. OnPage[i] \in Shown /\ ok /\ faults = 0 /\ index' = 1
      BY <1>1, <1>5, <2>1, Boxes
    <3>2. CASE OnPage[i] = t
      BY <3>1, <3>2
    <3>3. CASE OnPage[i] # t
      BY <1>1, <1>2, <1>4, <2>1, <3>1, <3>3 DEF RouteInv
    <3> QED
      BY <3>2, <3>3
  <2>2. faults' = 0 => pc' = "route"
    BY <1>1, <1>5
  <2> QED
    BY <1>2, <1>6, <2>1, <2>2 DEF RouteInv
<1> QED
  BY <1>7, <1>8, <1>9, <1>10, <1>11, TypeParts

(***************************************************************************)
(* What a step of RouteConfig does to the variable.                        *)
(***************************************************************************)
LEMMA RouteStores ==
  ASSUME PageInv, StoreSetting
  PROVE  /\ index \in 1..4 /\ OnPage[index] \in Shown
         /\ StoreTypes'
         /\ UNCHANGED <<format, registered, settings>>
         /\ stored' \in {stored, [stored EXCEPT ![OnPage[index]] = page[OnPage[index]]]}
         /\ format \notin Readable => stored' = stored
         /\ faults' = 0 => faults = 0
         /\ faults' = 0 /\ OnPage[index] \in writable
              => stored'[OnPage[index]] = page[OnPage[index]]
<1> USE DEF PageInv
<1> DEFINE s == OnPage[index]
<1>1. pc = "route" /\ index \in 1..4
  BY TypeParts DEF StoreSetting, PlaceTypes
<1>2. s \in Shown /\ s \in Settings
  BY <1>1, Boxes
<1>3. page[s] \in BOOLEAN
  BY <1>2, TypeParts DEF ScreenTypes
<1>4. s \in writable => s \in registered /\ WriteAccess(s)
  BY <1>1 DEF FreshInv, InPage, Buffers
<1>5. IF s \in writable THEN SetSetting(s, page[s]) ELSE UNCHANGED settingVars
  BY DEF StoreSetting
<1>6. CASE s \notin writable
  <2>1. StoreTypes'
    BY <1>5, <1>6, TypeParts DEF settingVars, StoreTypes
  <2> QED
    BY <1>1, <1>2, <1>5, <1>6, <2>1 DEF settingVars
<1>7. CASE s \in writable
  <2>1. BootManagerSettingsSet(s, page[s])
    BY <1>4, <1>5, <1>7 DEF SetSetting
  <2>2. faults = 0 => format \in Current
    BY <1>1 DEF StartInv, Started
  <2> HIDE DEF s
  <2>3. /\ StoreTypes'
        /\ UNCHANGED <<format, registered, settings>>
        /\ stored' \in {stored, [stored EXCEPT ![s] = page[s]]}
        /\ format \notin Readable => stored' = stored
        /\ faults' = 0 => faults = 0
        /\ faults' = 0 /\ format \in Current /\ s \in registered => stored'[s] = page[s]
    BY <1>2, <1>3, <2>1, ProviderSets, TypeParts
  <2> QED
    BY <1>1, <1>2, <1>4, <1>7, <2>2, <2>3 DEF s
<1> QED
  BY <1>6, <1>7

LEMMA StoreSettingKeeps == ASSUME PageInv, StoreSetting PROVE PageInv'
<1> USE DEF PageInv, buffers, tokens, observed
<1>0. /\ pc = "route" /\ index \in 1..4 /\ Len(OnPage) = 4
      /\ UNCHANGED <<buffers, tokens, loaded, observed>>
      /\ \/ index = 4 /\ pc' = "page" /\ index' = 0
         \/ index < 4 /\ pc' = "route" /\ index' = index + 1
  BY Boxes, TypeParts DEF StoreSetting, RouteNext, PlaceTypes
<1>1. StoreTypes'
  BY RouteStores
<1>2. StartInv'
  BY <1>0, RouteStores DEF StartInv, Started
<1>3. ScreenTypes' /\ PlaceTypes' /\ TokenInv'
  BY <1>0, TypeParts DEF ScreenTypes, PlaceTypes, PcStates, TokenInv, TokenIsCurrent
<1>4. \A s \in Shown : stored'[s] # stored[s] => s = OnPage[index] /\ stored'[s] = page[s]
  BY RouteStores, Boxes, TypeParts DEF StoreTypes
<1>5. FreshInv'
  BY <1>0, <1>4, RouteStores DEF FreshInv, InPage, WriteAccess
<1>6. RouteInv'
  <2>1. ASSUME NEW i \in 1..4, faults' = 0, OnPage[i] \in ticked \cap registered
        PROVE  \/ page[OnPage[i]] = stored'[OnPage[i]]
               \/ pc' = "route" /\ index' <= i /\ OnPage[i] \in writable
    <3>1. OnPage[i] \in Shown
      BY Boxes
    <3>2. \/ page[OnPage[i]] = stored[OnPage[i]]
          \/ index <= i /\ OnPage[i] \in writable
      BY <1>0, <2>1, RouteStores DEF RouteInv
    <3>3. CASE page[OnPage[i]] = stored[OnPage[i]]
      BY <1>4, <3>1, <3>3
    <3>4. CASE i = index /\ OnPage[i] \in writable
      BY <2>1, <3>4, RouteStores
    <3>5. CASE index < i /\ OnPage[i] \in writable
      BY <1>0, <3>5
    <3> QED
      BY <1>0, <3>2, <3>3, <3>4, <3>5
  <2> QED
    BY <1>0, <2>1, RouteStores DEF RouteInv
<1> QED
  BY <1>1, <1>2, <1>3, <1>5, <1>6, TypeParts

LEMMA PageInvStep == PageInv /\ [PageNext]_pageAllVars => PageInv'
<1> SUFFICES ASSUME PageInv, [PageNext]_pageAllVars PROVE PageInv'
  OBVIOUS
<1>1. CASE Start /\ UNCHANGED pageVars
  BY <1>1, StartKeeps
<1>2. CASE ApplyRemotely
  BY <1>2, ApplyRemotelyKeeps
<1>3. CASE BootMenuEntry \/ PublishToken \/ DisposeToken
  BY <1>3, TokenStepKeeps
<1>4. CASE OpenPage \/ ClosePage
  BY <1>4, OpenAndCloseKeep
<1>5. CASE ExtractSettings
  BY <1>5, ExtractSettingsKeeps
<1>6. CASE ExtractGrayout
  BY <1>6, ExtractGrayoutKeeps
<1>7. CASE ExtractSuppress \/ ShowPage
  BY <1>7, ShowPageKeeps
<1>8. CASE Tick
  BY <1>8, TickKeeps
<1>9. CASE StoreSetting
  BY <1>9, StoreSettingKeeps
<1>10. CASE PowerOn
  BY <1>10, PowerOnKeeps
<1>11. CASE UNCHANGED pageAllVars
  <2> USE <1>11 DEF pageAllVars, settingVars, pageVars, buffers, tokens, observed
  <2>1. StoreTypes' /\ ScreenTypes' /\ PlaceTypes'
    BY TypeParts DEF PageInv, StoreTypes, ScreenTypes, PlaceTypes
  <2>2. StartInv' /\ TokenInv' /\ FreshInv' /\ RouteInv'
    BY DEF PageInv, StartInv, TokenInv, TokenIsCurrent, FreshInv, RouteInv, WriteAccess
  <2> QED
    BY <2>1, <2>2, TypeParts DEF PageInv
<1> QED
  BY <1>1, <1>2, <1>3, <1>4, <1>5, <1>6, <1>7, <1>8, <1>9, <1>10, <1>11 DEF PageNext, Page

LEMMA PageInvHolds == PageSpec => []PageInv
BY PageInvInit, PageInvStep, PTL DEF PageSpec

-----------------------------------------------------------------------------
(***************************************************************************)
(* Every variable has its type, and a variable that is absent stands for   *)
(* the defaults.                                                           *)
(***************************************************************************)
THEOREM PageTypeCorrect == PageSpec => []PageTypeOK
<1>1. PageInv => PageTypeOK
  BY DEF PageInv
<1> QED
  BY <1>1, PageInvHolds, PTL

(***************************************************************************)
(* A boot menu that listens uses the token that is published, however      *)
(* often FrontPage disposes of it and publishes another.                   *)
(***************************************************************************)
THEOREM TokenFollowsProtocol == PageSpec => []TokenIsCurrent
<1>1. PageInv => TokenIsCurrent
  BY DEF PageInv, TokenInv
<1> QED
  BY <1>1, PageInvHolds, PTL

(***************************************************************************)
(* Without a failure the page shows what is stored, after any number of    *)
(* ticks.                                                                  *)
(***************************************************************************)
THEOREM PageIsTrue == PageSpec => []PageShowsSettings
<1>1. PageInv => PageShowsSettings
  <2> SUFFICES ASSUME PageInv, pc = "page", faults = 0, format \in Readable,
                      NEW s \in Shown \cap registered
               PROVE  page[s] = stored[s]
    BY DEF PageShowsSettings
  <2>1. s \in ticked \cup unread \/ page[s] = stored[s]
    BY DEF PageInv, FreshInv, InPage, Buffers
  <2>2. s \notin unread
    BY DEF PageInv, FreshInv, InPage, Buffers
  <2>3. PICK i \in 1..4 : s = OnPage[i]
    BY Boxes
  <2>4. s \in ticked => page[s] = stored[s]
    BY <2>3 DEF PageInv, RouteInv
  <2> QED
    BY <2>1, <2>2, <2>4
<1> QED
  BY <1>1, PageInvHolds, PTL

(***************************************************************************)
(* RouteConfig changes only settings that were ticked, or that the page    *)
(* could not read.                                                         *)
(***************************************************************************)
LEMMA RouteStep ==
  ASSUME PageInv, [PageNext]_pageAllVars, NEW s \in Settings, pc = "route", stored'[s] # stored[s]
  PROVE  s \in ticked \cup unread
<1>1. StoreSetting
  <2>1. ~UNCHANGED pageAllVars /\ ~PowerOn
    BY DEF pageAllVars, settingVars, PowerOn
  <2>2. ~Start /\ ~ApplyRemotely
    BY DEF Start, Constructor, KeepVariable, ConvertDelete, ConvertRecreate, Upgrade, Reject,
           Discard, WriteDefaults, ProviderSupportInstalled, ApplyRemotely
  <2> QED
    BY <2>1, <2>2 DEF PageNext, Page, BootMenuEntry, PublishToken, DisposeToken, OpenPage,
                      ExtractSettings, ExtractGrayout, ExtractSuppress, ShowPage, Tick, ClosePage
<1>2. s = OnPage[index] /\ s \in Shown /\ stored'[s] = page[s] /\ format \in Readable
  BY <1>1, RouteStores, TypeParts DEF PageInv, StoreTypes
<1>3. s \in ticked \cup unread \/ page[s] = stored[s]
  BY <1>2 DEF PageInv, FreshInv, InPage, Buffers
<1> QED
  BY <1>2, <1>3

THEOREM OnlyTicksAreStored == PageSpec => OnlyTickedSettingsChange
<1>1. PageInv /\ [PageNext]_pageAllVars
        => [\A s \in Settings :
              pc = "route" /\ stored'[s] # stored[s] => s \in ticked \cup unread]_pageAllVars
  BY RouteStep
<1> QED
  BY <1>1, PageInvHolds, PTL DEF PageSpec, OnlyTickedSettingsChange

-----------------------------------------------------------------------------
(***************************************************************************)
(* The settings and their page implement SettingsContract.                 *)
(***************************************************************************)
LEMMA ContractInit == PageInit => Contract!Init
BY SettingsAssumption DEF PageInit, Volatile, Contract!Init, Converting

(***************************************************************************)
(* Most steps leave the settings alone.                                    *)
(***************************************************************************)
LEMMA ContractStutter ==
  ASSUME UNCHANGED <<format, stored>>, ~Converting, ~Converting'
  PROVE  Contract!Next
BY DEF Contract!Next

LEMMA ContractStart ==
  ASSUME PageInv, Start
  PROVE  Contract!Next
<1> USE DEF PageInv
<1>0. StoreTypes
  BY TypeParts
<1>1. CASE Constructor \/ ProviderSupportInstalled \/ KeepVariable \/ Reject
  BY <1>1, ContractStutter
     DEF Constructor, ProviderSupportInstalled, KeepVariable, Reject, Converting, settingVars
<1>2. CASE ConvertDelete
  <2>1. PICK ok \in BOOLEAN : Access(ok) /\ DeleteVariable(ok)
    BY <1>2 DEF ConvertDelete
  <2>2. format = "old" /\ pc = "initialize" /\ pc' = "recreate" /\ settings' = Converted
    BY <1>2 DEF ConvertDelete
  <2>3. CASE ok
    <3>1. Converting' /\ ~Converting
      BY <2>1, <2>2, <2>3 DEF DeleteVariable, Converting
    <3>2. Converted = [s \in Settings |-> IF s \in {"IPv6", "AltBoot"} THEN stored[s]
                                          ELSE IF s = "BootOrderLock" THEN FALSE ELSE Pcd[s]]
      BY <1>0 DEF Converted, StoreTypes, Settings
    <3>3. Contract!Renew
      BY <2>2, <3>1, <3>2
         DEF Contract!Renew, Contract!Older, Contract!Known, Contract!Fresh
    <3> QED
      BY <3>3 DEF Contract!Next
  <2>4. CASE ~ok
    BY <2>1, <2>2, <2>4, ContractStutter DEF DeleteVariable, Converting
  <2> QED
    BY <2>3, <2>4
<1>3. CASE ConvertRecreate
  <2>1. PICK ok \in BOOLEAN :
          /\ format' = IF WriteSucceeds(ok) THEN "v3" ELSE format
          /\ stored' = IF WriteSucceeds(ok) THEN settings ELSE stored
    BY <1>3 DEF ConvertRecreate
  <2>2. pc = "recreate" /\ pc' = "dxe" /\ ~Converting'
    BY <1>3 DEF ConvertRecreate, Converting
  <2>3. CASE format = "absent" /\ WriteSucceeds(ok)
    BY <2>1, <2>2, <2>3 DEF Converting, Contract!Next, Contract!Settle
  <2>4. CASE format = "absent" /\ ~WriteSucceeds(ok)
    BY <1>0, <2>1, <2>2, <2>4
       DEF Converting, StoreTypes, Contract!Next, Contract!Lose, Contract!Sound, Contract!Older
  <2>5. CASE format = "old"
    BY <2>1, <2>2, <2>5, ContractStutter DEF Converting, WriteSucceeds, ForeignAttributes
  <2> QED
    BY <2>2, <2>3, <2>4, <2>5 DEF StartInv
<1>4. CASE Upgrade
  <2>1. PICK ok \in BOOLEAN :
          /\ format' = IF ok THEN "v3" ELSE format
          /\ stored' = IF ok THEN Upgraded ELSE stored
    BY <1>4 DEF Upgrade
  <2>2. format \in {"v1", "v2"} /\ ~Converting /\ ~Converting'
    BY <1>4 DEF Upgrade, Upgradable, Converting
  <2>3. CASE ok
    <3>1. CASE format = "v1"
      <4>1. Upgraded = [s \in Settings |-> IF s \in {"IPv6", "AltBoot", "BootOrderLock"}
                                           THEN stored[s] ELSE Pcd[s]]
        BY <1>0, <3>1 DEF Upgraded, StoreTypes, Settings
      <4>2. Contract!Renew
        BY <2>1, <2>2, <2>3, <3>1, <4>1
           DEF Contract!Renew, Contract!Older, Contract!Known, Contract!Fresh
      <4> QED
        BY <4>2 DEF Contract!Next
    <3>2. CASE format = "v2"
      <4>1. Upgraded = [s \in Settings |-> IF s \in Settings \ {"StartNetwork"}
                                           THEN stored[s] ELSE Pcd[s]]
        BY <1>0, <3>2 DEF Upgraded, StoreTypes, Settings
      <4>2. Contract!Renew
        BY <2>1, <2>2, <2>3, <3>2, <4>1
           DEF Contract!Renew, Contract!Older, Contract!Known, Contract!Fresh
      <4> QED
        BY <4>2 DEF Contract!Next
    <3> QED
      BY <2>2, <3>1, <3>2
  <2>4. CASE ~ok
    BY <2>1, <2>2, <2>4, ContractStutter
  <2> QED
    BY <2>3, <2>4
<1>5. CASE Discard \/ WriteDefaults
  <2>1. ~Converting /\ ~Converting'
    BY <1>5 DEF Discard, WriteDefaults, Converting
  <2>2. UNCHANGED <<format, stored>> \/ (format' \in {"absent", "v0"} /\ stored' = Pcd)
    BY <1>5 DEF Discard, DeleteVariable, WriteDefaults
  <2>3. format \in Contract!Sound => faults > 0
    <3>1. format \in Contract!Sound => format \notin Damaged \cup {"absent"}
      BY DEF Contract!Sound, Contract!Older, Damaged
    <3>2. faults \in Nat
      BY <1>0, SettingsAssumption DEF StoreTypes
    <3> QED
      BY <1>5, <3>1, <3>2 DEF Discard, WriteDefaults, StartInv
  <2>4. CASE format' \in {"absent", "v0"} /\ stored' = Pcd
    BY <2>1, <2>3, <2>4 DEF Contract!Next, Contract!Lose
  <2> QED
    BY <2>1, <2>2, <2>4, ContractStutter
<1> QED
  BY <1>1, <1>2, <1>3, <1>4, <1>5 DEF Start

LEMMA ContractSet ==
  ASSUME PageInv, pc # "recreate", pc' # "recreate",
         NEW s \in Settings, NEW v \in BOOLEAN, UNCHANGED format,
         stored' \in {stored, [stored EXCEPT ![s] = v]}
  PROVE  Contract!Next
BY DEF Converting, Contract!Next, Contract!Set

LEMMA ContractStep ==
  ASSUME PageInv, [PageNext]_pageAllVars
  PROVE  [Contract!Next]_(Contract!vars)
<1>1. CASE Start
  BY <1>1, ContractStart
<1>2. CASE ApplyRemotely
  <2>1. PICK s \in Settings, v \in BOOLEAN : BootManagerSettingsSet(s, v)
    BY <1>2, SettingsAssumption
       DEF ApplyRemotely, BootManagerSettingsSetDefault, GetBootManagerSettingDefault
  <2>2. UNCHANGED format /\ stored' \in {stored, [stored EXCEPT ![s] = v]}
    BY <2>1, ProviderSets, TypeParts DEF PageInv
  <2> QED
    BY <1>2, <2>2, ContractSet DEF ApplyRemotely
<1>3. CASE StoreSetting
  <2>1. pc = "route" /\ pc' \in {"route", "page"}
    BY <1>3 DEF StoreSetting, RouteNext
  <2>2. OnPage[index] \in Settings /\ page[OnPage[index]] \in BOOLEAN
    BY <1>3, RouteStores, Boxes, TypeParts DEF PageInv, ScreenTypes
  <2> QED
    BY <1>3, <2>1, <2>2, RouteStores, ContractSet
<1>4. CASE PowerOn
  <2>1. CASE Converting
    <3>1. stored = Pcd
      BY <2>1, TypeParts DEF Converting, PageInv, StoreTypes
    <3>2. Contract!Lose
      BY <1>4, <2>1, <3>1
         DEF PowerOn, Converting, Contract!Lose, Contract!Sound, Contract!Older
    <3> QED
      BY <3>2 DEF Contract!Next
  <2>2. CASE ~Converting
    BY <1>4, <2>2, ContractStutter DEF PowerOn, Converting
  <2> QED
    BY <2>1, <2>2
<1>5. CASE \/ BootMenuEntry \/ PublishToken \/ DisposeToken \/ OpenPage \/ ExtractSettings
           \/ ExtractGrayout \/ ExtractSuppress \/ ShowPage \/ Tick \/ ClosePage
  BY <1>5, ContractStutter
     DEF BootMenuEntry, PublishToken, DisposeToken, OpenPage, ExtractSettings, ExtractGrayout,
         ExtractSuppress, ShowPage, Tick, ClosePage, settingVars, Converting
<1>6. CASE UNCHANGED pageAllVars
  BY <1>6 DEF pageAllVars, settingVars, Contract!vars, Converting
<1> QED
  BY <1>1, <1>2, <1>3, <1>4, <1>5, <1>6 DEF PageNext, Page

(***************************************************************************)
(* A setting keeps its value until it is set, with the exceptions that     *)
(* SettingsContract lists, over starts, upgrades, visits to the page and   *)
(* losses of power.                                                        *)
(***************************************************************************)
THEOREM SettingsKeepContract == PageSpec => KeepsContract
<1>1. PageInv /\ [PageNext]_pageAllVars => [Contract!Next]_(Contract!vars)
  BY ContractStep
<1> QED
  BY <1>1, ContractInit, PageInvHolds, PTL DEF PageSpec, KeepsContract, Contract!Spec
=============================================================================
