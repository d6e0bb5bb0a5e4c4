----------------------------- MODULE SettingsPage -----------------------------
(***************************************************************************)
(* The check boxes below the boot order of BootMenu.c, on top of the       *)
(* settings providers of BootManagerSettings.                              *)
(*                                                                         *)
(* The driver keeps three buffers: the settings, the flags that gray a     *)
(* check box out, and the flags that hide it.  The browser asks for them   *)
(* in any order (ExtractConfig) and, when a box is ticked, sends all the   *)
(* settings back (RouteConfig), whose buffer it shows.  The driver writes  *)
(* those whose cached flag says that they may be written.                  *)
(*                                                                         *)
(* The settings manager and the browser are outside the repository.        *)
(***************************************************************************)
EXTENDS BootManagerSettings, Sequences

CONSTANT Managed   \* settings that only a remote owner may write

ASSUME ManagedAssumption == Managed \subseteq Settings

VARIABLES
  page,         \* mSettingsConfiguration
  writable,     \* mSettingsGrayoutConfiguration: settings that are not grayed out
  restricted,   \* its RestrictedAccessString
  suppressed,   \* mSettingsSuppressConfiguration: settings that are hidden
  authToken,    \* mAuthToken: none, one the settings manager accepts, or a disposed one
  entered,      \* BootMenuEntry has run
  listening,    \* and has registered AuthTokenCallback
  published,    \* FrontPage's token protocol is installed
  loaded,       \* buffers extracted since the page was opened
  index,        \* the next setting RouteConfig stores
  \* Read by the properties only.
  ticked,       \* settings whose box was ticked since the page was last loaded
  unread        \* settings the page could not read when it was loaded

buffers  == <<page, writable, restricted, suppressed>>
tokens   == <<authToken, entered, listening, published>>
observed == <<ticked, unread>>
pageVars == <<buffers, tokens, loaded, index, observed>>
pageAllVars == <<settingVars, pc, pageVars>>

OnPage  == <<"IPv6", "AltBoot", "BootOrderLock", "EnableUsbBoot">>
Shown   == {OnPage[i] : i \in 1..Len(OnPage)}
Buffers == {"BootSettingsConfig", "BootGrayoutConfig", "BootSuppressConfig"}

PcStates == {"constructor", "initialize", "recreate", "discard", "defaults", "dxe",
             "ready", "extract", "page", "route"}

(***************************************************************************)
(* A tick is pending exactly while RouteConfig stores the settings.        *)
(***************************************************************************)
PageTypeOK ==
  /\ format \in Formats
  /\ stored \in [Settings -> BOOLEAN]
  /\ format = "absent" => stored = Pcd
  /\ pc \in PcStates
  /\ settings \in [Settings -> BOOLEAN]
  /\ registered \subseteq Settings
  /\ faults \in 0..MaxFaults
  /\ page \in [Shown -> BOOLEAN]
  /\ writable \subseteq Shown
  /\ suppressed \subseteq Shown
  /\ restricted \in BOOLEAN
  /\ authToken \in {"none", "live", "stale"}
  /\ authToken = "live" => published
  /\ entered \in BOOLEAN
  /\ listening \in BOOLEAN
  /\ published \in BOOLEAN
  /\ loaded \subseteq Buffers
  /\ index \in 0..Len(OnPage)
  /\ index > 0 <=> pc = "route"
  /\ ticked \subseteq Shown
  /\ unread \subseteq Shown

Off == [s \in Shown |-> FALSE]

Volatile ==
  /\ pc = "constructor"
  /\ settings = Pcd
  /\ registered = {}
  /\ faults = 0
  /\ page = Off
  /\ writable = {}
  /\ restricted = FALSE
  /\ suppressed = {}
  /\ authToken = "none"
  /\ entered = FALSE
  /\ listening = FALSE
  /\ published = FALSE
  /\ loaded = {}
  /\ index = 0
  /\ ticked = {}
  /\ unread = {}

PageInit ==
  /\ format \in Formats
  /\ stored \in IF format = "absent" THEN {Pcd} ELSE {Pcd, [s \in Settings |-> ~Pcd[s]]}
  /\ Volatile

PowerOn ==
  /\ pc' = "constructor"
  /\ settings' = Pcd
  /\ registered' = {}
  /\ faults' = 0
  /\ page' = Off
  /\ writable' = {}
  /\ restricted' = FALSE
  /\ suppressed' = {}
  /\ authToken' = "none"
  /\ entered' = FALSE
  /\ listening' = FALSE
  /\ published' = FALSE
  /\ loaded' = {}
  /\ index' = 0
  /\ ticked' = {}
  /\ unread' = {}
  /\ UNCHANGED <<format, stored>>

-----------------------------------------------------------------------------
(***************************************************************************)
(* The settings manager applies a setting for the remote owner, or puts it *)
(* back to its default.                                                    *)
(***************************************************************************)
ApplyRemotely ==
  /\ pc = "ready"
  /\ \E s \in Settings :
       \/ \E v \in BOOLEAN : BootManagerSettingsSet(s, v)
       \/ BootManagerSettingsSetDefault(s)
  /\ UNCHANGED <<pc, pageVars>>

(***************************************************************************)
(* BootMenuEntry takes the token that FrontPage has published.  Only when  *)
(* it finds none does it register AuthTokenCallback, which takes every     *)
(* token published later; creating the event or registering it may fail.   *)
(* The driver is not told when a token is disposed of.                     *)
(***************************************************************************)
BootMenuEntryOnlyNotifies ==  \* mutant: a token published before the driver starts is missed
  /\ pc = "ready" /\ ~entered
  /\ entered' = TRUE
  /\ listening' = TRUE
  /\ UNCHANGED <<settingVars, pc, buffers, authToken, published, loaded, index, observed>>

BootMenuEntry ==
  /\ pc = "ready" /\ ~entered
  /\ entered' = TRUE
  /\ IF published
     THEN authToken' = "live" /\ listening' = FALSE
     ELSE authToken' = "none" /\ listening' \in BOOLEAN
  /\ UNCHANGED <<settingVars, pc, buffers, published, loaded, index, observed>>

AuthTokenCallback == authToken' = IF listening THEN "live" ELSE authToken

PublishToken ==
  /\ pc = "ready" /\ ~published
  /\ published' = TRUE
  /\ AuthTokenCallback
  /\ UNCHANGED <<settingVars, pc, buffers, entered, listening, loaded, index, observed>>

DisposeToken ==
  /\ pc = "ready" /\ published
  /\ published' = FALSE
  /\ authToken' = IF authToken = "live" THEN "stale" ELSE authToken
  /\ UNCHANGED <<settingVars, pc, buffers, entered, listening, loaded, index, observed>>

(***************************************************************************)
(* The browser opens or reloads the page.                                  *)
(***************************************************************************)
OpenPageKeepsBuffers ==  \* mutant: buffers extracted for an earlier visit are used again
  /\ pc \in {"ready", "page"} /\ entered
  /\ pc' = "extract"
  /\ ticked' = {}
  /\ UNCHANGED <<settingVars, buffers, tokens, loaded, index, unread>>

OpenPage ==
  /\ pc \in {"ready", "page"} /\ entered
  /\ pc' = "extract"
  /\ loaded' = {}
  /\ ticked' = {}
  /\ unread' = {}
  /\ UNCHANGED <<settingVars, buffers, tokens, index>>

(***************************************************************************)
(* ExtractConfig.  The settings manager may refuse to answer for a         *)
(* setting, and the provider answers with the default when it cannot read  *)
(* the variable.  At most one setting of an extraction is hit by a failure.*)
(***************************************************************************)
WriteAccess(s) == authToken = "live" /\ s \notin Managed

GetSetting(s, answers, reads) ==
  IF s \in registered /\ answers THEN BootManagerSettingsGet(s, reads) ELSE TRUE

ExtractSettings ==
  /\ pc = "extract"
  /\ \E ok, refused \in BOOLEAN, victim \in Shown :
       LET fails(s) == ~ok /\ s = victim
       IN  /\ Access(ok)
           /\ page' = [s \in Shown |-> GetSetting(s, ~(fails(s) /\ refused), ~fails(s))]
           /\ unread' = {s \in Shown : s \notin registered \/ fails(s)}
  /\ loaded' = loaded \cup {"BootSettingsConfig"}
  /\ UNCHANGED <<format, stored, settings, registered, pc, writable, restricted,
                 suppressed, tokens, index, ticked>>

GetSettingGrayoutFlag(s, answers) == s \in registered /\ answers /\ WriteAccess(s)

RestrictedAccess(s, answers) == s \in registered /\ answers /\ ~WriteAccess(s)

ExtractGrayout ==
  /\ pc = "extract"
  /\ \E ok \in BOOLEAN, victim \in Shown :
       /\ Access(ok)
       /\ writable'   = {s \in Shown : GetSettingGrayoutFlag(s, ok \/ s # victim)}
       /\ restricted' = \E s \in Shown : RestrictedAccess(s, ok \/ s # victim)
  /\ loaded' = loaded \cup {"BootGrayoutConfig"}
  /\ UNCHANGED <<format, stored, settings, registered, pc, page, suppressed, tokens,
                 index, observed>>

(***************************************************************************)
(* Only a setting without a provider is hidden; another failure is not a   *)
(* reason.                                                                 *)
(***************************************************************************)
GetSettingSuppressFlag(s) == s \notin registered

ExtractSuppress ==
  /\ pc = "extract"
  /\ suppressed' = {s \in Shown : GetSettingSuppressFlag(s)}
  /\ loaded' = loaded \cup {"BootSuppressConfig"}
  /\ UNCHANGED <<settingVars, pc, page, writable, restricted, tokens, index, observed>>

ShowPage ==
  /\ pc = "extract"
  /\ loaded = Buffers
  /\ pc' = "page"
  /\ UNCHANGED <<settingVars, pageVars>>

(***************************************************************************)
(* The user ticks a box that is neither grayed out nor hidden.  The driver *)
(* asks for the form to be applied (DriverCallback), and the browser sends *)
(* all the settings.  If ConfigToBlock fails on them RouteConfig stores    *)
(* nothing, and the browser keeps the tick or takes it back.               *)
(***************************************************************************)
Tick ==
  /\ pc = "page"
  /\ \E s \in writable \ suppressed, ok \in BOOLEAN :
       /\ Access(ok)
       /\ ticked' = ticked \cup {s}
       /\ LET sent == [page EXCEPT ![s] = ~@]
          IN  IF ok
              THEN page' = sent /\ pc' = "route" /\ index' = 1
              ELSE page' \in {page, sent} /\ UNCHANGED <<pc, index>>
  /\ UNCHANGED <<format, stored, settings, registered, writable, restricted, suppressed,
                 tokens, loaded, unread>>

RouteNextOneMore ==  \* mutant: one setting more than there are
  IF index > Len(OnPage) THEN pc' = "page" /\ index' = 0
  ELSE index' = index + 1 /\ UNCHANGED pc

RouteNext ==
  IF index = Len(OnPage) THEN pc' = "page" /\ index' = 0
  ELSE index' = index + 1 /\ UNCHANGED pc

(***************************************************************************)
(* RouteConfig for BootSettingsConfig, one SetSetting after the other; the *)
(* settings manager checks the token again.                                *)
(***************************************************************************)
SetSetting(s, value) ==
  IF WriteAccess(s) THEN BootManagerSettingsSet(s, value) ELSE UNCHANGED settingVars

StoreSetting ==
  /\ pc = "route"
  /\ LET s == OnPage[index]
     IN  IF s \in writable THEN SetSetting(s, page[s]) ELSE UNCHANGED settingVars
  /\ RouteNext
  /\ UNCHANGED <<buffers, tokens, loaded, observed>>

ClosePage ==
  /\ pc = "page"
  /\ pc' = "ready"
  /\ UNCHANGED <<settingVars, pageVars>>

Page ==
  \/ BootMenuEntry \/ PublishToken \/ DisposeToken \/ OpenPage \/ ExtractSettings \/ ExtractGrayout \/ ExtractSuppress
  \/ ShowPage \/ Tick \/ StoreSetting \/ ClosePage

PageNext ==
  \/ Start /\ UNCHANGED pageVars
  \/ ApplyRemotely
  \/ Page
  \/ PowerOn

PageSpec == PageInit /\ [][PageNext]_pageAllVars

-----------------------------------------------------------------------------
(***************************************************************************)
(* The settings keep their values as SettingsContract says: over starts,   *)
(* upgrades, remote changes, visits to the page and losses of power.       *)
(***************************************************************************)
KeepsContract == Contract!Spec

(***************************************************************************)
(* RouteConfig writes every setting that may be written, not the one that  *)
(* was ticked: it is the freshness of its buffers that keeps it from       *)
(* writing anything the user has not asked for since the page was loaded.  *)
(* The exception is a setting the page could not read: what it shows       *)
(* instead (a default, or "on") is written with the next tick of any box.  *)
(***************************************************************************)
OnlyTickedSettingsChange ==
  [][\A s \in Settings :
       pc = "route" /\ stored'[s] # stored[s] => s \in ticked \cup unread]_pageAllVars

(***************************************************************************)
(* As long as nothing has failed in this boot, the page that can be ticked *)
(* shows what is stored, for every setting that has a provider.            *)
(***************************************************************************)
PageShowsSettings ==
  pc = "page" /\ faults = 0 /\ format \in Readable =>
    \A s \in Shown \cap registered : page[s] = stored[s]

(***************************************************************************)
(* While FrontPage's token is published, a boot menu that listens uses it  *)
(* and no older one, and a boot menu that does not listen is one that      *)
(* found a token at entry, or could not register.  The former keeps that   *)
(* token: if FrontPage disposes of it, returns, and publishes another when *)
(* it is entered again, the boot menu goes on with the disposed one.       *)
(***************************************************************************)
TokenIsCurrent == entered /\ published /\ authToken # "live" => ~listening
=============================================================================
