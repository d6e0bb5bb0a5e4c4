--------------------------- MODULE FrontPageSession ---------------------------
(***************************************************************************)
(* One boot into FrontPage: the password challenge, the top menu, the loop *)
(* that shows one form after the other, the Security form with the system  *)
(* password and the Secure Boot keys, and the ways out.                    *)
(*                                                                         *)
(* The form browser, the display engine, the DFCI authentication and       *)
(* settings managers are outside the repository; FrontPage reacts to what  *)
(* they return.  The master frame's callback runs while the browser shows  *)
(* a form.  The machine may be reset or lose power at any moment.          *)
(***************************************************************************)
EXTENDS PasswordStore, SecureBootModes, Sequences

CONSTANT AttemptSettings   \* values of PcdMaxPasswordAttempts, 0 for no limit

ASSUME AttemptAssumption == AttemptSettings \subseteq 0..255

VARIABLES
  pc,
  \* The challenge.
  token,           \* mAuthToken
  published,       \* FrontPageAuthTokenProtocol is installed
  attempts,        \* MaxAttempts, counted down; 0 outside of the challenge
  showFullMenu,    \* mShowFullMenu
  reduced,         \* PcdSetupUiReducedFunction
  \* The menu and the form.
  formMap,         \* mFormMap: indexes in the full and in the limited menu
  cells,           \* the labels in mTopMenu
  current,         \* mCurrentFormIndex
  form,            \* the form the browser shows
  closing,         \* CloseFormRequest
  terminate,       \* mTerminateFrontPage
  \* Security.
  locks,           \* IsPostReadyToBoot's cached answer, if it has one
  policy,          \* VariablePolicy is enforced
  menuKeys,        \* mSecureBootKeysCount
  statusText,      \* the configuration STR_SEC_SB_STATE_TEXT names
  \* Leaving.
  resetRequired,   \* mResetRequired
  bootNext         \* BootNext exists

challengeVars == <<token, published, attempts, showFullMenu, reduced>>
menuVars      == <<formMap, cells, current, form, closing, terminate>>
securityVars  == <<locks, policy, menuKeys, statusText>>
sessionVars   == <<challengeVars, menuVars, securityVars, resetRequired, bootNext>>
frontPageVars == <<passwordVars, keyVars, sessionVars, pc>>

Menus  == <<"PCINFO", "SECURITY", "BOOTORDER", "DFCI", "HWH", "EXIT">>
Labels == {Menus[c] : c \in DOMAIN Menus}

UNUSED_INDEX == 65535

Entry(full, limited) == [full |-> full, limited |-> limited]

mFormMap ==
  << Entry(0, 0), Entry(1, UNUSED_INDEX), Entry(2, UNUSED_INDEX),
     Entry(3, 1), Entry(4, UNUSED_INDEX), Entry(5, 2) >>

PcStates == {"dxe", "uefiMain", "authenticate", "challenge", "createMenu", "loop", "form",
             "setPassword", "changeKeys", "leave", "bootNext", "left"}
InSession == {"loop", "form", "setPassword", "changeKeys"}

FrontPageTypeOK ==
  /\ password \in Stored
  /\ attributesMatch \in BOOLEAN
  /\ readFailed \in BOOLEAN
  /\ keys \in Configs
  /\ request \in 0..255
  /\ keyStage \in KeyStages
  /\ keyStatus \in {"success", "error"}
  /\ pc \in PcStates
  /\ token \in {"invalid", "live"}
  /\ attempts \in 0..255
  /\ {published, showFullMenu, reduced, closing, terminate, policy, resetRequired,
      bootNext} \subseteq BOOLEAN
  /\ locks \in {"unknown", "off", "on"}
  /\ formMap \in Seq([full : 0..UNUSED_INDEX, limited : 0..UNUSED_INDEX])
  /\ cells \in Seq(Labels)
  /\ current \in 0..Len(Menus)
  /\ form \in Labels \cup {"none"}
  /\ menuKeys \in {0, KeyCount}
  /\ statusText \in Configs

-----------------------------------------------------------------------------
FrontPageInit ==
  /\ password \in Stored
  /\ attributesMatch \in BOOLEAN
  /\ password = "absent" => attributesMatch
  /\ keys \in Configs
  /\ bootNext = FALSE
  /\ token = "invalid" /\ published = FALSE /\ attempts = 0
  /\ showFullMenu = FALSE
  /\ formMap = mFormMap /\ cells = <<>> /\ current = 0 /\ form = "none"
  /\ closing = FALSE /\ terminate = FALSE
  /\ locks = "unknown"
  /\ menuKeys = 0 /\ statusText = MU_SB_CONFIG_NONE
  /\ resetRequired = FALSE
  /\ pc = "dxe"
  /\ reduced = FALSE
  /\ policy = TRUE
  /\ readFailed = FALSE
  /\ request = 0 /\ keyStage = "idle" /\ keyStatus = "success"

(***************************************************************************)
(* A reset or a loss of power: the variables stay, the image starts anew.  *)
(***************************************************************************)
PowerOn ==
  /\ token' = "invalid" /\ published' = FALSE /\ attempts' = 0
  /\ showFullMenu' = FALSE
  /\ formMap' = mFormMap /\ cells' = <<>> /\ current' = 0 /\ form' = "none"
  /\ closing' = FALSE /\ terminate' = FALSE
  /\ locks' = "unknown"
  /\ menuKeys' = 0 /\ statusText' = MU_SB_CONFIG_NONE
  /\ resetRequired' = FALSE
  /\ pc' = "dxe"
  /\ reduced' = FALSE
  /\ policy' = TRUE
  /\ readFailed' = FALSE
  /\ request' = 0 /\ keyStage' = "idle" /\ keyStatus' = "success"
  /\ UNCHANGED <<password, attributesMatch, keys, bootNext>>

(***************************************************************************)
(* The settings manager may apply the owner's choice of keys before        *)
(* FrontPage starts; any byte may be asked for.                            *)
(***************************************************************************)
ApplyKeysRemotely ==
  /\ pc = "dxe" /\ keyStage = "idle"
  /\ \E value \in (0..(KeyCount + 1)) \cup {SecureBootModeGetDefault} : Call(value)
  /\ UNCHANGED <<passwordVars, sessionVars, pc>>

RunKeyChange ==
  /\ SecureBootModeSet
  /\ UNCHANGED <<passwordVars, sessionVars, pc>>

PasswordStoreLibConstructor ==
  /\ pc = "dxe" /\ keyStage = "idle"
  /\ PasswordStoreInitializeLib
  /\ pc' = "uefiMain"
  /\ UNCHANGED <<keyVars, sessionVars>>

(***************************************************************************)
(* A deletion of BootNext that fails is not noticed.                       *)
(***************************************************************************)
DeleteBootNext == bootNext' \in {FALSE} \cup (IF Failures THEN {bootNext} ELSE {})

(***************************************************************************)
(* UefiMain up to the challenge, with InitializeFrontPage.                 *)
(***************************************************************************)
UefiMain ==
  /\ pc = "uefiMain"
  /\ DeleteBootNext
  /\ resetRequired' = FALSE
  /\ menuKeys' \in {KeyCount} \cup (IF Failures THEN {0} ELSE {})
  /\ statusText' = keys
  /\ keyStatus' = "success"
  /\ pc' = "authenticate"
  /\ UNCHANGED <<passwordVars, keys, request, keyStage, challengeVars, menuVars, locks, policy>>

-----------------------------------------------------------------------------
(***************************************************************************)
(* GetAuthToken.  AuthWithPW of the authentication manager asks            *)
(* PasswordStoreLib; it may answer success with an invalid token, which is *)
(* not published.  result is what GetAuthToken returns.                    *)
(***************************************************************************)
GetAuthToken(input, result) ==
  \/ /\ Failures /\ ~result
     /\ UNCHANGED <<passwordVars, token, published>>
  \/ /\ PasswordStoreAuthenticatePassword(input, FALSE)
     /\ ~result
     /\ UNCHANGED <<token, published>>
  \/ /\ PasswordStoreAuthenticatePassword(input, TRUE)
     /\ token' \in {"live", "invalid"}
     /\ result \/ (Failures /\ token' = "live")
     /\ published' = (published \/ (result /\ token' = "live"))

NullPassword == [kind |-> "null", word |-> ""]

(***************************************************************************)
(* CreateTopMenu: without a password the full menu is shown at once, with  *)
(* one the user is asked for it (ChallengeUserPassword).                   *)
(***************************************************************************)
TryWithoutPassword ==
  /\ pc = "authenticate"
  /\ \E result \in BOOLEAN :
       /\ GetAuthToken(NullPassword, result)
       /\ showFullMenu' = (result /\ token' = "live")
       /\ pc' = IF result THEN "createMenu" ELSE "challenge"
       /\ IF result THEN UNCHANGED attempts ELSE attempts' \in AttemptSettings
  /\ UNCHANGED <<keyVars, reduced, menuVars, securityVars, resetRequired, bootNext>>

PasswordAcceptedTrusts ==  \* mutant: the token is not looked at after the challenge
  /\ showFullMenu' = TRUE
  /\ pc' = "createMenu"
  /\ attempts' = 0

PasswordAccepted ==
  /\ showFullMenu' = (token' = "live")
  /\ pc' = "createMenu"
  /\ attempts' = 0

PasswordRejectedAtZero ==  \* mutant: the count goes down before the limit is looked at
  /\ attempts' = attempts - 1
  /\ pc' = IF attempts' = 0 THEN "createMenu" ELSE pc
  /\ UNCHANGED showFullMenu

PasswordRejectedLate ==  \* mutant: the last attempt turns the limit into no limit
  /\ attempts' = IF attempts = 0 THEN 0 ELSE attempts - 1
  /\ UNCHANGED <<showFullMenu, pc>>

PasswordRejected ==
  /\ attempts' = IF attempts = 0 THEN 0 ELSE attempts - 1
  /\ pc' = IF attempts = 1 THEN "createMenu" ELSE pc
  /\ UNCHANGED showFullMenu

EnterPassword ==
  /\ pc = "challenge"
  /\ \E input \in Inputs, result \in BOOLEAN :
       /\ GetAuthToken(input, result)
       /\ IF result THEN PasswordAccepted ELSE PasswordRejected
  /\ UNCHANGED <<keyVars, reduced, menuVars, securityVars, resetRequired, bootNext>>

CancelChallenge ==
  /\ pc = "challenge"
  /\ pc' = "createMenu"
  /\ attempts' = 0
  /\ UNCHANGED <<passwordVars, keyVars, token, published, showFullMenu, reduced, menuVars,
                 securityVars, resetRequired, bootNext>>

-----------------------------------------------------------------------------
(***************************************************************************)
(* RemoveMenuFromList takes an entry out of mFormMap and moves the entries *)
(* behind it up, in each menu that had it.                                 *)
(***************************************************************************)
Position(label) == CHOOSE c \in DOMAIN Menus : Menus[c] = label

MovedUp(index, removed) ==
  IF removed # UNUSED_INDEX /\ index # UNUSED_INDEX THEN index - 1 ELSE index

RemoveMenuFromListFullOnly(map, label) ==  \* mutant: the limited menu is not closed up
  LET at == Position(label)
  IN  [c \in DOMAIN map |->
         IF c < at THEN map[c]
         ELSE IF c = at THEN Entry(UNUSED_INDEX, UNUSED_INDEX)
         ELSE Entry(MovedUp(map[c].full, map[at].full), map[c].limited)]

RemoveMenuFromList(map, label) ==
  LET at == Position(label)
  IN  [c \in DOMAIN map |->
         IF c < at THEN map[c]
         ELSE IF c = at THEN Entry(UNUSED_INDEX, UNUSED_INDEX)
         ELSE Entry(MovedUp(map[c].full, map[at].full),
                    MovedUp(map[c].limited, map[at].limited))]

Index(entry, full) == IF full THEN entry.full ELSE entry.limited

Matching(map, full, index) == {c \in DOMAIN map : Index(map[c], full) = index}

(***************************************************************************)
(* The list box reads its options up to the first one without a text.      *)
(***************************************************************************)
MenuOptions(map, full) ==
  LET length == CHOOSE n \in 0..Len(Menus) :
                  /\ Matching(map, full, n) = {}
                  /\ \A i \in 0..(n - 1) : Matching(map, full, i) # {}
  IN  [i \in 1..length |->
         Menus[CHOOSE c \in Matching(map, full, i - 1) :
                 \A d \in Matching(map, full, i - 1) : d <= c]]

CreateTopMenu ==
  /\ pc = "createMenu"
  /\ reduced' = (reduced \/ ~showFullMenu)
  /\ \E dfci, hwh \in BOOLEAN :
       LET withoutDfci == IF dfci THEN formMap ELSE RemoveMenuFromList(formMap, "DFCI")
       IN  formMap' = IF hwh THEN withoutDfci ELSE RemoveMenuFromList(withoutDfci, "HWH")
  /\ cells' = MenuOptions(formMap', showFullMenu)
  /\ current' = 0
  /\ readFailed' = FALSE
  /\ pc' = "loop"
  /\ UNCHANGED <<password, attributesMatch, keyVars, token, published, attempts, showFullMenu, form,
                 closing, terminate, securityVars, resetRequired, bootNext>>

(***************************************************************************)
(* The loop of UefiMain and CallFrontPage.  The first form of FrontPage's  *)
(* own form set asks for the controls: IsPostReadyToBoot reads the phase   *)
(* indicator and keeps its answer, "not yet" when it cannot be read.  BDS  *)
(* has signalled ReadyToBoot before FrontPage starts, or not.              *)
(***************************************************************************)
IsPostReadyToBoot ==
  IF locks # "unknown" \/ form' \in {"BOOTORDER", "DFCI", "HWH"} THEN UNCHANGED locks
  ELSE locks' \in {"off", "on"}

CallFrontPage ==
  /\ pc = "loop"
  /\ terminate' = TRUE
  /\ closing' = FALSE
  /\ LET found == Matching(formMap, showFullMenu, current)
     IN  IF found = {} THEN pc' = "leave" /\ UNCHANGED <<form, locks>>
         ELSE /\ form' = Menus[CHOOSE c \in found : \A d \in found : c <= d]
              /\ pc' = "form"
              /\ IsPostReadyToBoot
  /\ UNCHANGED <<passwordVars, keyVars, challengeVars, formMap, cells, current, policy, menuKeys,
                 statusText, resetRequired, bootNext>>

(***************************************************************************)
(* SendForm has returned: the loop goes on only if a cell was selected and *)
(* the form was not left with a request to exit.                           *)
(***************************************************************************)
SendFormReturns(action) ==
  LET ends == terminate \/ action = "exit"
  IN  /\ terminate' = ends
      /\ form' = "none"
      /\ pc' = IF ends THEN "leave" ELSE "loop"
      /\ UNCHANGED <<formMap, cells, current, closing>>

MasterFrameNotifyCallback ==
  /\ pc = "form"
  /\ \E index \in 0..(Len(cells) - 1) :
       /\ index # current
       /\ current' = index
  /\ closing' = TRUE
  /\ terminate' = FALSE
  /\ UNCHANGED <<passwordVars, keyVars, challengeVars, formMap, cells, form, securityVars,
                 resetRequired, bootNext, pc>>

(***************************************************************************)
(* The browser closes the form it was told to close, the user leaves it,   *)
(* or a form asks for a reset.                                             *)
(***************************************************************************)
CloseForm ==
  /\ pc = "form"
  /\ SendFormReturns("none")
  /\ UNCHANGED <<passwordVars, keyVars, challengeVars, securityVars, resetRequired, bootNext>>

CloseFormForReset ==
  /\ pc = "form"
  /\ SendFormReturns("reset")
  /\ resetRequired' = TRUE
  /\ UNCHANGED <<passwordVars, keyVars, challengeVars, securityVars, bootNext>>

InForm(label) == pc = "form" /\ form = label /\ ~closing

(***************************************************************************)
(* The Security form offers its own buttons before ReadyToBoot and, after  *)
(* it, only a reboot back to FrontPage.                                    *)
(***************************************************************************)
SecurityButtons(afterLocks) == InForm("SECURITY") /\ locks = afterLocks

ExitFrontPage ==
  /\ InForm("EXIT")
  /\ SendFormReturns("exit")
  /\ UNCHANGED <<passwordVars, keyVars, challengeVars, securityVars, resetRequired, bootNext>>

(***************************************************************************)
(* Without OsIndications written the form stays.                           *)
(***************************************************************************)
HandleRebootToFrontPage ==
  /\ SecurityButtons("on")
  /\ \/ SendFormReturns("exit") /\ resetRequired' = TRUE
     \/ Failures /\ UNCHANGED <<menuVars, resetRequired, pc>>
  /\ UNCHANGED <<passwordVars, keyVars, challengeVars, securityVars, bootNext>>

(***************************************************************************)
(* The boot order form writes BootNext, if it can, and closes the browser. *)
(***************************************************************************)
BootOptionNow ==
  /\ InForm("BOOTORDER")
  /\ bootNext' \in {TRUE} \cup (IF Failures THEN {bootNext} ELSE {})
  /\ SendFormReturns("none")
  /\ UNCHANGED <<passwordVars, keyVars, challengeVars, securityVars, resetRequired>>

-----------------------------------------------------------------------------
(***************************************************************************)
(* SetSystemPassword asks until a password is stored or the user cancels.  *)
(* The settings manager stores it, with a token it accepts.                *)
(***************************************************************************)
OpenPasswordDialog ==
  /\ SecurityButtons("off")
  /\ pc' = "setPassword"
  /\ UNCHANGED <<passwordVars, keyVars, sessionVars>>

CancelPasswordDialog ==
  /\ pc = "setPassword"
  /\ pc' = "form"
  /\ UNCHANGED <<passwordVars, keyVars, sessionVars>>

Storable(input) == input.kind = "null" \/ PasswordPolicyIsPwStringValid(input)

SetSystemPassword ==
  /\ pc = "setPassword"
  /\ \E input \in Inputs, stored \in BOOLEAN :
       /\ Storable(input)
       /\ \E hash \in PasswordPolicyGeneratePasswordHash(input) :
            IF hash # "failed" /\ token = "live"
            THEN /\ stored \/ Failures \/ ~attributesMatch
                 /\ PasswordStoreSetPassword(hash, stored)
            ELSE ~stored /\ UNCHANGED <<password, attributesMatch>>
       /\ pc' = IF stored THEN "form" ELSE pc
  /\ readFailed' = FALSE
  /\ UNCHANGED <<keyVars, sessionVars>>

(***************************************************************************)
(* HandleSecureBootChange.  The last option is "none".  VariablePolicy is  *)
(* suspended before the settings manager is called, which may refuse.      *)
(***************************************************************************)
DeclineKeys ==
  /\ SecurityButtons("off")
  /\ resetRequired' = TRUE
  /\ UNCHANGED <<passwordVars, keyVars, challengeVars, menuVars, securityVars, bootNext, pc>>

SetKeys(value) ==
  IF token = "live" THEN Call(value) \/ (Failures /\ Return("error") /\ UNCHANGED keys)
  ELSE Return("error") /\ UNCHANGED keys

ChooseKeys ==
  /\ SecurityButtons("off")
  /\ policy' \in {FALSE} \cup (IF Failures THEN {policy} ELSE {})
  /\ \E index \in 0..menuKeys :
       SetKeys(IF index = menuKeys THEN MU_SB_CONFIG_NONE ELSE index)
  /\ pc' = "changeKeys"
  /\ UNCHANGED <<passwordVars, challengeVars, menuVars, locks, menuKeys,
                 statusText, resetRequired, bootNext>>

UpdateSecureBootStatusStringsNever ==  \* mutant: the form keeps the text it was shown with
  UNCHANGED statusText

UpdateSecureBootStatusStrings ==
  statusText' = IF keyStatus = "success" THEN keys ELSE statusText

HandleSecureBootChangeIfDone ==  \* mutant: a reset is asked for only when the keys have been changed
  /\ pc = "changeKeys" /\ keyStage = "idle"
  /\ UpdateSecureBootStatusStrings
  /\ resetRequired' = (resetRequired \/ keyStatus = "success")
  /\ pc' = "form"
  /\ UNCHANGED <<passwordVars, keyVars, challengeVars, menuVars, locks, policy,
                 menuKeys, bootNext>>

HandleSecureBootChange ==
  /\ pc = "changeKeys" /\ keyStage = "idle"
  /\ UpdateSecureBootStatusStrings
  /\ resetRequired' = TRUE
  /\ pc' = "form"
  /\ UNCHANGED <<passwordVars, keyVars, challengeVars, menuVars, locks, policy,
                 menuKeys, bootNext>>

-----------------------------------------------------------------------------
(***************************************************************************)
(* The end of UefiMain: a reset that is due, the option of ProcessBootNext *)
(* and the reset after it, or the return to BDS with the token disposed of *)
(* when BootNext is missing, cannot be read, or has the wrong size.        *)
(***************************************************************************)
ResetSystem ==
  /\ pc = "leave" /\ resetRequired
  /\ PowerOn

ProcessBootNext ==
  /\ pc = "leave" /\ ~resetRequired /\ bootNext
  /\ DeleteBootNext
  /\ pc' = "bootNext"
  /\ UNCHANGED <<passwordVars, keyVars, challengeVars, menuVars, securityVars, resetRequired>>

UninitializeFrontPage ==
  /\ pc = "leave" /\ ~resetRequired /\ (~bootNext \/ Failures)
  /\ DeleteBootNext
  /\ token' = "invalid"
  /\ published' = FALSE
  /\ pc' = "left"
  /\ UNCHANGED <<passwordVars, keyVars, attempts, showFullMenu, reduced, menuVars,
                 securityVars, resetRequired>>

AnswerChallenge == EnterPassword \/ CancelChallenge

FrontPageNext ==
  \/ ApplyKeysRemotely \/ RunKeyChange \/ PasswordStoreLibConstructor
  \/ UefiMain \/ TryWithoutPassword \/ AnswerChallenge \/ CreateTopMenu
  \/ CallFrontPage \/ MasterFrameNotifyCallback
  \/ CloseForm \/ CloseFormForReset \/ ExitFrontPage \/ HandleRebootToFrontPage
  \/ BootOptionNow
  \/ OpenPasswordDialog \/ CancelPasswordDialog \/ SetSystemPassword
  \/ DeclineKeys \/ ChooseKeys \/ HandleSecureBootChange
  \/ ResetSystem \/ ProcessBootNext \/ UninitializeFrontPage
  \/ PowerOn

(***************************************************************************)
(* The user answers the password prompt, one way or another.               *)
(***************************************************************************)
FrontPageSpec ==
  FrontPageInit /\ [][FrontPageNext]_frontPageVars /\ WF_frontPageVars(AnswerChallenge)

-----------------------------------------------------------------------------
(***************************************************************************)
(* Whatever path the challenge took, a session with the full menu holds a  *)
(* token that is valid and published for the other drivers, and the        *)
(* restricted forms are shown in no other session.                         *)
(***************************************************************************)
Restricted == {"SECURITY", "BOOTORDER", "HWH"}

FullMenuHasToken ==
  /\ pc \in InSession /\ showFullMenu => token = "live" /\ published
  /\ form \in Restricted => showFullMenu

(***************************************************************************)
(* mTopMenu and mFormMap agree after entries have been removed: a selected *)
(* cell opens the form of its label, and every form left in the map has a  *)
(* cell, the way out among them.                                           *)
(***************************************************************************)
MenuShowsForms ==
  pc \in InSession =>
    /\ {cells[i] : i \in DOMAIN cells}
         = {Menus[c] : c \in {d \in DOMAIN Menus : Index(formMap[d], showFullMenu) # UNUSED_INDEX}}
    /\ cells[Len(cells)] = "EXIT"
    /\ pc = "form" /\ ~closing => form = cells[current + 1]

(***************************************************************************)
(* VariablePolicy is suspended for a change of the keys and comes back     *)
(* with the next reset only: nothing is booted and FrontPage does not      *)
(* return to BDS before.                                                   *)
(***************************************************************************)
PolicyBackBeforeBoot == pc \in {"bootNext", "left"} => policy

(***************************************************************************)
(* The Security form names the keys in force, with one exception: after a  *)
(* change that failed half way there are no keys, the text is the old one, *)
(* and a reset is due.  HandleSecureBootChange's header promises that a    *)
(* failed change leaves the keys alone: that is FailedChangeKeepsKeys.     *)
(***************************************************************************)
StatusNamesKeys ==
  pc = "form" /\ statusText # keys =>
    keys = MU_SB_CONFIG_NONE /\ keyStatus # "success" /\ resetRequired

(***************************************************************************)
(* "@retval Others  Failed to update. SecureBoot state remains unchanged"  *)
(* (HandleSecureBootChange): when the change of the keys has returned an   *)
(* error the keys are those the form still names.  The code does not keep  *)
(* this promise.                                                           *)
(***************************************************************************)
FailedChangeKeepsKeys == pc = "form" /\ keyStatus = "error" => keys = statusText

(***************************************************************************)
(* The keys are only touched if others were asked for, and become those    *)
(* or, on the way there, none; an interrupted or failed change may stop at *)
(* none, but one that returns success to the form has set what was asked.  *)
(***************************************************************************)
KeysFollowRequest ==
  [][ /\ keys' # keys => keys # request /\ keys' \in {request, MU_SB_CONFIG_NONE}
      /\ keyStage # "idle" /\ keyStage' = "idle" /\ pc' = "changeKeys" /\ keyStatus' = "success"
         => keys' = request ]_frontPageVars

(***************************************************************************)
(* A password is lost only by the user's own choice in the dialog, or when *)
(* a read of the variable that fails is taken for a missing variable.      *)
(***************************************************************************)
PasswordKept ==
  [][(password \in Passwords \cup {"otherVersion"} /\ password' # password)
       => (pc = "setPassword" \/ readFailed')]_frontPageVars

(***************************************************************************)
(* A prompt with a limit ends, whatever the user enters.                   *)
(***************************************************************************)
ChallengeEnds == pc = "challenge" /\ attempts # 0 ~> pc # "challenge"
=============================================================================
