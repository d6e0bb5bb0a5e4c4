--------------------------- MODULE SecureBootModes ---------------------------
(***************************************************************************)
(* The setting for the Secure Boot keys (MsSecureBootModeSettingLib): a    *)
(* byte that is the index of a set of keys in the platform's key store,    *)
(* or "none".  Changing it deletes the variables and writes new ones, two  *)
(* calls between which the power may be lost.                              *)
(*                                                                         *)
(* The calls are SecureBootVariableLib's, outside the repository: the      *)
(* platform key is the first to be deleted and the last to be written, so  *)
(* a call that fails leaves the configuration as it was, or none.          *)
(***************************************************************************)
EXTENDS Naturals

CONSTANT KeyCount   \* mSecureBootKeysCount: sets of keys in the key store

ASSUME KeyCountAssumption == KeyCount \in 1..253

VARIABLES
  keys,        \* GetCurrentSecureBootConfig
  request,     \* *Value of the SecureBootModeSet that runs, 0 if none does
  keyStage,    \* what it does next
  keyStatus    \* the status it has returned

keyVars == <<keys, request, keyStage, keyStatus>>

MU_SB_CONFIG_NONE == 255
Unknown           == 254   \* keys that are not in the key store

Configs   == (0..(KeyCount - 1)) \cup {Unknown, MU_SB_CONFIG_NONE}
KeyStages == {"idle", "set", "delete", "write"}

SecureBootModeGetDefault == MU_SB_CONFIG_NONE

Call(value) ==
  /\ request' = value
  /\ keyStage' = "set"
  /\ UNCHANGED <<keys, keyStatus>>

Return(status) ==
  /\ keyStage' = "idle"
  /\ request' = 0
  /\ keyStatus' = status

(***************************************************************************)
(* SecureBootModeSet up to the deletion.                                   *)
(***************************************************************************)
KeyStoreMissing ==
  /\ keyStage = "set"
  /\ Return("error")
  /\ UNCHANGED keys

CustomKeys ==
  /\ keyStage = "set"
  /\ request > KeyCount
  /\ request # MU_SB_CONFIG_NONE
  /\ Return("error")
  /\ UNCHANGED keys

Settable == request <= KeyCount \/ request = MU_SB_CONFIG_NONE

AlreadySet ==
  /\ keyStage = "set"
  /\ Settable
  /\ keys = request
  /\ Return("success")
  /\ UNCHANGED keys

NoSuchKeys ==
  /\ keyStage = "set"
  /\ request = KeyCount
  /\ Return("error")
  /\ UNCHANGED keys

StartChangeAlways ==  \* mutant: the keys are replaced even if they are the ones asked for
  /\ keyStage = "set"
  /\ request < KeyCount \/ request = MU_SB_CONFIG_NONE
  /\ keyStage' = "delete"
  /\ UNCHANGED <<keys, request, keyStatus>>

StartChange ==
  /\ keyStage = "set"
  /\ request < KeyCount \/ request = MU_SB_CONFIG_NONE
  /\ keys # request
  /\ keyStage' = "delete"
  /\ UNCHANGED <<keys, request, keyStatus>>

DeleteSecureBootVariables ==
  /\ keyStage = "delete"
  /\ \/ /\ keys' = MU_SB_CONFIG_NONE
        /\ IF request = MU_SB_CONFIG_NONE THEN Return("success")
           ELSE keyStage' = "write" /\ UNCHANGED <<request, keyStatus>>
     \/ keys' \in {keys, MU_SB_CONFIG_NONE} /\ Return("error")

SetSecureBootConfig ==
  /\ keyStage = "write"
  /\ \/ keys' = request /\ Return("success")
     \/ keys' = MU_SB_CONFIG_NONE /\ Return("error")

SecureBootModeSet ==
  \/ KeyStoreMissing \/ CustomKeys \/ AlreadySet \/ NoSuchKeys
  \/ StartChange \/ DeleteSecureBootVariables \/ SetSecureBootConfig
=============================================================================
