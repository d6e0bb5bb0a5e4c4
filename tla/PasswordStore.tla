---------------------------- MODULE PasswordStore ----------------------------
(***************************************************************************)
(* The administrator's password: the variable PasswordStoreLib keeps and   *)
(* the rules of PasswordPolicyLib for what may be stored and compared.     *)
(*                                                                         *)
(* A hash is represented by the password it was made from; the salt is     *)
(* taken from the stored hash whenever two are compared, so equal          *)
(* passwords have equal hashes.  The variable service may fail at any call *)
(* (Failures); GetVariable2 of the UEFI library then leaves a size of 0.   *)
(***************************************************************************)
CONSTANTS
  Passwords,   (* strings of 6 to 128 valid characters                     *)
  Failures     (* may a variable access or the hash service fail?          *)

ASSUME PasswordAssumption ==
  /\ Passwords \cap {"absent", "deleted", "otherVersion", ""} = {}
  /\ Failures \in BOOLEAN

VARIABLES
  password,          \* the variable: absent, the delete marker, or a hash
  attributesMatch,   \* it has PASSWORD_STORE_ADMIN_VARIABLE_ATTRS
  readFailed         \* (properties only) the last access could not read it

passwordVars == <<password, attributesMatch, readFailed>>

Stored == {"absent", "deleted", "otherVersion"} \cup Passwords

(***************************************************************************)
(* What a dialog may return: no string, one that is too short or has an    *)
(* invalid character, one that fits, or one that exceeds 128 characters    *)
(* and begins with word.                                                   *)
(***************************************************************************)
Inputs ==
  [kind : {"null", "short", "invalidChar"}, word : {""}]
    \cup [kind : {"fits", "long"}, word : Passwords]

PasswordPolicyIsPwStringValid(input) == input.kind = "fits"

PasswordPolicySafeCopyPassword(input) ==
  IF input.kind = "long" THEN [input EXCEPT !.kind = "fits"] ELSE input

(***************************************************************************)
(* The possible results of PasswordPolicyGeneratePasswordHash; the random  *)
(* numbers or the key derivation may fail, for the delete marker neither   *)
(* is needed.                                                              *)
(***************************************************************************)
PasswordPolicyGeneratePasswordHash(input) ==
  IF input.kind = "null" THEN {"deleted"}
  ELSE IF ~PasswordPolicyIsPwStringValid(input) THEN {"failed"}
  ELSE {input.word} \cup (IF Failures THEN {"failed"} ELSE {})

PasswordPolicyValidatePasswordHash(hash) == hash \in Passwords \cup {"deleted"}

-----------------------------------------------------------------------------
(***************************************************************************)
(* PasswordStoreSetPassword.  The variable service refuses to write a      *)
(* variable that exists with other attributes.                             *)
(***************************************************************************)
PasswordStoreSetPassword(hash, ok) ==
  /\ ok => PasswordPolicyValidatePasswordHash(hash) /\ attributesMatch
  /\ ok \/ Failures \/ ~PasswordPolicyValidatePasswordHash(hash) \/ ~attributesMatch
  /\ password' = IF ok THEN hash ELSE password
  /\ UNCHANGED attributesMatch

ReadPassword(ok) == (ok \/ Failures) /\ readFailed' = ~ok

(***************************************************************************)
(* A variable that is missing is created with the delete marker.  One that *)
(* cannot be read comes back with size 0 and is overwritten as well.       *)
(***************************************************************************)
PasswordStoreIsPasswordSetErases(set) ==  \* mutant: the delete marker of any size counts as a missing variable
  \E readable \in BOOLEAN :
    /\ ReadPassword(readable)
    /\ IF ~readable \/ password \in {"absent", "deleted", "otherVersion"} THEN
         ~set /\ \E ok \in BOOLEAN : PasswordStoreSetPassword("deleted", ok)
       ELSE
         set = (password # "deleted") /\ UNCHANGED <<password, attributesMatch>>

PasswordStoreIsPasswordSet(set) ==
  \E readable \in BOOLEAN :
    /\ ReadPassword(readable)
    /\ IF ~readable \/ password = "absent" THEN
         ~set /\ \E ok \in BOOLEAN : PasswordStoreSetPassword("deleted", ok)
       ELSE
         set = (password # "deleted") /\ UNCHANGED <<password, attributesMatch>>

(***************************************************************************)
(* The comparison fails for a hash of another version, and when the hash   *)
(* of the input cannot be computed or the variable not be read again.      *)
(***************************************************************************)
Matches(input) == password \in PasswordPolicyGeneratePasswordHash(PasswordPolicySafeCopyPassword(input))

PasswordStoreAuthenticatePassword(input, accepted) ==
  \/ PasswordStoreIsPasswordSet(FALSE) /\ accepted
  \/ /\ PasswordStoreIsPasswordSet(TRUE)
     /\ accepted => input.kind # "null" /\ Matches(input)
     /\ ~accepted => Failures \/ input.kind = "null" \/ ~Matches(input)

(***************************************************************************)
(* PasswordStoreInitializeLib, once in a boot.  A variable with other      *)
(* attributes, and one that cannot be read, are to be replaced.            *)
(***************************************************************************)
PasswordStoreInitializeLib ==
  \E readable \in BOOLEAN :
    /\ ReadPassword(readable)
    /\ IF ~readable \/ password = "absent" \/ ~attributesMatch
       THEN \E ok \in BOOLEAN : PasswordStoreSetPassword("deleted", ok)
       ELSE UNCHANGED <<password, attributesMatch>>
=============================================================================
