--------------------------- MODULE SettingsContract ---------------------------
(***************************************************************************)
(* What the boot manager's settings promise their owner: each keeps its    *)
(* value until it is set.  The exceptions are listed: a new firmware adds  *)
(* settings to an older variable, a damaged or unreadable variable is      *)
(* replaced by the defaults, and a conversion that is cut short loses the  *)
(* values it was moving.                                                   *)
(***************************************************************************)
EXTENDS Naturals

CONSTANTS Pcd, Settings

VARIABLES
  state,   \* the variable's format, "absent", or "converting"
  values,
  trouble  \* accesses that have failed since the machine was started

vars == <<state, values, trouble>>

Older == {"old", "v1", "v2"}
Sound == Older \cup {"v0", "v3"}

(***************************************************************************)
(* The settings a format already had.                                      *)
(***************************************************************************)
Known ==
  CASE state = "old" -> {"IPv6", "AltBoot"}
    [] state = "v1"  -> {"IPv6", "AltBoot", "BootOrderLock"}
    [] state = "v2"  -> Settings \ {"StartNetwork"}
    [] OTHER         -> Settings

Fresh == [s \in Settings |-> IF s = "BootOrderLock" THEN FALSE ELSE Pcd[s]]

Renew ==
  /\ state \in Older
  /\ values' = [s \in Settings |-> IF s \in Known THEN values[s] ELSE Fresh[s]]
  /\ state' \in {"converting", "v3"}
  /\ state' = "converting" => state = "old"

Settle == state = "converting" /\ state' = "v3" /\ UNCHANGED values

(***************************************************************************)
(* A sound variable's values are given up only in a boot in which some     *)
(* access has failed.                                                      *)
(***************************************************************************)
Lose ==
  /\ state \in Sound => trouble > 0
  /\ state' \in {"absent", "v0"}
  /\ values' = Pcd

Set(s, v) == values' = [values EXCEPT ![s] = v] /\ UNCHANGED state

Init == values \in [Settings -> BOOLEAN] /\ (state = "absent" => values = Pcd)

Next ==
  \/ Renew \/ Settle \/ Lose
  \/ UNCHANGED <<state, values>>
  \/ \E s \in Settings, v \in BOOLEAN : Set(s, v)

Spec == Init /\ [][Next]_vars
=============================================================================
