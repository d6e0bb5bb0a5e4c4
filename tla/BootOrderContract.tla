-------------------------- MODULE BootOrderContract --------------------------
(***************************************************************************)
(* What the boot menu and the ReadyToBoot handler may do to the boot       *)
(* variables, each change an atomic step: the contract that BootMenuOrder  *)
(* implements when no variable service fails and no listed option is       *)
(* hidden.                                                                 *)
(***************************************************************************)
EXTENDS Naturals, Sequences

CONSTANTS Numbers, NoOption, Defaults, MaxShown

VARIABLES
  order,    \* BootOrder
  flags,    \* Boot####: absent, inactive or active
  next,     \* BootNext
  locked    \* the BootOrderLock setting
contractVars == <<order, flags, next, locked>>

InOrder(n) == \E i \in DOMAIN order : order[i] = n

Init ==
  /\ flags \in [Numbers -> {"absent", "inactive", "active"}]
  /\ \A i \in DOMAIN order : order[i] \in Numbers /\ flags[order[i]] # "absent"
  /\ \A i, j \in DOMAIN order : order[i] = order[j] => i = j
  /\ next = NoOption
  /\ locked \in BOOLEAN

(***************************************************************************)
(* The new order is a permutation of the old one that leaves every option  *)
(* beyond the list on screen in its place.                                 *)
(***************************************************************************)
Reorder ==
  /\ ~locked
  /\ \E p \in [DOMAIN order -> DOMAIN order] :
       /\ \A i, j \in DOMAIN order : p[i] = p[j] => i = j
       /\ \A i \in DOMAIN order : i > MaxShown => p[i] = i
       /\ order' = [i \in DOMAIN order |-> order[p[i]]]
  /\ UNCHANGED <<flags, next, locked>>

(***************************************************************************)
(* An option is deleted in two steps, off the list first; the options of   *)
(* the platform's default list and those beyond the list on screen stay.   *)
(***************************************************************************)
Withdraw ==
  /\ ~locked
  /\ \E i \in DOMAIN order :
       /\ i <= MaxShown
       /\ order[i] \notin Defaults
       /\ order' = SubSeq(order, 1, i - 1) \o SubSeq(order, i + 1, Len(order))
  /\ UNCHANGED <<flags, next, locked>>

Erase ==
  /\ ~locked
  /\ \E n \in Numbers \ Defaults :
       ~InOrder(n) /\ flags[n] # "absent" /\ flags' = [flags EXCEPT ![n] = "absent"]
  /\ UNCHANGED <<order, next, locked>>

SetActive ==
  /\ ~locked
  /\ \E n \in Numbers, f \in {"inactive", "active"} :
       InOrder(n) /\ flags[n] # "absent" /\ flags' = [flags EXCEPT ![n] = f]
  /\ UNCHANGED <<order, next, locked>>

SetNext ==
  /\ ~locked
  /\ \E n \in Numbers : InOrder(n) /\ next' = n
  /\ UNCHANGED <<order, flags, locked>>

ClearNext == next' = NoOption /\ UNCHANGED <<order, flags, locked>>
SetLock   == locked' = ~locked /\ UNCHANGED <<order, flags, next>>

Next == Reorder \/ Withdraw \/ Erase \/ SetActive \/ SetNext \/ ClearNext \/ SetLock
Spec == Init /\ [][Next]_contractVars
=============================================================================
