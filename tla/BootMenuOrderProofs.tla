------------------------- MODULE BootMenuOrderProofs -------------------------
(***************************************************************************)
(* Theorems about BootMenuOrder, for every set of options and every length *)
(* of the list on screen.                                                  *)
(***************************************************************************)
EXTENDS BootMenuOrder, SequenceTheorems, FiniteSetTheorems, TLAPS

-----------------------------------------------------------------------------
(***************************************************************************)
(* Deleting the entry at position i of a sequence: the entries before i    *)
(* stay, those after it move up by one.                                    *)
(***************************************************************************)
LEMMA WithoutProperties ==
  ASSUME NEW S, NEW s \in Seq(S), NEW i \in 1..Len(s)
  PROVE  /\ Without(s, i) \in Seq(S)
         /\ Len(Without(s, i)) = Len(s) - 1
         /\ \A j \in 1..(Len(s) - 1) :
              Without(s, i)[j] = IF j < i THEN s[j] ELSE s[j + 1]
<1> DEFINE head == SubSeq(s, 1, i - 1)
           tail == SubSeq(s, i + 1, Len(s))
<1>1. /\ head \in Seq(S) /\ Len(head) = i - 1
      /\ \A j \in 1..(i - 1) : head[j] = s[j]
  BY SubSeqProperties
<1>2. /\ tail \in Seq(S) /\ Len(tail) = Len(s) - i
      /\ \A j \in 1..(Len(s) - i) : tail[j] = s[i + j]
  BY SubSeqProperties
<1>3. Len(s) \in Nat /\ Without(s, i) = head \o tail
  BY DEF Without
<1>4. /\ head \o tail \in Seq(S)
      /\ Len(head \o tail) = Len(head) + Len(tail)
      /\ \A j \in 1..(Len(head) + Len(tail)) :
           (head \o tail)[j] = IF j <= Len(head) THEN head[j] ELSE tail[j - Len(head)]
  BY <1>1, <1>2, ConcatProperties
<1> HIDE DEF head, tail
<1>5. Len(head) + Len(tail) = Len(s) - 1
  BY <1>1, <1>2, <1>3
<1>6. ASSUME NEW j \in 1..(Len(s) - 1)
      PROVE  (head \o tail)[j] = IF j < i THEN s[j] ELSE s[j + 1]
  <2>1. CASE j < i
    BY <1>1, <1>3, <1>4, <1>5, <2>1
  <2>2. CASE ~(j < i)
    <3>1. j - (i - 1) \in 1..(Len(s) - i) /\ i + (j - (i - 1)) = j + 1
      BY <1>3, <2>2
    <3>2. (head \o tail)[j] = tail[j - (i - 1)]
      BY <1>1, <1>3, <1>4, <1>5, <2>2
    <3>3. QED
      BY <1>2, <2>2, <3>1, <3>2
  <2>3. QED
    BY <2>1, <2>2
<1>7. QED
  BY <1>3, <1>4, <1>5, <1>6

LEMMA ServiceOutcomesBoolean ==
  /\ ServiceOutcomes \subseteq BOOLEAN
  /\ \A name : WriteOutcomes(name) \subseteq BOOLEAN
BY DEF ServiceOutcomes, WriteOutcomes

(***************************************************************************)
(* What the browser submits is again a list of slots.                      *)
(***************************************************************************)
LEMMA SubmissionsType ==
  ASSUME orderConfig \in [Slots -> Slot]
  PROVE  Submissions \subseteq [Slots -> Slot]
<1>1. EmptySlot \in Slot
  BY DEF EmptySlot, Slot
<1>2. ASSUME NEW cfg \in Rearranged PROVE cfg \in [Slots -> Slot]
  <2>1. PICK q \in Arrangements :
          cfg = [i \in Slots |-> IF q[i] = 0 THEN EmptySlot ELSE orderConfig[q[i]]]
    BY <1>2 DEF Rearranged
  <2>2. q \in [Slots -> Shown \cup {0}]
    BY <2>1 DEF Arrangements
  <2>3. \A i \in Slots : q[i] # 0 => q[i] \in Slots
    BY <2>2 DEF Shown
  <2>4. QED
    BY <1>1, <2>1, <2>3
<1>3. ASSUME NEW cfg \in [Slots -> Slot]
      PROVE  Toggled(cfg) \cup Removed(cfg) \cup BootRequested(cfg) \subseteq [Slots -> Slot]
  <2>1. ASSUME NEW c \in Toggled(cfg) PROVE c \in [Slots -> Slot]
    <3>1. PICK i \in Slots : c = [cfg EXCEPT ![i].checked = ~@]
      BY <2>1 DEF Toggled
    <3>2. [cfg[i] EXCEPT !.checked = ~@] \in Slot
      BY <1>3 DEF Slot
    <3>3. c = [cfg EXCEPT ![i] = [cfg[i] EXCEPT !.checked = ~@]]
      BY <3>1, <1>3
    <3>4. QED
      BY <3>2, <3>3, <1>3
  <2>2. ASSUME NEW c \in Removed(cfg) PROVE c \in [Slots -> Slot]
    BY <1>1, <2>2 DEF Removed
  <2>3. ASSUME NEW c \in BootRequested(cfg) PROVE c \in [Slots -> Slot]
    <3>1. PICK i \in Slots : c = [cfg EXCEPT ![i] = [cfg[i] EXCEPT !.boot = TRUE]]
      BY <2>3 DEF BootRequested
    <3>2. cfg[i] \in Slot /\ [cfg[i] EXCEPT !.boot = TRUE] \in Slot
      BY DEF Slot
    <3>3. QED
      BY <3>1, <3>2
  <2>4. QED
    BY <2>1, <2>2, <2>3
<1>4. ASSUME NEW cfg \in Submissions PROVE cfg \in [Slots -> Slot]
  BY <1>2, <1>3, <1>4 DEF Submissions
<1>5. QED
  BY <1>4

-----------------------------------------------------------------------------
(***************************************************************************)
(* Type correctness.  The list of options is indexed by idx in the dialogs *)
(* and in the deletion steps, so idx has to stay inside it there.          *)
(***************************************************************************)
IndexedStates == {"bootDialog", "deleteDialog", "unlist", "erase"}

TypeInv ==
  /\ TypeOK
  /\ pc \in IndexedStates => idx <= OptionLimit

LEMMA OptionLimitBounds ==
  ASSUME TypeOK
  PROVE  /\ OptionLimit \in Nat
         /\ OptionLimit <= Len(menu)
         /\ OptionLimit <= MaxShown
         /\ Len(menu) \in Nat
BY ConstantsAssumption DEF OptionLimit, TypeOK

LEMMA TypeInvInit == Init => TypeInv
<1> SUFFICES ASSUME Init PROVE TypeInv
  OBVIOUS
<1>1. bootOrder \in Seq(Numbers)
  BY DEF Init, StartOrders
<1>2. orderConfig \in [Slots -> Slot]
  BY DEF Init, Volatile, EmptyList, EmptySlot, Slot
<1>3. QED
  <2>1. /\ policyLocked \in SUBSET VariableNames
        /\ consent \in SUBSET Numbers
        /\ menu \in Seq(LoadOption)
        /\ newOrder \in Seq(Numbers)
    BY EmptySeq DEF Init, Volatile
  <2>2. /\ pc \in PcStates
        /\ pc \notin IndexedStates
        /\ idx \in Nat \ {0}
        /\ asked \in Numbers \cup {NoOption}
    BY DEF Init, Volatile, IndexedStates, PcStates
  <2>3. /\ allowSet \in BOOLEAN /\ msBootNext \in BOOLEAN /\ preReadyDone \in BOOLEAN
        /\ leftOver \in BOOLEAN
    BY DEF Init, Volatile
  <2>4. QED
    BY <1>1, <1>2, <2>1, <2>2, <2>3 DEF Init, TypeInv, TypeOK

(***************************************************************************)
(* The steps of the rebuild.                                               *)
(***************************************************************************)
LEMMA TypeInvRebuild ==
  ASSUME TypeInv, Rebuild \/ FormOpen
  PROVE  TypeInv'
<1> USE DEF nvVars, platVars, routeVars, dialogVars
<1>1. EmptyList \in [Slots -> Slot] /\ <<>> \in Seq(LoadOption)
  BY DEF EmptyList, EmptySlot, Slot
<1>2. CASE FormOpen
  BY <1>1, <1>2 DEF FormOpen, StartRebuild, TypeInv, TypeOK, PcStates, IndexedStates
<1>3. CASE LoadPresent
  <2>1. bootOrder[idx] \in Numbers
    BY <1>3, ElementOfSeq DEF LoadPresent, TypeInv, TypeOK
  <2>2. menu' \in Seq(LoadOption)
    BY <1>3, <2>1, AppendProperties DEF LoadPresent, TypeInv, TypeOK, LoadOption
  <2>3. QED
    BY <1>3, <2>2 DEF LoadPresent, TypeInv, TypeOK, IndexedStates
<1>4. CASE PruneDangling
  <2>1. bootOrder' \in Seq(Numbers) /\ idx' \in Nat \ {0}
    BY <1>4, WithoutProperties DEF PruneDangling, TypeInv, TypeOK
  <2>2. QED
    BY <1>4, <2>1 DEF PruneDangling, TypeInv, TypeOK, IndexedStates
<1>5. CASE FillList
  <2>1. orderConfig' \in [Slots -> Slot]
    <3>1. ASSUME NEW i \in Slots, i <= Len(menu), menu[i].num \notin Hidden
          PROVE  [num |-> menu[i].num, checked |-> menu[i].active, boot |-> FALSE] \in Slot
      <4>1. i \in 1..Len(menu)
        BY <3>1, ConstantsAssumption DEF Slots, TypeInv, TypeOK
      <4>2. menu[i] \in LoadOption
        BY <4>1, ElementOfSeq DEF TypeInv, TypeOK
      <4>3. menu[i].num \in Numbers /\ menu[i].active \in BOOLEAN
        BY <4>2 DEF LoadOption
      <4>4. QED
        BY <4>3 DEF Slot
    <3>2. EmptySlot \in Slot
      BY DEF EmptySlot, Slot
    <3>3. QED
      BY <1>5, <3>1, <3>2 DEF FillList, ListFor
  <2>2. <<>> \in Seq(Numbers) /\ NoOption \in Numbers \cup {NoOption}
    OBVIOUS
  <2>3. leftOver' \in BOOLEAN /\ allowSet' \in BOOLEAN
    BY <1>5 DEF FillList
  <2>4. /\ pc' \in PcStates /\ pc' \notin IndexedStates /\ idx' \in Nat \ {0}
        /\ consent' \in SUBSET Numbers
    BY <1>5 DEF FillList, PcStates, IndexedStates
  <2>5. QED
    BY <1>5, <2>1, <2>2, <2>3, <2>4 DEF FillList, TypeInv, TypeOK
<1>6. QED
  BY <1>2, <1>3, <1>4, <1>5 DEF Rebuild

(***************************************************************************)
(* The steps of the scan, and the boot dialog's answers.                   *)
(***************************************************************************)
LEMMA MenuEntry ==
  ASSUME TypeInv, NEW i \in 1..OptionLimit
  PROVE  /\ i \in Slots
         /\ i \in 1..Len(menu)
         /\ menu[i] \in LoadOption
         /\ menu[i].num \in Numbers
         /\ orderConfig[i] \in Slot
<1>1. i \in Slots /\ i \in 1..Len(menu)
  BY OptionLimitBounds, ConstantsAssumption DEF Slots, TypeInv
<1>2. menu[i] \in LoadOption
  BY <1>1, ElementOfSeq DEF TypeInv, TypeOK
<1>3. QED
  BY <1>1, <1>2 DEF TypeInv, TypeOK, LoadOption

LEMMA TypeInvScan ==
  ASSUME TypeInv, RouteConfig \/ RouteConfigGivesUp \/ Scan \/ BootConfirmed \/ BootDeclined
  PROVE  TypeInv'
<1> USE DEF nvVars, platVars, routeVars, dialogVars
<1>0. OptionLimit \in Nat /\ Len(menu) \in Nat /\ idx \in Nat \ {0}
  BY OptionLimitBounds DEF TypeInv, TypeOK
<1>1. CASE RouteConfig
  <2>1. orderConfig' \in [Slots -> Slot]
    BY <1>1, SubmissionsType DEF RouteConfig, TypeInv, TypeOK
  <2>2. <<>> \in Seq(Numbers)
    OBVIOUS
  <2>3. QED
    BY <1>1, <2>1, <2>2 DEF RouteConfig, TypeInv, TypeOK, PcStates, ScanStates, IndexedStates
<1>1a. CASE RouteConfigGivesUp
  <2>1. orderConfig' \in [Slots -> Slot]
    BY <1>1a, SubmissionsType DEF RouteConfigGivesUp, TypeInv, TypeOK
  <2>2. QED
    BY <1>1a, <2>1 DEF RouteConfigGivesUp, TypeInv, TypeOK, IndexedStates
<1>2. CASE ScanEmpty
  BY <1>0, <1>2 DEF ScanEmpty, TypeInv, TypeOK, IndexedStates
<1>3. CASE ScanBootRequest
  <2>1. menu[idx].num \in Numbers
    BY <1>0, <1>3, MenuEntry DEF ScanBootRequest
  <2>2. QED
    BY <1>3, <2>1 DEF ScanBootRequest, TypeInv, TypeOK, PcStates, ScanStates,
       IndexedStates, OptionLimit
<1>4. CASE ScanOption
  <2>1. orderConfig[idx].num \in Numbers
    BY <1>0, <1>4, MenuEntry DEF ScanOption, AtOption, Slot
  <2>2. newOrder' \in Seq(Numbers)
    BY <1>4, <2>1, AppendProperties DEF ScanOption, TypeInv, TypeOK
  <2>3. QED
    BY <1>0, <1>4, <2>2 DEF ScanOption, AtOption, TypeInv, TypeOK, IndexedStates
<1>5. CASE ScanToggled
  <2>1. orderConfig[idx].num \in Numbers
    BY <1>0, <1>5, MenuEntry DEF ScanToggled, AtOption, Slot
  <2>2. newOrder' \in Seq(Numbers)
    BY <1>5, <2>1, AppendProperties DEF ScanToggled, TypeInv, TypeOK
  <2>3. PICK k \in 1..OptionLimit :
          /\ menu' = [menu EXCEPT ![k].active = ~@]
          /\ \E ok \in WriteOutcomes(menu[k].num) :
               options' = IF ok THEN [options EXCEPT ![menu[k].num] = Flag(~menu[k].active)]
                                ELSE options
    BY <1>5 DEF ScanToggled, Differing
  <2>4. menu[k] \in LoadOption /\ k \in 1..Len(menu)
    BY MenuEntry
  <2>5. [menu[k] EXCEPT !.active = ~@] \in LoadOption
    BY <2>4 DEF LoadOption
  <2>6. menu' = [menu EXCEPT ![k] = [menu[k] EXCEPT !.active = ~@]]
    BY <2>3
  <2>7. menu' \in Seq(LoadOption)
    BY <2>4, <2>5, <2>6, ExceptSeq DEF TypeInv, TypeOK
  <2>8. options' \in [Numbers -> OptionStates]
    BY <2>3 DEF Flag, OptionStates, TypeInv, TypeOK
  <2>9. QED
    BY <1>0, <1>5, <2>2, <2>7, <2>8 DEF ScanToggled, AtOption, TypeInv, TypeOK, IndexedStates
<1>6. CASE ScanBeyondList
  <2>1. menu[idx] \in LoadOption
    BY <1>0, <1>6, ElementOfSeq DEF ScanBeyondList, TypeInv, TypeOK
  <2>2. newOrder' \in Seq(Numbers)
    BY <1>6, <2>1, AppendProperties DEF ScanBeyondList, TypeInv, TypeOK, LoadOption
  <2>3. QED
    BY <1>0, <1>6, <2>2 DEF ScanBeyondList, TypeInv, TypeOK, IndexedStates
<1>7. CASE ScanDone
  BY <1>0, <1>7 DEF ScanDone, TypeInv, TypeOK, PcStates, DropStates, IndexedStates
<1>8. CASE BootConfirmed
  <2>1. orderConfig[idx].num \in Numbers \cup {NoOption}
    BY <1>0, <1>8, MenuEntry DEF BootConfirmed, TypeInv, IndexedStates, Slot
  <2>2. bootNext' \in Numbers \cup {NoOption} /\ msBootNext' \in BOOLEAN
    BY <1>8, <2>1 DEF BootConfirmed, TypeInv, TypeOK
  <2>3. QED
    BY <1>8, <2>2 DEF BootConfirmed, TypeInv, TypeOK, PcStates, IndexedStates
<1>9. CASE BootDeclined
  <2>1. EmptyList \in [Slots -> Slot] /\ <<>> \in Seq(LoadOption)
    BY DEF EmptyList, EmptySlot, Slot
  <2>2. QED
    BY <1>9, <2>1 DEF BootDeclined, StartRebuild, TypeInv, TypeOK, PcStates, IndexedStates
<1>10. QED
  BY <1>1, <1>1a, <1>2, <1>3, <1>4, <1>5, <1>6, <1>7, <1>8, <1>9 DEF Scan

(***************************************************************************)
(* The steps of a deletion, its dialog's answers, and the final write.     *)
(***************************************************************************)
LEMMA TypeInvDrop ==
  ASSUME TypeInv, Drop \/ Commit \/ DeleteConfirmed \/ DeleteDeclined
  PROVE  TypeInv'
<1> USE DEF nvVars, platVars, routeVars, dialogVars
<1>0. OptionLimit \in Nat /\ Len(menu) \in Nat /\ idx \in Nat \ {0}
  BY OptionLimitBounds DEF TypeInv, TypeOK
<1>1. CASE DropKept
  BY <1>0, <1>1 DEF DropKept, TypeInv, TypeOK, IndexedStates
<1>2. CASE DropAsk
  BY <1>0, <1>2 DEF DropAsk, TypeInv, TypeOK, PcStates, DropStates, IndexedStates, OptionLimit
<1>3. CASE DropDone
  BY <1>3 DEF DropDone, TypeInv, TypeOK, PcStates, IndexedStates
<1>4. CASE DeleteDeclined
  BY <1>0, <1>4 DEF DeleteDeclined, TypeInv, TypeOK, PcStates, DropStates, IndexedStates
<1>5. CASE DeleteConfirmed
  <2>1. menu[idx].num \in Numbers
    BY <1>0, <1>5, MenuEntry DEF DeleteConfirmed, TypeInv, IndexedStates
  <2>2. QED
    BY <1>5, <2>1 DEF DeleteConfirmed, TypeInv, TypeOK, PcStates, DropStates,
       IndexedStates, OptionLimit
<1>6. CASE Unlist
  <2>1. bootOrder' \in Seq(Numbers)
    BY <1>6, WithoutProperties DEF Unlist, TypeInv, TypeOK
  <2>2. QED
    BY <1>6, <2>1 DEF Unlist, TypeInv, TypeOK, PcStates, DropStates, IndexedStates, OptionLimit
<1>7. CASE EraseOption
  <2>1. options' \in [Numbers -> OptionStates]
    BY <1>7 DEF EraseOption, TypeInv, TypeOK, OptionStates
  <2>2. QED
    BY <1>0, <1>7, <2>1 DEF EraseOption, TypeInv, TypeOK, PcStates, DropStates, IndexedStates
<1>8. CASE Commit
  <2>1. EmptyList \in [Slots -> Slot] /\ <<>> \in Seq(LoadOption)
    BY DEF EmptyList, EmptySlot, Slot
  <2>2. bootOrder' \in Seq(Numbers)
    BY <1>8 DEF Commit, TypeInv, TypeOK
  <2>3. QED
    BY <1>8, <2>1, <2>2 DEF Commit, StartRebuild, TypeInv, TypeOK, PcStates, IndexedStates
<1>9. QED
  BY <1>1, <1>2, <1>3, <1>4, <1>5, <1>6, <1>7, <1>8 DEF Drop

(***************************************************************************)
(* The steps of the platform around the menu.                              *)
(***************************************************************************)
LEMMA TypeInvPlatform ==
  ASSUME TypeInv, SetLockSetting \/ StartBoot \/ Lock \/ BootReturned \/ Reset
  PROVE  TypeInv'
<1> USE DEF nvVars, platVars, routeVars, dialogVars
<1>1. CASE SetLockSetting
  BY <1>1 DEF SetLockSetting, TypeInv, TypeOK, IndexedStates
<1>2. CASE StartBoot
  BY <1>2 DEF StartBoot, TypeInv, TypeOK, PcStates, LockStates, IndexedStates
<1>3. CASE LockSkipped
  BY <1>3 DEF LockSkipped, TypeInv, TypeOK, PcStates, IndexedStates
<1>4. CASE LockBootOrder
  <2>1. policyLocked' \in SUBSET VariableNames
    BY <1>4 DEF LockBootOrder, TypeInv, TypeOK, VariableNames
  <2>2. QED
    BY <1>4, <2>1 DEF LockBootOrder, TypeInv, TypeOK, PcStates, LockStates, IndexedStates
<1>5. CASE DeleteBootNext
  BY <1>5 DEF DeleteBootNext, TypeInv, TypeOK, PcStates, LockStates, IndexedStates
<1>6. CASE LockBootNext
  <2>1. policyLocked' \in SUBSET VariableNames
    BY <1>6 DEF LockBootNext, TypeInv, TypeOK, VariableNames
  <2>2. QED
    BY <1>6, <2>1 DEF LockBootNext, TypeInv, TypeOK, PcStates, LockStates, IndexedStates
<1>7. CASE LockOptions
  <2>1. {bootOrder[i] : i \in DOMAIN bootOrder} \subseteq Numbers
    BY DEF TypeInv, TypeOK
  <2>2. policyLocked' \in SUBSET VariableNames
    BY <1>7, <2>1 DEF LockOptions, TypeInv, TypeOK, VariableNames
  <2>3. QED
    BY <1>7, <2>2 DEF LockOptions, TypeInv, TypeOK, PcStates, IndexedStates
<1>8. CASE BootReturned
  BY <1>8 DEF BootReturned, TypeInv, TypeOK, PcStates, IndexedStates
<1>9. CASE Reset
  <2>1. EmptyList \in [Slots -> Slot]
    BY DEF EmptyList, EmptySlot, Slot
  <2>2. <<>> \in Seq(LoadOption) /\ <<>> \in Seq(Numbers)
    OBVIOUS
  <2>3. /\ msBootNext' \in BOOLEAN /\ preReadyDone' \in BOOLEAN /\ allowSet' \in BOOLEAN
    BY <1>9 DEF Reset
  <2>4. /\ pc' \in PcStates /\ pc' \notin IndexedStates /\ idx' \in Nat \ {0}
        /\ asked' \in Numbers \cup {NoOption}
        /\ policyLocked' \in SUBSET VariableNames
        /\ consent' \in SUBSET Numbers
    BY <1>9 DEF Reset, PcStates, IndexedStates
  <2>5. QED
    BY <1>9, <2>1, <2>2, <2>3, <2>4 DEF Reset, TypeInv, TypeOK
<1>10. QED
  BY <1>1, <1>2, <1>3, <1>4, <1>5, <1>6, <1>7, <1>8, <1>9 DEF Lock

LEMMA TypeInvStep == TypeInv /\ [Next]_vars => TypeInv'
<1> SUFFICES ASSUME TypeInv, [Next]_vars PROVE TypeInv'
  OBVIOUS
<1>1. CASE UNCHANGED vars
  BY <1>1 DEF vars, nvVars, platVars, routeVars, dialogVars, TypeInv, TypeOK, OptionLimit
<1>2. CASE Next
  BY <1>2, TypeInvRebuild, TypeInvScan, TypeInvDrop, TypeInvPlatform
     DEF Next, Code, User, Answer
<1>3. QED
  BY <1>1, <1>2

(***************************************************************************)
(* The driver never indexes its arrays out of bounds and never writes a    *)
(* variable with a value of another kind: type correctness, with or        *)
(* without failing services.                                               *)
(***************************************************************************)
THEOREM TypeCorrect == Spec => []TypeOK
<1>1. Init => TypeInv
  BY TypeInvInit
<1>2. TypeInv => TypeOK
  BY DEF TypeInv
<1>3. QED
  BY <1>1, <1>2, TypeInvStep, PTL DEF Spec

-----------------------------------------------------------------------------
(***************************************************************************)
(* The lock.  What makes it hold over several boot attempts: a policy is   *)
(* registered only while the setting is on, from then to the next reset    *)
(* the setting cannot change, and a gesture is in progress only while the  *)
(* setting is off.                                                         *)
(***************************************************************************)
EditStates    == ScanStates \cup DropStates \cup {"commit"}
LockingStates == {"dropNext", "lockNext", "lockOptions"}
ListedOptions == {n \in Numbers : Listed(n)}

LockInv ==
  /\ pc \in EditStates => ~lockSetting
  /\ pc \in LockingStates => lockSetting
  /\ policyLocked # {} => lockSetting /\ (preReadyDone \/ pc \in LockingStates)
  /\ pc \in LockingStates => "BootOrder" \in policyLocked
  /\ pc = "lockNext" => bootNext = NoOption
  /\ pc = "lockOptions" => "BootNext" \in policyLocked
  /\ pc = "booting" => preReadyDone
  /\ "BootNext" \in policyLocked => bootNext = NoOption
  /\ preReadyDone /\ lockSetting =>
       {"BootOrder", "BootNext"} \cup ListedOptions \subseteq policyLocked

(***************************************************************************)
(* The order.  The snapshot is BootOrder, entry by entry, until a deletion *)
(* starts; the slots hold entries of the part of it that is on screen,     *)
(* each at most once; and what NewBootOrder has collected so far is in the *)
(* slots or in the part beyond them that the loop has passed.              *)
(***************************************************************************)
Distinct(s)    == \A i, j \in DOMAIN s : s[i] = s[j] => i = j
SnapshotStates == ScanStates \cup {"idle"}

SnapshotInv ==
  /\ \A k \in 1..Len(menu) : menu[k].num = bootOrder[k]
  /\ pc = "rebuild" => Len(menu) = idx - 1 /\ idx <= Len(bootOrder) + 1
  /\ pc \in SnapshotStates => Len(menu) = Len(bootOrder)

SlotsInv ==
  /\ \A i \in Slots : orderConfig[i].num # NoOption =>
       \E k \in 1..OptionLimit : menu[k].num = orderConfig[i].num
  /\ \A i, j \in Slots :
       (orderConfig[i].num = orderConfig[j].num /\ orderConfig[i].num # NoOption) => i = j

CollectedInv ==
  \A j \in DOMAIN newOrder :
    \/ \E i \in 1..OptionLimit : i < idx /\ newOrder[j] = orderConfig[i].num
    \/ \E k \in 1..Len(menu) : OptionLimit < k /\ k < idx /\ newOrder[j] = menu[k].num

OrderInv ==
  /\ OrderNamesOptions
  /\ pc \in SnapshotStates \cup {"rebuild"} => SnapshotInv
  /\ pc \in SnapshotStates => SlotsInv
  /\ pc = "scan" => CollectedInv
  /\ pc \in EditStates => Distinct(newOrder)
  /\ pc \in DropStates \cup {"commit"} => \A j \in DOMAIN newOrder : Present(newOrder[j])
  /\ pc \in {"deleteDialog", "unlist", "erase"} =>
       \A j \in DOMAIN newOrder : newOrder[j] # menu[idx].num
  /\ pc = "erase" => ~Listed(menu[idx].num)

LEMMA NoFailures ==
  ASSUME ServiceFailures = FALSE
  PROVE  /\ ServiceOutcomes = {TRUE}
         /\ EditAllowed <=> ~lockSetting
         /\ \A name : name \notin policyLocked => WriteOutcomes(name) = {TRUE}
         /\ \A name : name \in policyLocked => WriteOutcomes(name) = {FALSE}
BY DEF ServiceOutcomes, EditAllowed, WriteOutcomes

LEMMA LockInvInit == Init => LockInv
BY DEF Init, Volatile, LockInv, EditStates, ScanStates, DropStates, LockingStates

(***************************************************************************)
(* The steps of the menu driver write BootNext only in a gesture, when     *)
(* nothing is locked, and add nothing to a locked BootOrder.               *)
(***************************************************************************)
LEMMA LockInvDriver ==
  ASSUME ServiceFailures = FALSE, TypeInv, LockInv,
         \/ FormOpen \/ Rebuild \/ RouteConfig \/ RouteConfigGivesUp \/ Scan \/ Drop \/ Commit
         \/ Answer
  PROVE  LockInv'
<1> USE DEF nvVars, platVars, routeVars, dialogVars, EditStates, ScanStates, DropStates,
            LockingStates
<1>1. CASE FormOpen \/ FillList \/ DropAsk
  BY <1>1 DEF FormOpen, StartRebuild, FillList, DropAsk, LockInv, ListedOptions, Listed, Contains
<1>2. CASE LoadPresent \/ DropKept \/ DropDone
  BY <1>2 DEF LoadPresent, DropKept, DropDone, LockInv, ListedOptions, Listed, Contains
<1>3. CASE PruneDangling
  <2>1. ListedOptions' \subseteq ListedOptions
    <3>1. CASE bootOrder' = bootOrder
      BY <3>1 DEF ListedOptions, Listed, Contains
    <3>2. CASE bootOrder' = Without(bootOrder, idx)
      <4>1. /\ bootOrder' \in Seq(Numbers)
            /\ Len(bootOrder') = Len(bootOrder) - 1
            /\ \A j \in 1..(Len(bootOrder) - 1) :
                 bootOrder'[j] = IF j < idx THEN bootOrder[j] ELSE bootOrder[j + 1]
        <5>1. idx \in 1..Len(bootOrder) /\ bootOrder \in Seq(Numbers)
          BY <1>3 DEF PruneDangling, TypeInv, TypeOK
        <5>2. QED
          BY <3>2, <5>1, WithoutProperties
      <4>2. DOMAIN bootOrder' = 1..(Len(bootOrder) - 1) /\ DOMAIN bootOrder = 1..Len(bootOrder)
            /\ Len(bootOrder) \in Nat
        BY <4>1 DEF TypeInv, TypeOK
      <4>3. \A j \in DOMAIN bootOrder' : \E k \in DOMAIN bootOrder : bootOrder'[j] = bootOrder[k]
        BY <4>1, <4>2
      <4>4. QED
        BY <4>3 DEF ListedOptions, Listed, Contains
    <3>3. QED
      BY <1>3, <3>1, <3>2 DEF PruneDangling
  <2>2. QED
    BY <1>3, <2>1 DEF PruneDangling, LockInv
<1>4. CASE RouteConfig
  BY <1>4, NoFailures DEF RouteConfig, LockInv, ListedOptions, Listed, Contains
<1>4a. CASE RouteConfigGivesUp
  BY <1>4a, NoFailures DEF RouteConfigGivesUp
<1>5. CASE ScanEmpty \/ ScanBootRequest \/ ScanBeyondList \/ ScanDone
  BY <1>5 DEF ScanEmpty, ScanBootRequest, ScanBeyondList, ScanDone, LockInv, ListedOptions,
     Listed, Contains
<1>6. CASE ScanOption \/ ScanToggled
  BY <1>6 DEF ScanOption, ScanToggled, AtOption, LockInv, ListedOptions, Listed, Contains
<1>7. CASE Unlist \/ EraseOption \/ Commit
  BY <1>7 DEF Unlist, EraseOption, Commit, StartRebuild, LockInv
<1>8. CASE BootConfirmed \/ BootDeclined
  BY <1>8 DEF BootConfirmed, BootDeclined, StartRebuild, LockInv
<1>9. CASE DeleteConfirmed \/ DeleteDeclined
  BY <1>9 DEF DeleteConfirmed, DeleteDeclined, LockInv
<1>10. QED
  BY <1>1, <1>2, <1>3, <1>4, <1>4a, <1>5, <1>6, <1>7, <1>8, <1>9 DEF Rebuild, Scan, Drop, Answer

LEMMA LockInvPlatform ==
  ASSUME ServiceFailures = FALSE, TypeInv, LockInv,
         SetLockSetting \/ StartBoot \/ Lock \/ BootReturned \/ Reset
  PROVE  LockInv'
<1> USE DEF nvVars, platVars, routeVars, dialogVars, EditStates, ScanStates, DropStates,
            LockingStates
<1>1. CASE SetLockSetting
  BY <1>1 DEF SetLockSetting, LockInv
<1>2. CASE StartBoot
  BY <1>2 DEF StartBoot, LockInv, ListedOptions, Listed, Contains
<1>3. CASE LockSkipped
  BY <1>3, NoFailures DEF LockSkipped, LockInv
<1>4. CASE LockBootOrder
  BY <1>4, NoFailures DEF LockBootOrder, LockInv, ListedOptions, Listed, Contains
<1>5. CASE DeleteBootNext
  <2>1. PICK ok \in WriteOutcomes("BootNext") : bootNext' = IF ok THEN NoOption ELSE bootNext
    BY <1>5 DEF DeleteBootNext
  <2>2. bootNext' = NoOption
    <3>1. CASE "BootNext" \in policyLocked
      BY <2>1, <3>1 DEF LockInv
    <3>2. CASE "BootNext" \notin policyLocked
      <4>1. ok = TRUE
        BY <2>1, <3>2, NoFailures
      <4>2. QED
        BY <2>1, <4>1
    <3>3. QED
      BY <3>1, <3>2
  <2>3. QED
    BY <1>5, <2>2 DEF DeleteBootNext, LockInv, ListedOptions, Listed, Contains
<1>6. CASE LockBootNext
  <2>1. policyLocked' = policyLocked \cup {"BootNext"}
    <3>1. PICK ok \in ServiceOutcomes :
            policyLocked' = IF ok THEN policyLocked \cup {"BootNext"} ELSE policyLocked
      BY <1>6 DEF LockBootNext
    <3>2. ok = TRUE
      BY <3>1, NoFailures
    <3>3. QED
      BY <3>1, <3>2
  <2>2. bootNext' = bootNext /\ pc' = "lockOptions" /\ ListedOptions' = ListedOptions
    BY <1>6 DEF LockBootNext, ListedOptions, Listed, Contains
  <2>3. lockSetting' = lockSetting /\ preReadyDone' = preReadyDone
    BY <1>6 DEF LockBootNext
  <2>4. QED
    BY <1>6, <2>1, <2>2, <2>3 DEF LockBootNext, LockInv
<1>7. CASE LockOptions
  <2>1. policyLocked' = policyLocked \cup {bootOrder[i] : i \in DOMAIN bootOrder}
    BY <1>7 DEF LockOptions
  <2>2. bootOrder' = bootOrder
    BY <1>7 DEF LockOptions
  <2>3. ListedOptions' \subseteq {bootOrder[i] : i \in DOMAIN bootOrder}
    BY <2>2 DEF ListedOptions, Listed, Contains
  <2>4. {"BootOrder", "BootNext"} \subseteq policyLocked
    BY <1>7 DEF LockOptions, LockInv
  <2>5. {"BootOrder", "BootNext"} \cup ListedOptions' \subseteq policyLocked'
    BY <2>1, <2>3, <2>4
  <2>6. /\ pc' = "booting" /\ preReadyDone' = TRUE /\ bootNext' = bootNext
        /\ lockSetting' = lockSetting
    BY <1>7 DEF LockOptions
  <2>7. lockSetting /\ ("BootNext" \in policyLocked => bootNext = NoOption)
    BY <1>7 DEF LockOptions, LockInv
  <2>8. QED
    BY <2>4, <2>5, <2>6, <2>7 DEF LockInv
<1>8. CASE BootReturned
  BY <1>8 DEF BootReturned, LockInv, ListedOptions, Listed, Contains
<1>9. CASE Reset
  BY <1>9 DEF Reset, LockInv
<1>10. QED
  BY <1>1, <1>2, <1>3, <1>4, <1>5, <1>6, <1>7, <1>8, <1>9 DEF Lock

LEMMA LockInvStep ==
  ASSUME ServiceFailures = FALSE
  PROVE  TypeInv /\ LockInv /\ [Next]_vars => LockInv'
<1> SUFFICES ASSUME TypeInv, LockInv, [Next]_vars PROVE LockInv'
  OBVIOUS
<1>1. CASE UNCHANGED vars
  BY <1>1 DEF vars, nvVars, platVars, routeVars, dialogVars, LockInv, ListedOptions, Listed,
     Contains
<1>2. CASE Next
  BY <1>2, LockInvDriver, LockInvPlatform DEF Next, Code, User, Answer
<1>3. QED
  BY <1>1, <1>2

LEMMA LockInvAlways ==
  ASSUME ServiceFailures = FALSE
  PROVE  Spec => [](TypeInv /\ LockInv)
<1>1. Init => TypeInv /\ LockInv
  BY TypeInvInit, LockInvInit
<1>2. TypeInv /\ LockInv /\ [Next]_vars => TypeInv' /\ LockInv'
  BY TypeInvStep, LockInvStep
<1>3. QED
  BY <1>1, <1>2, PTL DEF Spec

(***************************************************************************)
(* When no service fails, BootNext is never locked while it names an       *)
(* option: BDS, which consumes it, is never stopped from doing so.         *)
(***************************************************************************)
THEOREM BootNextLockedEmpty ==
  ASSUME ServiceFailures = FALSE
  PROVE  Spec => []NoLockedBootNext
<1>1. TypeInv /\ LockInv => NoLockedBootNext
  BY DEF LockInv, NoLockedBootNext
<1>2. QED
  BY <1>1, LockInvAlways, PTL

(***************************************************************************)
(* With the BootOrderLock setting on and no service failing, every option  *)
(* is started with BootOrder, an empty BootNext and every listed option    *)
(* locked, however often options were tried since the last reset.          *)
(***************************************************************************)
THEOREM BootVariablesLocked ==
  ASSUME ServiceFailures = FALSE
  PROVE  Spec => []LockedTogether
<1>1. TypeInv /\ LockInv => LockedTogether
  BY DEF LockInv, LockedTogether, ListedOptions
<1>2. QED
  BY <1>1, LockInvAlways, PTL

-----------------------------------------------------------------------------
(***************************************************************************)
(* What the browser submits holds options of the list it was given, each   *)
(* at most once.                                                           *)
(***************************************************************************)
LEMMA SubmissionsSlots ==
  ASSUME NoOption \notin Numbers, orderConfig \in [Slots -> Slot], SlotsInv,
         NEW cfg \in Submissions
  PROVE  /\ \A i \in Slots : cfg[i].num # NoOption =>
              \E j \in Slots : orderConfig[j].num = cfg[i].num
         /\ \A i, j \in Slots :
              (cfg[i].num = cfg[j].num /\ cfg[i].num # NoOption) => i = j
<1> DEFINE Fits(c) ==
      /\ c \in [Slots -> Slot]
      /\ \A i \in Slots : c[i].num # NoOption => \E j \in Slots : orderConfig[j].num = c[i].num
      /\ \A i, j \in Slots : (c[i].num = c[j].num /\ c[i].num # NoOption) => i = j
<1>0. EmptySlot \in Slot /\ EmptySlot.num = NoOption
  BY DEF EmptySlot, Slot
<1>1. ASSUME NEW c \in Rearranged PROVE Fits(c)
  <2>1. PICK q \in Arrangements :
          c = [i \in Slots |-> IF q[i] = 0 THEN EmptySlot ELSE orderConfig[q[i]]]
    BY <1>1 DEF Rearranged
  <2>2. /\ q \in [Slots -> Shown \cup {0}]
        /\ \A i, j \in Slots : (q[i] = q[j] /\ q[i] # 0) => i = j
    BY <2>1 DEF Arrangements
  <2>3. \A i \in Slots : q[i] # 0 => q[i] \in Slots
    BY <2>2 DEF Shown
  <2>4. \A i \in Slots : c[i].num # NoOption => q[i] \in Slots /\ c[i] = orderConfig[q[i]] /\ q[i] # 0
    BY <1>0, <2>1, <2>3
  <2>5. c \in [Slots -> Slot]
    BY <1>0, <2>1, <2>3
  <2>6. ASSUME NEW i \in Slots, NEW j \in Slots, c[i].num = c[j].num, c[i].num # NoOption
        PROVE  i = j
    BY <2>2, <2>4, <2>6 DEF SlotsInv
  <2>7. QED
    BY <2>4, <2>5, <2>6
<1>2. ASSUME NEW b, Fits(b), NEW c \in [Slots -> Slot],
             \A i \in Slots : c[i].num \in {b[i].num, NoOption}
      PROVE  Fits(c)
  <2>1. \A i \in Slots : c[i].num # NoOption => c[i].num = b[i].num
    BY <1>2
  <2>2. ASSUME NEW i \in Slots, NEW j \in Slots, c[i].num = c[j].num, c[i].num # NoOption
        PROVE  i = j
    BY <1>2, <2>1, <2>2
  <2>3. QED
    BY <1>2, <2>1, <2>2
<1> HIDE DEF Fits
<1>3. ASSUME NEW b, Fits(b), NEW c \in Toggled(b) \cup Removed(b) \cup BootRequested(b)
      PROVE  Fits(c)
  <2>0. b \in [Slots -> Slot]
    BY <1>3 DEF Fits
  <2>1. CASE c \in Toggled(b)
    <3>1. PICK i \in Slots : c = [b EXCEPT ![i].checked = ~@]
      BY <2>1 DEF Toggled
    <3>2. [b[i] EXCEPT !.checked = ~@] \in Slot /\ [b[i] EXCEPT !.checked = ~@].num = b[i].num
      BY <2>0 DEF Slot
    <3>3. c = [b EXCEPT ![i] = [b[i] EXCEPT !.checked = ~@]]
      BY <2>0, <3>1
    <3>4. c \in [Slots -> Slot] /\ \A k \in Slots : c[k].num = b[k].num
      BY <2>0, <3>2, <3>3
    <3>5. QED
      BY <1>2, <1>3, <3>4
  <2>2. CASE c \in Removed(b)
    <3>1. PICK i \in Slots : c = [b EXCEPT ![i] = EmptySlot]
      BY <2>2 DEF Removed
    <3>2. c \in [Slots -> Slot] /\ \A k \in Slots : c[k].num \in {b[k].num, NoOption}
      BY <1>0, <2>0, <3>1
    <3>3. QED
      BY <1>2, <1>3, <3>2
  <2>3. CASE c \in BootRequested(b)
    <3>1. PICK i \in Slots : c = [b EXCEPT ![i].boot = TRUE]
      BY <2>3 DEF BootRequested
    <3>2. [b[i] EXCEPT !.boot = TRUE] \in Slot /\ [b[i] EXCEPT !.boot = TRUE].num = b[i].num
      BY <2>0 DEF Slot
    <3>3. c = [b EXCEPT ![i] = [b[i] EXCEPT !.boot = TRUE]]
      BY <2>0, <3>1
    <3>4. c \in [Slots -> Slot] /\ \A k \in Slots : c[k].num = b[k].num
      BY <2>0, <3>2, <3>3
    <3>5. QED
      BY <1>2, <1>3, <3>4
  <2>4. QED
    BY <1>3, <2>1, <2>2, <2>3
<1>4. Fits(cfg)
  BY <1>1, <1>3 DEF Submissions
<1>5. QED
  BY <1>4 DEF Fits

(***************************************************************************)
(* Facts the steps use: the snapshot has no duplicates while it is         *)
(* BootOrder, and steps that leave the order's variables alone keep it.    *)
(***************************************************************************)
LEMMA SnapshotDistinct ==
  ASSUME TypeInv, OrderInv, pc \in SnapshotStates
  PROVE  /\ Len(menu) = Len(bootOrder) /\ Len(menu) \in Nat
         /\ \A k \in 1..Len(menu) : menu[k].num = bootOrder[k] /\ Present(menu[k].num)
         /\ \A k, l \in 1..Len(menu) : menu[k].num = menu[l].num => k = l
<1>1. Len(menu) = Len(bootOrder) /\ \A k \in 1..Len(menu) : menu[k].num = bootOrder[k]
  BY DEF OrderInv, SnapshotInv
<1>2. DOMAIN bootOrder = 1..Len(bootOrder) /\ Len(menu) \in Nat
  BY DEF TypeInv, TypeOK
<1>3. QED
  BY <1>1, <1>2 DEF OrderInv, OrderNamesOptions

LEMMA OrderInvInit == Init => OrderInv
<1> SUFFICES ASSUME Init PROVE OrderInv
  OBVIOUS
<1>1. OrderNamesOptions
  BY DEF Init, StartOrders, OrderNamesOptions
<1>2. pc = "closed"
  BY DEF Init, Volatile
<1>3. QED
  BY <1>1, <1>2 DEF OrderInv, SnapshotStates, EditStates, ScanStates, DropStates

LEMMA OrderInvRebuild ==
  ASSUME TypeInv, OrderInv, FormOpen \/ Rebuild
  PROVE  OrderInv'
<1> USE DEF nvVars, platVars, routeVars, dialogVars, SnapshotStates, EditStates, ScanStates,
            DropStates
<1>0. Len(bootOrder) \in Nat /\ DOMAIN bootOrder = 1..Len(bootOrder) /\ Len(menu) \in Nat
      /\ idx \in Nat \ {0}
  BY DEF TypeInv, TypeOK
<1>1. CASE FormOpen
  <2>1. menu' = <<>> /\ idx' = 1 /\ pc' = "rebuild" /\ bootOrder' = bootOrder /\ options' = options
    BY <1>1 DEF FormOpen, StartRebuild
  <2>2. SnapshotInv'
    BY <1>0, <2>1 DEF SnapshotInv
  <2>3. OrderNamesOptions'
    BY <2>1 DEF OrderInv, OrderNamesOptions, Present
  <2>4. QED
    BY <2>1, <2>2, <2>3 DEF OrderInv
<1>2. CASE LoadPresent
  <2>1. /\ pc = "rebuild" /\ pc' = pc /\ bootOrder' = bootOrder /\ options' = options
        /\ idx <= Len(bootOrder) /\ idx' = idx + 1
    BY <1>2 DEF LoadPresent
  <2>2. Len(menu) = idx - 1 /\ \A k \in 1..Len(menu) : menu[k].num = bootOrder[k]
    BY <2>1 DEF OrderInv, SnapshotInv
  <2> DEFINE entry == [num |-> bootOrder[idx], active |-> options[bootOrder[idx]] = "active"]
  <2>3. entry \in LoadOption /\ entry.num = bootOrder[idx] /\ menu' = Append(menu, entry)
    <3>1. bootOrder[idx] \in Numbers
      BY <1>0, <2>1 DEF TypeInv, TypeOK
    <3>2. (options[bootOrder[idx]] = "active") \in BOOLEAN
      OBVIOUS
    <3>3. entry \in LoadOption
      BY <3>1, <3>2 DEF LoadOption
    <3>4. QED
      BY <1>2, <3>3 DEF LoadPresent
  <2> HIDE DEF entry
  <2>4. /\ Len(menu') = Len(menu) + 1 /\ menu'[Len(menu) + 1] = entry
        /\ \A k \in 1..Len(menu) : menu'[k] = menu[k]
    BY <2>3, AppendProperties DEF TypeInv, TypeOK
  <2>5. SnapshotInv'
    BY <1>0, <2>1, <2>2, <2>3, <2>4 DEF SnapshotInv
  <2>6. OrderNamesOptions'
    BY <2>1 DEF OrderInv, OrderNamesOptions, Present
  <2>7. QED
    BY <2>1, <2>5, <2>6 DEF OrderInv
<1>3. CASE PruneDangling
  BY <1>0, <1>3 DEF PruneDangling, OrderInv, OrderNamesOptions
<1>4. CASE FillList
  <2>1. /\ pc = "rebuild" /\ pc' = "idle" /\ bootOrder' = bootOrder /\ options' = options
        /\ menu' = menu /\ orderConfig' = ListFor(menu) /\ idx > Len(bootOrder)
    BY <1>4 DEF FillList
  <2>2. Len(menu) = Len(bootOrder) /\ \A k \in 1..Len(menu) : menu[k].num = bootOrder[k]
    BY <1>0, <2>1 DEF OrderInv, SnapshotInv
  <2>3. SnapshotInv'
    BY <2>1, <2>2 DEF SnapshotInv
  <2>4. ASSUME NEW i \in Slots, ListFor(menu)[i].num # NoOption
        PROVE  i \in 1..OptionLimit /\ i \in 1..Len(menu) /\ ListFor(menu)[i].num = menu[i].num
    BY <1>0, <2>4, ConstantsAssumption DEF ListFor, EmptySlot, OptionLimit, Slots
  <2>5. \A k, l \in 1..Len(menu) : menu[k].num = menu[l].num => k = l
    BY <1>0, <2>2 DEF OrderInv, OrderNamesOptions
  <2>6. OptionLimit' = OptionLimit
    BY <2>1 DEF OptionLimit
  <2>7. SlotsInv'
    <3>1. \A i \in Slots : orderConfig'[i].num # NoOption =>
            \E k \in 1..OptionLimit' : menu'[k].num = orderConfig'[i].num
      BY <2>1, <2>4, <2>6
    <3>2. \A i, j \in Slots :
            (orderConfig'[i].num = orderConfig'[j].num /\ orderConfig'[i].num # NoOption) => i = j
      BY <2>1, <2>4, <2>5
    <3>3. QED
      BY <3>1, <3>2 DEF SlotsInv
  <2>8. OrderNamesOptions'
    BY <2>1 DEF OrderInv, OrderNamesOptions, Present
  <2>9. QED
    BY <2>1, <2>3, <2>7, <2>8 DEF OrderInv
<1>5. QED
  BY <1>1, <1>2, <1>3, <1>4 DEF Rebuild

(***************************************************************************)
(* Steps that leave the order, the options, the snapshot and the slots     *)
(* alone and do not enter the rebuild or an editing state.                 *)
(***************************************************************************)
LEMMA OrderInvElsewhere ==
  ASSUME OrderInv, UNCHANGED <<bootOrder, options, menu, orderConfig>>,
         pc' \notin EditStates \cup {"rebuild"}, pc' = "idle" => pc = "idle"
  PROVE  OrderInv'
<1>1. OrderNamesOptions'
  BY DEF OrderInv, OrderNamesOptions, Present
<1>2. ASSUME pc' \in SnapshotStates PROVE SnapshotInv' /\ SlotsInv'
  <2>1. pc' = "idle" /\ pc = "idle"
    BY <1>2 DEF SnapshotStates, EditStates
  <2>2. QED
    BY <2>1 DEF OrderInv, SnapshotInv, SlotsInv, SnapshotStates, OptionLimit
<1>3. QED
  BY <1>1, <1>2 DEF OrderInv, EditStates, ScanStates, DropStates

LEMMA OrderInvPlatform ==
  ASSUME OrderInv, SetLockSetting \/ StartBoot \/ Lock \/ BootReturned \/ BootConfirmed
  PROVE  OrderInv'
<1> USE DEF nvVars, platVars, routeVars, dialogVars, EditStates, ScanStates, DropStates
<1>1. UNCHANGED <<bootOrder, options, menu, orderConfig>>
  BY DEF SetLockSetting, StartBoot, Lock, LockSkipped, LockBootOrder, DeleteBootNext,
     LockBootNext, LockOptions, BootReturned, BootConfirmed
<1>2. pc' \notin EditStates \cup {"rebuild"} /\ (pc' = "idle" => pc = "idle")
  BY DEF SetLockSetting, StartBoot, Lock, LockSkipped, LockBootOrder, DeleteBootNext,
     LockBootNext, LockOptions, BootReturned, BootConfirmed
<1>3. QED
  BY <1>1, <1>2, OrderInvElsewhere

LEMMA OrderInvReset ==
  ASSUME OrderInv, Reset
  PROVE  OrderInv'
<1>1. bootOrder' = bootOrder /\ options' = options /\ pc' = "closed"
  BY DEF Reset, nvVars
<1>2. OrderNamesOptions'
  BY <1>1 DEF OrderInv, OrderNamesOptions, Present
<1>3. QED
  BY <1>1, <1>2 DEF OrderInv, SnapshotStates, EditStates, ScanStates, DropStates

(***************************************************************************)
(* The gesture: RouteConfig up to the end of the scan.                     *)
(***************************************************************************)
LEMMA OrderInvRoute ==
  ASSUME TypeInv, OrderInv, RouteConfig
  PROVE  OrderInv'
<1> USE DEF nvVars, platVars, routeVars, dialogVars
<1>1. /\ pc = "idle" /\ pc' = "scan" /\ bootOrder' = bootOrder /\ options' = options
      /\ menu' = menu /\ orderConfig' \in Submissions /\ newOrder' = <<>>
  BY DEF RouteConfig
<1>2. SnapshotInv /\ SlotsInv
  BY <1>1 DEF OrderInv, SnapshotStates
<1>3. SnapshotInv'
  BY <1>1, <1>2 DEF SnapshotInv, SnapshotStates, ScanStates
<1>4. SlotsInv'
  <2>1. /\ \A i \in Slots : orderConfig'[i].num # NoOption =>
             \E j \in Slots : orderConfig[j].num = orderConfig'[i].num
        /\ \A i, j \in Slots :
             (orderConfig'[i].num = orderConfig'[j].num /\ orderConfig'[i].num # NoOption) => i = j
    BY <1>1, <1>2, SubmissionsSlots, ConstantsAssumption DEF TypeInv, TypeOK
  <2>2. OptionLimit' = OptionLimit
    BY <1>1 DEF OptionLimit
  <2>3. ASSUME NEW i \in Slots, orderConfig'[i].num # NoOption
        PROVE  \E k \in 1..OptionLimit' : menu'[k].num = orderConfig'[i].num
    <3>1. PICK j \in Slots : orderConfig[j].num = orderConfig'[i].num
      BY <2>1, <2>3
    <3>2. PICK k \in 1..OptionLimit : menu[k].num = orderConfig[j].num
      BY <1>2, <2>3, <3>1 DEF SlotsInv
    <3>3. QED
      BY <1>1, <2>2, <3>1, <3>2
  <2>4. QED
    BY <2>1, <2>3 DEF SlotsInv
<1>5. OrderNamesOptions'
  BY <1>1 DEF OrderInv, OrderNamesOptions, Present
<1>6. DOMAIN newOrder' = {}
  BY <1>1
<1>7. CollectedInv' /\ Distinct(newOrder')
  BY <1>6 DEF CollectedInv, Distinct
<1>8. QED
  BY <1>1, <1>3, <1>4, <1>5, <1>7 DEF OrderInv, DropStates

(***************************************************************************)
(* Taking the option of one more slot, or one more option from beyond the  *)
(* slots, keeps NewBootOrder free of duplicates.                           *)
(***************************************************************************)
LEMMA CollectSlot ==
  ASSUME TypeInv, OrderInv, AtOption, idx' = idx + 1,
         newOrder' = Append(newOrder, orderConfig[idx].num),
         OptionLimit' = OptionLimit, Len(menu') = Len(menu),
         \A k \in 1..Len(menu) : menu'[k].num = menu[k].num, orderConfig' = orderConfig
  PROVE  CollectedInv' /\ Distinct(newOrder')
<1>0. /\ idx \in 1..OptionLimit /\ OptionLimit \in Nat /\ idx \in Nat /\ OptionLimit <= MaxShown
      /\ idx \in Slots /\ Len(menu) \in Nat
  BY OptionLimitBounds, MenuEntry DEF AtOption, TypeInv, TypeOK
<1>1. CollectedInv /\ Distinct(newOrder) /\ SlotsInv
  BY DEF OrderInv, AtOption, SnapshotStates, ScanStates, EditStates
<1>2. orderConfig[idx].num \in Numbers
  BY <1>0, MenuEntry DEF AtOption, Slot
<1>3. /\ Len(newOrder) \in Nat /\ DOMAIN newOrder = 1..Len(newOrder)
      /\ DOMAIN newOrder' = 1..(Len(newOrder) + 1)
      /\ newOrder'[Len(newOrder) + 1] = orderConfig[idx].num
      /\ \A j \in 1..Len(newOrder) : newOrder'[j] = newOrder[j]
  BY <1>2, AppendProperties DEF TypeInv, TypeOK
<1>4. ASSUME NEW j \in 1..Len(newOrder)
      PROVE  \E i \in 1..OptionLimit : i < idx /\ newOrder[j] = orderConfig[i].num
  BY <1>0, <1>1, <1>3 DEF CollectedInv
<1>5. ASSUME NEW j \in 1..Len(newOrder)
      PROVE  newOrder[j] # orderConfig[idx].num
  <2>1. PICK i \in 1..OptionLimit : i < idx /\ newOrder[j] = orderConfig[i].num
    BY <1>4
  <2>2. i \in Slots
    BY <1>0, MenuEntry
  <2>3. QED
    BY <1>0, <1>1, <2>1, <2>2 DEF SlotsInv, AtOption
<1>6. ASSUME NEW j \in DOMAIN newOrder'
      PROVE  \E i \in 1..OptionLimit' : i < idx' /\ newOrder'[j] = orderConfig'[i].num
  <2>1. CASE j \in 1..Len(newOrder)
    <3>1. PICK i \in 1..OptionLimit : i < idx /\ newOrder[j] = orderConfig[i].num
      BY <1>4, <2>1
    <3>2. i < idx'
      BY <1>0, <3>1
    <3>3. QED
      BY <1>3, <2>1, <3>1, <3>2
  <2>2. CASE j = Len(newOrder) + 1
    BY <1>0, <1>3, <2>2
  <2>3. QED
    BY <1>3, <2>1, <2>2
<1>7. CollectedInv'
  BY <1>6 DEF CollectedInv
<1>8. Distinct(newOrder')
  BY <1>1, <1>3, <1>5 DEF Distinct
<1>9. QED
  BY <1>7, <1>8

LEMMA CollectBeyond ==
  ASSUME TypeInv, OrderInv, ScanBeyondList
  PROVE  CollectedInv' /\ Distinct(newOrder')
<1>0. /\ OptionLimit \in Nat /\ idx \in Nat /\ idx \in 1..Len(menu) /\ OptionLimit < idx
      /\ Len(menu) \in Nat /\ OptionLimit <= Len(menu) /\ pc = "scan"
      /\ idx' = idx + 1 /\ menu' = menu /\ orderConfig' = orderConfig
  BY OptionLimitBounds DEF ScanBeyondList, TypeInv, TypeOK
<1>1. CollectedInv /\ Distinct(newOrder) /\ SlotsInv
  BY <1>0 DEF OrderInv, SnapshotStates, ScanStates, EditStates
<1>2. menu[idx].num \in Numbers
  <2>1. menu[idx] \in LoadOption
    BY <1>0, ElementOfSeq DEF TypeInv, TypeOK
  <2>2. QED
    BY <2>1 DEF LoadOption
<1>3. /\ Len(newOrder) \in Nat /\ DOMAIN newOrder = 1..Len(newOrder)
      /\ newOrder \in Seq(Numbers)
      /\ DOMAIN newOrder' = 1..(Len(newOrder) + 1)
      /\ newOrder'[Len(newOrder) + 1] = menu[idx].num
      /\ \A j \in 1..Len(newOrder) : newOrder'[j] = newOrder[j]
  BY <1>2, AppendProperties DEF ScanBeyondList, TypeInv, TypeOK
<1>4. OptionLimit' = OptionLimit
  BY <1>0 DEF OptionLimit
<1>5. \A k, l \in 1..Len(menu) : menu[k].num = menu[l].num => k = l
  BY <1>0, SnapshotDistinct DEF SnapshotStates, ScanStates
<1>6. ASSUME NEW j \in 1..Len(newOrder)
      PROVE  newOrder[j] # menu[idx].num
  <2>1. CASE \E i \in 1..OptionLimit : i < idx /\ newOrder[j] = orderConfig[i].num
    <3>1. PICK i \in 1..OptionLimit : newOrder[j] = orderConfig[i].num
      BY <2>1
    <3>2. newOrder[j] # NoOption /\ i \in Slots
      BY <1>3, MenuEntry, ConstantsAssumption
    <3>3. PICK k \in 1..OptionLimit : menu[k].num = newOrder[j]
      BY <1>1, <3>1, <3>2 DEF SlotsInv
    <3>4. k \in 1..Len(menu) /\ k # idx
      BY <1>0
    <3>5. QED
      BY <1>0, <1>5, <3>3, <3>4
  <2>2. CASE \E k \in 1..Len(menu) : OptionLimit < k /\ k < idx /\ newOrder[j] = menu[k].num
    BY <1>0, <1>5, <2>2
  <2>3. QED
    BY <1>1, <1>3, <2>1, <2>2 DEF CollectedInv
<1>7. ASSUME NEW j \in DOMAIN newOrder'
      PROVE  \/ \E i \in 1..OptionLimit' : i < idx' /\ newOrder'[j] = orderConfig'[i].num
             \/ \E k \in 1..Len(menu') :
                  OptionLimit' < k /\ k < idx' /\ newOrder'[j] = menu'[k].num
  <2>1. CASE j \in 1..Len(newOrder)
    <3>1. CASE \E i \in 1..OptionLimit : i < idx /\ newOrder[j] = orderConfig[i].num
      BY <1>0, <1>3, <1>4, <2>1, <3>1
    <3>2. CASE \E k \in 1..Len(menu) : OptionLimit < k /\ k < idx /\ newOrder[j] = menu[k].num
      BY <1>0, <1>3, <1>4, <2>1, <3>2
    <3>3. QED
      BY <1>1, <1>3, <2>1, <3>1, <3>2 DEF CollectedInv
  <2>2. CASE j = Len(newOrder) + 1
    BY <1>0, <1>3, <1>4, <2>2
  <2>3. QED
    BY <1>3, <2>1, <2>2
<1>8. CollectedInv'
  BY <1>7 DEF CollectedInv
<1>9. Distinct(newOrder')
  BY <1>1, <1>3, <1>6 DEF Distinct
<1>10. QED
  BY <1>8, <1>9

LEMMA OrderInvScan ==
  ASSUME TypeInv, OrderInv, Scan \/ BootDeclined
  PROVE  OrderInv'
<1> USE DEF nvVars, platVars, routeVars, dialogVars, SnapshotStates, ScanStates
<1>0. OptionLimit \in Nat /\ Len(menu) \in Nat /\ idx \in Nat
  BY OptionLimitBounds DEF TypeInv, TypeOK
<1>1. CASE ScanEmpty
  <2>1. /\ pc = "scan" /\ pc' = "scan" /\ idx' = idx + 1
        /\ UNCHANGED <<bootOrder, options, menu, orderConfig, newOrder>>
    BY <1>1 DEF ScanEmpty
  <2>2. CollectedInv /\ Distinct(newOrder) /\ SnapshotInv /\ SlotsInv /\ OrderNamesOptions
    BY <2>1 DEF OrderInv, EditStates
  <2>3. OrderNamesOptions'
    BY <2>1, <2>2 DEF OrderNamesOptions, Present
  <2>4. OptionLimit' = OptionLimit
    BY <2>1 DEF OptionLimit
  <2>5. SnapshotInv' /\ SlotsInv'
    BY <2>1, <2>2, <2>4 DEF SnapshotInv, SlotsInv
  <2>6. CollectedInv'
    BY <1>0, <2>1, <2>2, <2>4 DEF CollectedInv
  <2>7. Distinct(newOrder)'
    BY <2>1, <2>2 DEF Distinct
  <2>8. QED
    BY <2>1, <2>3, <2>5, <2>6, <2>7 DEF OrderInv, DropStates
<1>2. CASE ScanBootRequest
  <2>1. /\ pc = "scan" /\ pc' = "bootDialog"
        /\ UNCHANGED <<bootOrder, options, menu, orderConfig, newOrder>>
    BY <1>2 DEF ScanBootRequest
  <2>2. Distinct(newOrder) /\ SnapshotInv /\ SlotsInv /\ OrderNamesOptions
    BY <2>1 DEF OrderInv, EditStates
  <2>3. OrderNamesOptions'
    BY <2>1, <2>2 DEF OrderNamesOptions, Present
  <2>4. SnapshotInv' /\ SlotsInv'
    BY <2>1, <2>2 DEF SnapshotInv, SlotsInv, OptionLimit
  <2>5. Distinct(newOrder)'
    BY <2>1, <2>2 DEF Distinct
  <2>6. QED
    BY <2>1, <2>3, <2>4, <2>5 DEF OrderInv, DropStates
<1>3. CASE ScanOption
  <2>1. /\ pc = "scan" /\ pc' = "scan" /\ AtOption /\ idx' = idx + 1
        /\ newOrder' = Append(newOrder, orderConfig[idx].num)
        /\ UNCHANGED <<bootOrder, options, menu, orderConfig>>
    BY <1>3 DEF ScanOption, AtOption
  <2>2. SnapshotInv /\ SlotsInv /\ OrderNamesOptions
    BY <2>1 DEF OrderInv
  <2>3. OptionLimit' = OptionLimit
    BY <2>1 DEF OptionLimit
  <2>4. CollectedInv' /\ Distinct(newOrder')
    BY <2>1, <2>3, CollectSlot
  <2>5. OrderNamesOptions'
    BY <2>1, <2>2 DEF OrderNamesOptions, Present
  <2>6. SnapshotInv' /\ SlotsInv'
    BY <2>1, <2>2, <2>3 DEF SnapshotInv, SlotsInv
  <2>7. QED
    BY <2>1, <2>4, <2>5, <2>6 DEF OrderInv, DropStates
<1>4. CASE ScanToggled
  <2>1. PICK k \in 1..OptionLimit :
          /\ menu' = [menu EXCEPT ![k].active = ~@]
          /\ \E ok \in WriteOutcomes(menu[k].num) :
               options' = IF ok THEN [options EXCEPT ![menu[k].num] = Flag(~menu[k].active)]
                                ELSE options
    BY <1>4 DEF ScanToggled, Differing
  <2>2. /\ pc = "scan" /\ pc' = "scan" /\ AtOption /\ idx' = idx + 1
        /\ newOrder' = Append(newOrder, orderConfig[idx].num)
        /\ UNCHANGED <<bootOrder, orderConfig>>
    BY <1>4 DEF ScanToggled, AtOption
  <2>3. SnapshotInv /\ SlotsInv /\ OrderNamesOptions
    BY <2>2 DEF OrderInv
  <2>4. k \in 1..Len(menu) /\ menu[k] \in LoadOption
    BY MenuEntry
  <2>5. /\ [menu[k] EXCEPT !.active = ~@] \in LoadOption
        /\ [menu[k] EXCEPT !.active = ~@].num = menu[k].num
    BY <2>4 DEF LoadOption
  <2>6. menu' = [menu EXCEPT ![k] = [menu[k] EXCEPT !.active = ~@]]
    BY <2>1
  <2>7. Len(menu') = Len(menu) /\ \A l \in 1..Len(menu) : menu'[l].num = menu[l].num
    BY <2>4, <2>5, <2>6, ExceptSeq DEF TypeInv, TypeOK
  <2>8. OptionLimit' = OptionLimit
    BY <2>7 DEF OptionLimit
  <2>9. CollectedInv' /\ Distinct(newOrder')
    BY <2>2, <2>7, <2>8, CollectSlot
  <2>10. \A n \in Numbers : Present(n) => Present(n)'
    BY <2>1 DEF Present, Flag, TypeInv, TypeOK
  <2>11. OrderNamesOptions'
    BY <2>2, <2>3, <2>10 DEF OrderNamesOptions, TypeInv, TypeOK
  <2>12. SnapshotInv'
    BY <2>2, <2>3, <2>7 DEF SnapshotInv
  <2>13. SlotsInv'
    <3>1. \A l \in 1..OptionLimit : menu'[l].num = menu[l].num
      BY <1>0, <2>7, MenuEntry
    <3>2. QED
      BY <2>2, <2>3, <2>8, <3>1 DEF SlotsInv
  <2>14. QED
    BY <2>2, <2>9, <2>11, <2>12, <2>13 DEF OrderInv, DropStates
<1>5. CASE ScanBeyondList
  <2>1. /\ pc = "scan" /\ pc' = "scan"
        /\ UNCHANGED <<bootOrder, options, menu, orderConfig>>
    BY <1>5 DEF ScanBeyondList
  <2>2. SnapshotInv /\ SlotsInv /\ OrderNamesOptions
    BY <2>1 DEF OrderInv
  <2>3. CollectedInv' /\ Distinct(newOrder')
    BY <1>5, CollectBeyond
  <2>4. OrderNamesOptions'
    BY <2>1, <2>2 DEF OrderNamesOptions, Present
  <2>5. SnapshotInv' /\ SlotsInv'
    BY <2>1, <2>2 DEF SnapshotInv, SlotsInv, OptionLimit
  <2>6. QED
    BY <2>1, <2>3, <2>4, <2>5 DEF OrderInv, DropStates
<1>6. CASE ScanDone
  <2>1. /\ pc = "scan" /\ pc' \in {"drop", "commit"}
        /\ UNCHANGED <<bootOrder, options, menu, newOrder>>
    BY <1>6 DEF ScanDone
  <2>2. CollectedInv /\ Distinct(newOrder) /\ SlotsInv /\ OrderNamesOptions
    BY <2>1 DEF OrderInv, EditStates
  <2>3. ASSUME NEW j \in DOMAIN newOrder PROVE Present(newOrder[j])
    <3>1. \A k \in 1..Len(menu) : Present(menu[k].num)
      BY <2>1, SnapshotDistinct
    <3>2. newOrder[j] # NoOption
      BY ConstantsAssumption DEF TypeInv, TypeOK
    <3>3. CASE \E i \in 1..OptionLimit : i < idx /\ newOrder[j] = orderConfig[i].num
      <4>1. PICK i \in 1..OptionLimit : newOrder[j] = orderConfig[i].num
        BY <3>3
      <4>2. i \in Slots
        BY MenuEntry
      <4>3. PICK k \in 1..OptionLimit : menu[k].num = newOrder[j]
        BY <2>2, <3>2, <4>1, <4>2 DEF SlotsInv
      <4>4. k \in 1..Len(menu)
        BY MenuEntry
      <4>5. QED
        BY <3>1, <4>3, <4>4
    <3>4. CASE \E k \in 1..Len(menu) : OptionLimit < k /\ k < idx /\ newOrder[j] = menu[k].num
      BY <3>1, <3>4
    <3>5. QED
      BY <2>2, <3>3, <3>4 DEF CollectedInv
  <2>4. OrderNamesOptions'
    BY <2>1, <2>2 DEF OrderNamesOptions, Present
  <2>5. Distinct(newOrder)'
    BY <2>1, <2>2 DEF Distinct
  <2>6. (\A j \in DOMAIN newOrder : Present(newOrder[j]))'
    BY <2>1, <2>3 DEF Present
  <2>7. /\ pc' \notin SnapshotStates \cup {"rebuild"}
        /\ pc' \notin {"deleteDialog", "unlist", "erase"}
    BY <2>1
  <2>8. QED
    BY <2>4, <2>5, <2>6, <2>7 DEF OrderInv
<1>7. CASE BootDeclined
  <2>1. menu' = <<>> /\ idx' = 1 /\ pc' = "rebuild" /\ bootOrder' = bootOrder /\ options' = options
    BY <1>7 DEF BootDeclined, StartRebuild
  <2>2. SnapshotInv'
    BY <2>1 DEF SnapshotInv, TypeInv, TypeOK
  <2>3. OrderNamesOptions'
    BY <2>1 DEF OrderInv, OrderNamesOptions, Present
  <2>4. QED
    BY <2>1, <2>2, <2>3 DEF OrderInv, EditStates, DropStates
<1>8. QED
  BY <1>1, <1>2, <1>3, <1>4, <1>5, <1>6, <1>7 DEF Scan

(***************************************************************************)
(* The deletions and the final write.                                      *)
(***************************************************************************)
LEMMA OrderInvDrop ==
  ASSUME ServiceFailures = FALSE, TypeInv, LockInv, OrderInv,
         Drop \/ Commit \/ DeleteConfirmed \/ DeleteDeclined
  PROVE  OrderInv'
<1> USE DEF nvVars, platVars, routeVars, dialogVars, SnapshotStates, ScanStates
<1>0. pc \in DropStates \cup {"commit"}
  BY DEF Drop, DropKept, DropAsk, DropDone, Unlist, EraseOption, Commit, DeleteConfirmed,
     DeleteDeclined, DropStates
<1>1. /\ OrderNamesOptions /\ Distinct(newOrder)
      /\ \A j \in DOMAIN newOrder : Present(newOrder[j])
  BY <1>0 DEF OrderInv, EditStates
<1>2. policyLocked = {}
  BY <1>0 DEF LockInv, EditStates
<1>3. CASE DropKept \/ DropDone \/ DeleteDeclined
  <2>1. pc' \in {"drop", "commit"} /\ UNCHANGED <<bootOrder, options, newOrder>>
    BY <1>3 DEF DropKept, DropDone, DeleteDeclined
  <2>2. OrderNamesOptions' /\ (\A j \in DOMAIN newOrder : Present(newOrder[j]))'
    BY <1>1, <2>1 DEF OrderNamesOptions, Present
  <2>3. Distinct(newOrder)'
    BY <1>1, <2>1 DEF Distinct
  <2>4. QED
    BY <2>1, <2>2, <2>3 DEF OrderInv
<1>4. CASE DropAsk \/ DeleteConfirmed
  <2>1. /\ pc' \in {"deleteDialog", "unlist"}
        /\ UNCHANGED <<bootOrder, options, newOrder, menu, idx>>
    BY <1>4 DEF DropAsk, DeleteConfirmed
  <2>2. OrderNamesOptions' /\ (\A j \in DOMAIN newOrder : Present(newOrder[j]))'
    BY <1>1, <2>1 DEF OrderNamesOptions, Present
  <2>3. Distinct(newOrder)'
    BY <1>1, <2>1 DEF Distinct
  <2>4. \A j \in DOMAIN newOrder : newOrder[j] # menu[idx].num
    BY <1>4 DEF DropAsk, Contains, DeleteConfirmed, OrderInv
  <2>5. QED
    BY <2>1, <2>2, <2>3, <2>4 DEF OrderInv
<1>5. CASE Unlist
  <2>1. /\ pc = "unlist" /\ pc' = "erase" /\ UNCHANGED <<options, newOrder, menu, idx>>
    BY <1>5 DEF Unlist
  <2>2. PICK ok \in WriteOutcomes("BootOrder") :
          IF ok /\ Contains(bootOrder, menu[idx].num)
          THEN \E i \in DOMAIN bootOrder : /\ bootOrder[i] = menu[idx].num
                                           /\ bootOrder' = Without(bootOrder, i)
          ELSE UNCHANGED bootOrder
    BY <1>5 DEF Unlist
  <2>3. ok = TRUE
    BY <1>2, <2>2, NoFailures
  <2>4. OrderNamesOptions' /\ ~Listed(menu[idx].num)'
    <3>1. CASE Contains(bootOrder, menu[idx].num)
      <4>1. PICK i \in DOMAIN bootOrder : /\ bootOrder[i] = menu[idx].num
                                          /\ bootOrder' = Without(bootOrder, i)
        BY <2>2, <2>3, <3>1
      <4>2. /\ bootOrder \in Seq(Numbers) /\ i \in 1..Len(bootOrder)
            /\ DOMAIN bootOrder = 1..Len(bootOrder) /\ Len(bootOrder) \in Nat
        BY <4>1 DEF TypeInv, TypeOK
      <4>3. /\ bootOrder' \in Seq(Numbers)
            /\ Len(bootOrder') = Len(bootOrder) - 1
            /\ \A j \in 1..(Len(bootOrder) - 1) :
                 bootOrder'[j] = IF j < i THEN bootOrder[j] ELSE bootOrder[j + 1]
        BY <4>1, <4>2, WithoutProperties
      <4>4. DOMAIN bootOrder' = 1..(Len(bootOrder) - 1)
        BY <4>2, <4>3
      <4>5. \A j \in DOMAIN bootOrder' :
              \E k \in DOMAIN bootOrder : k # i /\ bootOrder'[j] = bootOrder[k]
        <5> SUFFICES ASSUME NEW j \in 1..(Len(bootOrder) - 1)
                     PROVE  \E k \in 1..Len(bootOrder) : k # i /\ bootOrder'[j] = bootOrder[k]
          BY <4>2, <4>4
        <5>1. CASE j < i
          BY <4>2, <4>3, <5>1
        <5>2. CASE ~(j < i)
          <6>1. bootOrder'[j] = bootOrder[j + 1]
            BY <4>3, <5>2
          <6>2. j + 1 \in 1..Len(bootOrder) /\ j + 1 # i
            BY <4>2, <5>2
          <6> QED
            BY <6>1, <6>2
        <5> QED
          BY <5>1, <5>2
      <4>6. \A j, l \in DOMAIN bootOrder' : bootOrder'[j] = bootOrder'[l] => j = l
        <5>1. ASSUME NEW j \in DOMAIN bootOrder', NEW l \in DOMAIN bootOrder',
                     bootOrder'[j] = bootOrder'[l]
              PROVE  j = l
          <6> DEFINE old(m) == IF m < i THEN m ELSE m + 1
          <6>1. old(j) \in DOMAIN bootOrder /\ old(l) \in DOMAIN bootOrder
            BY <4>2, <4>4
          <6>2. bootOrder[old(j)] = bootOrder[old(l)]
            BY <4>3, <4>4, <5>1
          <6>3. old(j) = old(l)
            BY <1>1, <6>1, <6>2 DEF OrderNamesOptions
          <6>4. j \in Nat /\ l \in Nat /\ i \in Nat
            BY <4>2, <4>4
          <6>5. QED
            BY <6>3, <6>4
        <5>2. QED
          BY <5>1
      <4>7. \A j \in DOMAIN bootOrder' : bootOrder'[j] # menu[idx].num
        BY <1>1, <4>1, <4>5 DEF OrderNamesOptions
      <4>8. \A j \in DOMAIN bootOrder' : Present(bootOrder'[j])
        BY <1>1, <4>5 DEF OrderNamesOptions
      <4>9. QED
        BY <2>1, <4>6, <4>7, <4>8 DEF OrderNamesOptions, Present, Listed, Contains
    <3>2. CASE ~Contains(bootOrder, menu[idx].num)
      <4>1. bootOrder' = bootOrder
        BY <2>2, <3>2
      <4>2. QED
        BY <1>1, <2>1, <3>2, <4>1 DEF OrderNamesOptions, Present, Listed, Contains
    <3>3. QED
      BY <3>1, <3>2
  <2>5. Distinct(newOrder)' /\ (\A j \in DOMAIN newOrder : Present(newOrder[j]))'
    BY <1>1, <2>1 DEF Distinct, Present
  <2>6. (\A j \in DOMAIN newOrder : newOrder[j] # menu[idx].num)'
    BY <2>1 DEF OrderInv
  <2>7. QED
    BY <2>1, <2>4, <2>5, <2>6 DEF OrderInv
<1>6. CASE EraseOption
  <2>1. /\ pc = "erase" /\ pc' = "drop" /\ UNCHANGED <<bootOrder, newOrder, menu>>
    BY <1>6 DEF EraseOption
  <2>2. \A n \in Numbers : n # menu[idx].num => options'[n] = options[n]
    BY <1>6 DEF EraseOption, TypeInv, TypeOK
  <2>3. /\ ~Listed(menu[idx].num)
        /\ \A j \in DOMAIN newOrder : newOrder[j] # menu[idx].num
    BY <2>1 DEF OrderInv
  <2>4. OrderNamesOptions'
    <3>1. ASSUME NEW i \in DOMAIN bootOrder PROVE options'[bootOrder[i]] # "absent"
      <4>1. bootOrder[i] # menu[idx].num /\ bootOrder[i] \in Numbers
        BY <2>3 DEF Listed, Contains, TypeInv, TypeOK
      <4>2. QED
        BY <1>1, <2>2, <4>1 DEF OrderNamesOptions, Present
    <3>2. QED
      BY <1>1, <2>1, <3>1 DEF OrderNamesOptions, Present
  <2>5. (\A j \in DOMAIN newOrder : Present(newOrder[j]))'
    <3>1. ASSUME NEW j \in DOMAIN newOrder PROVE options'[newOrder[j]] # "absent"
      <4>1. newOrder[j] # menu[idx].num /\ newOrder[j] \in Numbers
        BY <2>3 DEF TypeInv, TypeOK
      <4>2. QED
        BY <1>1, <2>2, <4>1 DEF Present
    <3>2. QED
      BY <2>1, <3>1 DEF Present
  <2>6. Distinct(newOrder)'
    BY <1>1, <2>1 DEF Distinct
  <2>7. QED
    BY <2>1, <2>4, <2>5, <2>6 DEF OrderInv
<1>7. CASE Commit
  <2>1. /\ menu' = <<>> /\ idx' = 1 /\ pc' = "rebuild" /\ options' = options
        /\ bootOrder' \in {bootOrder, newOrder}
    BY <1>7 DEF Commit, StartRebuild
  <2>2. SnapshotInv'
    BY <2>1 DEF SnapshotInv, TypeInv, TypeOK
  <2>3. OrderNamesOptions'
    BY <1>1, <2>1 DEF OrderNamesOptions, Distinct, Present
  <2>4. QED
    BY <2>1, <2>2, <2>3 DEF OrderInv, EditStates, DropStates
<1>8. QED
  BY <1>3, <1>4, <1>5, <1>6, <1>7 DEF Drop

LEMMA OrderInvStep ==
  ASSUME ServiceFailures = FALSE
  PROVE  TypeInv /\ LockInv /\ OrderInv /\ [Next]_vars => OrderInv'
<1> SUFFICES ASSUME TypeInv, LockInv, OrderInv, [Next]_vars PROVE OrderInv'
  OBVIOUS
<1>1. CASE UNCHANGED vars
  <2>1. UNCHANGED <<bootOrder, options, menu, orderConfig, newOrder, pc, idx>>
    BY <1>1 DEF vars, nvVars, platVars, routeVars, dialogVars
  <2>2. QED
    BY <2>1 DEF OrderInv, OrderNamesOptions, Present, SnapshotInv, SlotsInv, CollectedInv,
       Distinct, Listed, Contains, OptionLimit
<1>2. CASE Next
  BY <1>2, NoFailures, OrderInvRebuild, OrderInvRoute, OrderInvScan, OrderInvDrop, OrderInvPlatform,
     OrderInvReset DEF Next, Code, User, Answer, RouteConfigGivesUp
<1>3. QED
  BY <1>1, <1>2

(***************************************************************************)
(* When no service fails BootOrder names existing options, each once, at   *)
(* every instant: also in the middle of a deletion, where a loss of power  *)
(* would leave it.                                                         *)
(***************************************************************************)
THEOREM OrderAlwaysNamesOptions ==
  ASSUME ServiceFailures = FALSE
  PROVE  Spec => []OrderNamesOptions
<1> DEFINE Inv == TypeInv /\ LockInv /\ OrderInv
<1>1. Init => Inv
  BY TypeInvInit, LockInvInit, OrderInvInit
<1>2. Inv /\ [Next]_vars => Inv'
  BY TypeInvStep, LockInvStep, OrderInvStep
<1>3. Inv => OrderNamesOptions
  BY DEF OrderInv
<1>4. QED
  BY <1>1, <1>2, <1>3, PTL DEF Spec

(***************************************************************************)
(* While the BootOrderLock setting is on, neither the order nor an option  *)
(* changes.  The rebuild is the step that needs OrderInv: it would write   *)
(* BootOrder, lock or no lock, if the order named an option that is gone.  *)
(***************************************************************************)
THEOREM LockAlwaysHonoured ==
  ASSUME ServiceFailures = FALSE
  PROVE  Spec => LockHonoured
<1> DEFINE Inv == TypeInv /\ LockInv /\ OrderInv
<1>1. Init => Inv
  BY TypeInvInit, LockInvInit, OrderInvInit
<1>2. Inv /\ [Next]_vars => Inv'
  BY TypeInvStep, LockInvStep, OrderInvStep
<1>3. Inv /\ [Next]_vars => [lockSetting => UNCHANGED <<bootOrder, options>>]_vars
  <2> SUFFICES ASSUME Inv, Next, lockSetting PROVE UNCHANGED <<bootOrder, options>>
    BY DEF vars, nvVars
  <2> USE DEF nvVars, platVars, routeVars, dialogVars
  <2>1. pc \notin EditStates
    BY DEF LockInv
  <2>2. CASE Rebuild
    <3>1. ~PruneDangling
      <4>1. idx <= Len(bootOrder) => idx \in DOMAIN bootOrder
        BY DEF TypeInv, TypeOK
      <4>2. QED
        BY <4>1 DEF PruneDangling, OrderInv, OrderNamesOptions
    <3>2. QED
      BY <2>2, <3>1 DEF Rebuild, LoadPresent, FillList
  <2>3. CASE Scan \/ Drop \/ Commit \/ Answer
    BY <2>1, <2>3 DEF EditStates, ScanStates, DropStates, Scan, ScanEmpty, ScanBootRequest,
       ScanOption, ScanToggled, AtOption, ScanBeyondList, ScanDone, Drop, DropKept, DropAsk,
       DropDone, Unlist, EraseOption, Commit, Answer, BootConfirmed, BootDeclined,
       DeleteConfirmed, DeleteDeclined
  <2>4. CASE \/ FormOpen \/ RouteConfig \/ RouteConfigGivesUp \/ SetLockSetting \/ StartBoot
             \/ Lock \/ BootReturned \/ Reset
    BY <2>4 DEF FormOpen, RouteConfig, RouteConfigGivesUp, SetLockSetting, StartBoot, Lock, LockSkipped,
       LockBootOrder, DeleteBootNext, LockBootNext, LockOptions, BootReturned, Reset
  <2>5. QED
    BY <2>2, <2>3, <2>4 DEF Next, Code, User
<1>4. QED
  BY <1>1, <1>2, <1>3, PTL DEF Spec, LockHonoured

-----------------------------------------------------------------------------
(***************************************************************************)
(* A load option's active flag changes only to what the checkbox of that   *)
(* same option says, whatever fails: the one step that writes a flag has   *)
(* looked the option up by its number.                                     *)
(***************************************************************************)
THEOREM FlagsFollowCheckboxes == Spec => FlagFollowsCheckbox
<1> DEFINE Follows ==
      \A n \in Numbers :
         (options'[n] # options[n] /\ options'[n] # "absent") =>
           \E i \in Slots : orderConfig[i].num = n /\ options'[n] = Flag(orderConfig[i].checked)
<1>1. TypeInv /\ [Next]_vars =>
        [\A n \in Numbers :
           (options'[n] # options[n] /\ options'[n] # "absent") =>
             \E i \in Slots : /\ orderConfig[i].num = n
                              /\ options'[n] = Flag(orderConfig[i].checked)]_vars
  <2> SUFFICES ASSUME TypeInv, Next, options' # options PROVE Follows
    BY DEF Follows
  <2> USE DEF nvVars, platVars, routeVars, dialogVars
  <2>1. CASE ScanToggled
    <3>1. PICK k \in Differing(orderConfig[idx]) :
            \E ok \in WriteOutcomes(menu[k].num) :
               options' = IF ok THEN [options EXCEPT ![menu[k].num] = Flag(~menu[k].active)]
                                ELSE options
      BY <2>1 DEF ScanToggled
    <3>2. options' = [options EXCEPT ![menu[k].num] = Flag(~menu[k].active)]
      BY <3>1
    <3>3. /\ k \in 1..OptionLimit /\ menu[k].num = orderConfig[idx].num
          /\ menu[k].active # orderConfig[idx].checked
      BY <3>1 DEF Differing
    <3>4. idx \in 1..OptionLimit
      BY <2>1, OptionLimitBounds DEF ScanToggled, AtOption, TypeInv, TypeOK
    <3>5. idx \in Slots /\ orderConfig[idx] \in Slot /\ menu[k] \in LoadOption
      BY <3>3, <3>4, MenuEntry
    <3>6. (~menu[k].active) = orderConfig[idx].checked
      BY <3>3, <3>5 DEF Slot, LoadOption
    <3>7. ASSUME NEW n \in Numbers, options'[n] # options[n] PROVE n = menu[k].num
      BY <3>2, <3>7 DEF TypeInv, TypeOK
    <3>8. options'[menu[k].num] = Flag(orderConfig[idx].checked)
      BY <3>2, <3>5, <3>6 DEF TypeInv, TypeOK, LoadOption
    <3>9. QED
      BY <3>3, <3>5, <3>7, <3>8
  <2>2. CASE EraseOption
    <3>1. options' = [options EXCEPT ![menu[idx].num] = "absent"]
      BY <2>2 DEF EraseOption
    <3>2. \A n \in Numbers : options'[n] \in {options[n], "absent"}
      BY <3>1 DEF TypeInv, TypeOK
    <3>3. QED
      BY <3>2
  <2>3. CASE ~ScanToggled /\ ~EraseOption
    <3>1. options' = options
      BY <2>3 DEF Next, Code, User, Rebuild, LoadPresent, PruneDangling, FillList, Scan, ScanEmpty,
         ScanBootRequest, ScanOption, ScanBeyondList, ScanDone, Drop, DropKept, DropAsk, DropDone,
         Unlist, Commit, Lock, LockSkipped, LockBootOrder, DeleteBootNext, LockBootNext,
         LockOptions, FormOpen, RouteConfig, RouteConfigGivesUp, SetLockSetting, Answer,
         BootConfirmed, BootDeclined, DeleteConfirmed, DeleteDeclined, StartBoot, BootReturned, Reset
    <3>2. QED
      BY <3>1
  <2>4. QED
    BY <2>1, <2>2, <2>3
<1>2. QED
  BY <1>1, TypeInvInit, TypeInvStep, PTL DEF Spec, FlagFollowsCheckbox

-----------------------------------------------------------------------------
(***************************************************************************)
(* The list on screen.  The rebuild keeps the snapshot equal to the part   *)
(* of BootOrder it has walked, also when it prunes an entry or fails to;   *)
(* nothing that can happen while the form waits touches either.            *)
(***************************************************************************)
ScreenInv ==
  /\ pc = "rebuild" => idx <= Len(bootOrder) + 1 /\ LoadedUpTo(idx - 1)
  /\ pc = "idle" => LoadedUpTo(Len(bootOrder)) /\ (orderConfig = ListFor(menu) \/ leftOver)

LEMMA NothingLoaded ==
  ASSUME menu' = <<>>
  PROVE  LoadedUpTo(0)'
<1>1. 1..Len(menu') = {} /\ 1..0 = {}
  OBVIOUS
<1>2. [k \in {} |-> k] \in [1..Len(menu') -> 1..0]
  BY <1>1
<1>3. QED
  BY <1>1, <1>2 DEF LoadedUpTo

LEMMA LoadOneMore ==
  ASSUME TypeInv, NEW n \in Nat, idx = n + 1, idx <= Len(bootOrder), Present(bootOrder[idx]),
         LoadedUpTo(n),
         menu' = Append(menu, [num |-> bootOrder[idx], active |-> options[bootOrder[idx]] = "active"]),
         bootOrder' = bootOrder, options' = options
  PROVE  LoadedUpTo(n + 1)'
<1> DEFINE entry == [num |-> bootOrder[idx], active |-> options[bootOrder[idx]] = "active"]
<1>0. /\ Len(menu) \in Nat /\ idx \in Nat \ {0} /\ Len(bootOrder) \in Nat
      /\ menu \in Seq(LoadOption)
  BY DEF TypeInv, TypeOK
<1>1. PICK at \in [1..Len(menu) -> 1..n] :
        /\ \A k, l \in 1..Len(menu) : k < l => at[k] < at[l]
        /\ \A k \in 1..Len(menu) :
             /\ Present(bootOrder[at[k]])
             /\ menu[k] = [num    |-> bootOrder[at[k]],
                           active |-> options[bootOrder[at[k]]] = "active"]
        /\ \A i \in 1..n : Present(bootOrder[i]) => \E k \in 1..Len(menu) : at[k] = i
  BY DEF LoadedUpTo
<1>2. bootOrder[idx] \in Numbers
  BY <1>0, ElementOfSeq DEF TypeInv, TypeOK
<1>3. entry \in LoadOption
  <2>1. (options[bootOrder[idx]] = "active") \in BOOLEAN
    OBVIOUS
  <2>2. QED
    BY <1>2, <2>1 DEF LoadOption
<1>4. /\ Len(menu') = Len(menu) + 1 /\ menu'[Len(menu) + 1] = entry
      /\ \A k \in 1..Len(menu) : menu'[k] = menu[k]
  BY <1>0, <1>3, AppendProperties
<1> DEFINE more == [k \in 1..(Len(menu) + 1) |-> IF k = Len(menu) + 1 THEN idx ELSE at[k]]
<1>5. /\ more \in [1..(Len(menu) + 1) -> 1..(n + 1)] /\ more[Len(menu) + 1] = idx
      /\ \A k \in 1..Len(menu) : more[k] = at[k] /\ at[k] < idx
  <2>1. \A k \in 1..(Len(menu) + 1) : k # Len(menu) + 1 => k \in 1..Len(menu)
    BY <1>0
  <2>2. idx \in 1..(n + 1) /\ \A k \in 1..Len(menu) : at[k] \in 1..(n + 1) /\ at[k] < idx
    <3>1. \A k \in 1..Len(menu) : at[k] \in 1..n
      BY <1>1
    <3>2. \A a \in 1..n : a \in 1..(n + 1) /\ a < n + 1
      OBVIOUS
    <3>3. QED
      BY <3>1, <3>2
  <2>3. /\ Len(menu) + 1 \in 1..(Len(menu) + 1)
        /\ \A k \in 1..Len(menu) : k \in 1..(Len(menu) + 1) /\ k # Len(menu) + 1
    BY <1>0
  <2>4. QED
    BY <2>1, <2>2, <2>3
<1> HIDE DEF entry, more
<1>6. \A k \in 1..(Len(menu) + 1) : k = Len(menu) + 1 \/ k \in 1..Len(menu)
  BY <1>0
<1>7. ASSUME NEW k \in 1..(Len(menu) + 1), NEW l \in 1..(Len(menu) + 1), k < l
      PROVE  more[k] < more[l]
  <2>1. k \in 1..Len(menu)
    BY <1>0, <1>7
  <2>2. CASE l = Len(menu) + 1
    BY <1>5, <2>1, <2>2
  <2>3. CASE l \in 1..Len(menu)
    BY <1>1, <1>5, <1>7, <2>1, <2>3
  <2>4. QED
    BY <1>6, <2>2, <2>3
<1>8. ASSUME NEW k \in 1..(Len(menu) + 1)
      PROVE  /\ Present(bootOrder[more[k]])
             /\ menu'[k] = [num    |-> bootOrder[more[k]],
                            active |-> options[bootOrder[more[k]]] = "active"]
  <2>1. CASE k = Len(menu) + 1
    BY <1>4, <1>5, <2>1 DEF entry
  <2>2. CASE k \in 1..Len(menu)
    BY <1>1, <1>4, <1>5, <2>2
  <2>3. QED
    BY <1>6, <2>1, <2>2
<1>9. ASSUME NEW i \in 1..(n + 1), Present(bootOrder[i])
      PROVE  \E k \in 1..(Len(menu) + 1) : more[k] = i
  <2>1. CASE i = idx
    BY <1>0, <1>5, <2>1
  <2>2. CASE i # idx
    <3>1. i \in 1..n
      BY <1>0, <2>2
    <3>2. PICK k \in 1..Len(menu) : at[k] = i
      BY <1>1, <1>9, <3>1
    <3>3. k \in 1..(Len(menu) + 1)
      BY <1>0
    <3>4. QED
      BY <1>5, <3>2, <3>3
  <2>3. QED
    BY <2>1, <2>2
<1>10. QED
  <2>1. \E f \in [1..Len(menu') -> 1..(n + 1)] :
          /\ \A k, l \in 1..Len(menu') : k < l => f[k] < f[l]
          /\ \A k \in 1..Len(menu') :
               /\ options'[bootOrder'[f[k]]] # "absent"
               /\ menu'[k] = [num    |-> bootOrder'[f[k]],
                              active |-> options'[bootOrder'[f[k]]] = "active"]
          /\ \A i \in 1..(n + 1) : options'[bootOrder'[i]] # "absent" => \E k \in 1..Len(menu') : f[k] = i
    <3>1. more \in [1..Len(menu') -> 1..(n + 1)]
      BY <1>4, <1>5
    <3>2. 1..Len(menu') = 1..(Len(menu) + 1)
      BY <1>4
    <3>3. \A k, l \in 1..Len(menu') : k < l => more[k] < more[l]
      BY <1>7, <3>2
    <3>4. \A k \in 1..Len(menu') :
            /\ options'[bootOrder'[more[k]]] # "absent"
            /\ menu'[k] = [num    |-> bootOrder'[more[k]],
                           active |-> options'[bootOrder'[more[k]]] = "active"]
      BY <1>8, <3>2 DEF Present
    <3>5. \A i \in 1..(n + 1) :
            options'[bootOrder'[i]] # "absent" => \E k \in 1..Len(menu') : more[k] = i
      BY <1>9, <3>2 DEF Present
    <3>6. QED
      BY <3>1, <3>3, <3>4, <3>5, Zenon
  <2>2. QED
    BY <2>1 DEF LoadedUpTo, Present

(***************************************************************************)
(* What is loaded depends on the walked entries only: an entry that does   *)
(* not exist adds nothing, whether or not it could be pruned.              *)
(***************************************************************************)
LEMMA LoadNothing ==
  ASSUME TypeInv, NEW n \in Nat, NEW m \in Nat, n <= m,
         LoadedUpTo(n), menu' = menu, options' = options,
         \A i \in 1..n : bootOrder'[i] = bootOrder[i],
         \A i \in (n + 1)..m : ~Present(bootOrder'[i])
  PROVE  LoadedUpTo(m)'
<1>1. PICK at \in [1..Len(menu) -> 1..n] :
        /\ \A k, l \in 1..Len(menu) : k < l => at[k] < at[l]
        /\ \A k \in 1..Len(menu) :
             /\ Present(bootOrder[at[k]])
             /\ menu[k] = [num    |-> bootOrder[at[k]],
                           active |-> options[bootOrder[at[k]]] = "active"]
        /\ \A i \in 1..n : Present(bootOrder[i]) => \E k \in 1..Len(menu) : at[k] = i
  BY DEF LoadedUpTo
<1>2. at \in [1..Len(menu) -> 1..m]
  BY <1>1
<1>3. \A k \in 1..Len(menu) : bootOrder'[at[k]] = bootOrder[at[k]]
  BY <1>1
<1>4. \A i \in 1..m : Present(bootOrder'[i]) => \E k \in 1..Len(menu) : at[k] = i
  <2>1. ASSUME NEW i \in 1..m, Present(bootOrder'[i]) PROVE \E k \in 1..Len(menu) : at[k] = i
    <3>1. i \in 1..n
      BY <2>1
    <3>2. QED
      BY <1>1, <2>1, <3>1
  <2>2. QED
    BY <2>1
<1>5. \E f \in [1..Len(menu') -> 1..m] :
        /\ \A k, l \in 1..Len(menu') : k < l => f[k] < f[l]
        /\ \A k \in 1..Len(menu') :
             /\ options'[bootOrder'[f[k]]] # "absent"
             /\ menu'[k] = [num    |-> bootOrder'[f[k]],
                            active |-> options'[bootOrder'[f[k]]] = "active"]
        /\ \A i \in 1..m : options'[bootOrder'[i]] # "absent" => \E k \in 1..Len(menu') : f[k] = i
  <2>1. WITNESS at \in [1..Len(menu') -> 1..m]
  <2>2. QED
    BY <1>1, <1>3, <1>4 DEF Present
<1>6. QED
  BY <1>5 DEF LoadedUpTo, Present

LEMMA ScreenInvStep == TypeInv /\ ScreenInv /\ [Next]_vars => ScreenInv'
<1> SUFFICES ASSUME TypeInv, ScreenInv, [Next]_vars PROVE ScreenInv'
  OBVIOUS
<1> USE DEF nvVars, platVars, routeVars, dialogVars
<1>0. /\ Len(bootOrder) \in Nat /\ idx \in Nat \ {0}
      /\ bootOrder \in Seq(Numbers)
  BY DEF TypeInv, TypeOK
<1>1. CASE UNCHANGED vars
  <2>1. UNCHANGED <<bootOrder, options, menu, orderConfig, pc, idx, leftOver>>
    BY <1>1 DEF vars
  <2>2. ASSUME NEW CONSTANT n \in Nat, LoadedUpTo(n) PROVE LoadedUpTo(n)'
    BY <2>1, <2>2 DEF LoadedUpTo, Present
  <2>3. pc = "rebuild" => idx' <= Len(bootOrder') + 1 /\ LoadedUpTo(idx - 1)'
    <3>1. SUFFICES ASSUME pc = "rebuild" PROVE LoadedUpTo(idx - 1)'
      BY <2>1 DEF ScreenInv
    <3>2. PICK n \in Nat : n = idx - 1
      BY <1>0
    <3>3. LoadedUpTo(n)
      BY <3>1, <3>2 DEF ScreenInv
    <3>4. LoadedUpTo(n)'
      BY <2>2, <3>3
    <3>5. idx' - 1 = n
      BY <2>1, <3>2
    <3>6. QED
      BY <3>4, <3>5 DEF LoadedUpTo
  <2>4. pc = "idle" => /\ LoadedUpTo(Len(bootOrder))'
                       /\ orderConfig' = ListFor(menu)' \/ leftOver'
    <3>1. SUFFICES ASSUME pc = "idle"
                   PROVE  /\ LoadedUpTo(Len(bootOrder))'
                          /\ orderConfig' = ListFor(menu)' \/ leftOver'
      OBVIOUS
    <3>2. QED
      BY <2>1, <3>1 DEF ScreenInv, LoadedUpTo, Present, ListFor
  <2>5. QED
    BY <2>1, <2>3, <2>4 DEF ScreenInv
<1>2. CASE FormOpen \/ BootDeclined \/ Commit
  <2>1. menu' = <<>> /\ idx' = 1 /\ pc' = "rebuild"
    BY <1>2 DEF FormOpen, BootDeclined, Commit, StartRebuild
  <2>2. LoadedUpTo(0)'
    BY <2>1, NothingLoaded
  <2>3. bootOrder' \in Seq(Numbers)
    BY <1>2, TypeInvRebuild, TypeInvScan, TypeInvDrop DEF TypeInv, TypeOK
  <2>4. idx' - 1 = 0 /\ idx' <= Len(bootOrder') + 1
    BY <2>1, <2>3
  <2>5. QED
    BY <2>1, <2>2, <2>4 DEF ScreenInv
<1>3. CASE LoadPresent
  <2>1. /\ pc = "rebuild" /\ pc' = "rebuild" /\ idx <= Len(bootOrder) /\ idx' = idx + 1
        /\ bootOrder' = bootOrder /\ options' = options
    BY <1>3 DEF LoadPresent
  <2>2. PICK n \in Nat : idx = n + 1
    BY <1>0
  <2>3. LoadedUpTo(n)
    BY <2>1, <2>2 DEF ScreenInv
  <2>4. LoadedUpTo(n + 1)'
    BY <1>3, <2>1, <2>2, <2>3, LoadOneMore DEF LoadPresent
  <2>5. idx' - 1 = n + 1 /\ idx' <= Len(bootOrder') + 1
    BY <1>0, <2>1, <2>2
  <2>6. QED
    BY <2>1, <2>4, <2>5 DEF ScreenInv
<1>4. CASE PruneDangling
  <2>1. /\ pc = "rebuild" /\ pc' = "rebuild" /\ idx <= Len(bootOrder)
        /\ ~Present(bootOrder[idx]) /\ options' = options /\ menu' = menu
    BY <1>4 DEF PruneDangling
  <2>2. PICK n \in Nat : idx = n + 1
    BY <1>0
  <2>3. LoadedUpTo(n)
    BY <2>1, <2>2 DEF ScreenInv
  <2>4. CASE bootOrder' = Without(bootOrder, idx) /\ idx' = idx
    <3>1. /\ Len(bootOrder') = Len(bootOrder) - 1
          /\ \A j \in 1..(Len(bootOrder) - 1) :
               bootOrder'[j] = IF j < idx THEN bootOrder[j] ELSE bootOrder[j + 1]
      <4>1. idx \in 1..Len(bootOrder)
        BY <1>0, <2>1
      <4>2. QED
        BY <1>0, <2>4, <4>1, WithoutProperties
    <3>2. \A i \in 1..n : bootOrder'[i] = bootOrder[i]
      BY <1>0, <2>1, <2>2, <3>1
    <3>3. (n + 1)..n = {}
      BY <2>2
    <3>4. LoadedUpTo(n)'
      BY <2>1, <2>3, <3>2, <3>3, LoadNothing
    <3>5. idx' - 1 = n /\ idx' <= Len(bootOrder') + 1
      BY <1>0, <2>1, <2>2, <2>4, <3>1
    <3>6. QED
      BY <2>1, <3>4, <3>5 DEF ScreenInv
  <2>5. CASE bootOrder' = bootOrder /\ idx' = idx + 1
    <3>1. \A i \in (n + 1)..(n + 1) : options[bootOrder'[i]] = "absent"
      BY <1>0, <2>1, <2>2, <2>5 DEF Present
    <3>2. n + 1 \in Nat /\ n <= n + 1
      BY <2>2
    <3>3. LoadedUpTo(n + 1)'
      BY <2>1, <2>3, <2>5, <3>1, <3>2, LoadNothing DEF Present
    <3>4. idx' - 1 = n + 1 /\ idx' <= Len(bootOrder') + 1
      BY <1>0, <2>1, <2>2, <2>5
    <3>5. QED
      BY <2>1, <3>3, <3>4 DEF ScreenInv
  <2>6. QED
    BY <1>4, <2>4, <2>5 DEF PruneDangling
<1>5. CASE FillList
  <2>1. /\ pc = "rebuild" /\ pc' = "idle" /\ idx > Len(bootOrder) /\ orderConfig' = ListFor(menu)
        /\ UNCHANGED <<bootOrder, options, menu>>
    BY <1>5 DEF FillList
  <2>2. idx - 1 = Len(bootOrder) /\ LoadedUpTo(idx - 1)
    BY <1>0, <2>1 DEF ScreenInv
  <2>3. LoadedUpTo(Len(bootOrder))
    BY <2>2
  <2>4. LoadedUpTo(Len(bootOrder))' /\ ListFor(menu)' = ListFor(menu)
    BY <2>1, <2>3 DEF LoadedUpTo, Present, ListFor
  <2>5. QED
    BY <2>1, <2>4 DEF ScreenInv
<1>6. CASE SetLockSetting
  <2>1. pc' = pc /\ pc = "idle" /\ UNCHANGED <<bootOrder, options, menu, orderConfig, leftOver>>
    BY <1>6 DEF SetLockSetting
  <2>2. QED
    BY <2>1 DEF ScreenInv, LoadedUpTo, Present, ListFor
<1>9. CASE RouteConfigGivesUp
  <2>1. /\ pc' = pc /\ pc = "idle" /\ UNCHANGED <<bootOrder, options, menu>>
        /\ orderConfig' = orderConfig \/ leftOver'
        /\ leftOver => leftOver'
    BY <1>9 DEF RouteConfigGivesUp
  <2>2. LoadedUpTo(Len(bootOrder))' /\ ListFor(menu)' = ListFor(menu)
    BY <2>1 DEF ScreenInv, LoadedUpTo, Present, ListFor
  <2>3. QED
    BY <2>1, <2>2 DEF ScreenInv
<1>7. CASE RouteConfig \/ Scan \/ BootConfirmed \/ Drop \/ DeleteConfirmed \/ DeleteDeclined
             \/ StartBoot \/ Lock \/ BootReturned \/ Reset
  <2>1. pc' \notin {"rebuild", "idle"}
    BY <1>7 DEF RouteConfig, Scan, ScanEmpty, ScanBootRequest, ScanOption, ScanToggled, AtOption,
       ScanBeyondList, ScanDone, BootConfirmed, Drop, DropKept, DropAsk, DropDone, Unlist,
       EraseOption, DeleteConfirmed, DeleteDeclined, StartBoot, Lock, LockSkipped, LockBootOrder,
       DeleteBootNext, LockBootNext, LockOptions, BootReturned, Reset
  <2>2. QED
    BY <2>1 DEF ScreenInv
<1>8. QED
  BY <1>1, <1>2, <1>3, <1>4, <1>5, <1>6, <1>7, <1>9 DEF Next, Code, User, Rebuild, Answer

LEMMA ScreenInvInit == Init => ScreenInv
BY DEF Init, Volatile, ScreenInv

(***************************************************************************)
(* Whatever was refused, declined, failed or left half done, the form      *)
(* waits for the user only with a true snapshot of the variables, and with *)
(* the list made from it unless RouteConfig has given up since.            *)
(***************************************************************************)
THEOREM ScreenIsTrue == Spec => []ScreenMatchesVariables
<1>1. ScreenInv => ScreenMatchesVariables
  BY DEF ScreenInv, ScreenMatchesVariables
<1>2. QED
  BY <1>1, TypeInvInit, TypeInvStep, ScreenInvInit, ScreenInvStep, PTL DEF Spec

-----------------------------------------------------------------------------
(***************************************************************************)
(* Deletions.  An option the user agreed to delete is either the one whose *)
(* two writes are under way, or off the list and erased; it cannot come    *)
(* back, since NewBootOrder names existing options only.                   *)
(***************************************************************************)
DeletionInv ==
  /\ pc \in ScanStates => consent = {}
  /\ \A n \in consent : \/ pc \in {"unlist", "erase"} /\ n = menu[idx].num
                        \/ ~Present(n) /\ ~Listed(n)

LEMMA DeletionInvInit == Init => DeletionInv
BY DEF Init, Volatile, DeletionInv

(***************************************************************************)
(* Steps of neither a deletion nor a dialog leave what is gone gone.       *)
(***************************************************************************)
LEMMA GoneStaysGone ==
  ASSUME TypeInv, DeletionInv, pc \notin {"unlist", "erase"},
         \A n \in Numbers : ~Present(n) => ~Present(n)',
         \A n \in Numbers : ~Listed(n) => ~Listed(n)',
         pc' \in ScanStates => consent' = {},
         consent' \in {{}, consent}
  PROVE  DeletionInv'
<1>1. ASSUME NEW n \in consent' PROVE ~Present(n)' /\ ~Listed(n)'
  <2>1. n \in consent /\ n \in Numbers
    BY <1>1 DEF TypeInv, TypeOK
  <2>2. ~Present(n) /\ ~Listed(n)
    BY <2>1 DEF DeletionInv
  <2>3. QED
    BY <2>1, <2>2
<1>2. QED
  BY <1>1 DEF DeletionInv

LEMMA DeletionInvStep ==
  ASSUME ServiceFailures = FALSE
  PROVE  TypeInv /\ LockInv /\ OrderInv /\ DeletionInv /\ [Next]_vars => DeletionInv'
<1> SUFFICES ASSUME TypeInv, LockInv, OrderInv, DeletionInv, [Next]_vars PROVE DeletionInv'
  OBVIOUS
<1> USE DEF nvVars, platVars, routeVars, dialogVars
<1>1. CASE UNCHANGED vars
  BY <1>1 DEF vars, DeletionInv, Present, Listed, Contains
<1>2. CASE \/ FormOpen \/ LoadPresent \/ FillList \/ RouteConfig \/ RouteConfigGivesUp
           \/ SetLockSetting \/ StartBoot \/ Lock \/ BootReturned \/ Reset \/ BootConfirmed \/ BootDeclined
           \/ ScanEmpty \/ ScanBootRequest \/ ScanOption \/ ScanBeyondList \/ ScanDone
           \/ DropKept \/ DropAsk \/ DropDone \/ DeleteDeclined
  <2>1. UNCHANGED <<bootOrder, options>> /\ consent' \in {{}, consent}
    BY <1>2 DEF FormOpen, LoadPresent, FillList, RouteConfig, RouteConfigGivesUp, SetLockSetting, StartBoot, Lock,
       LockSkipped, LockBootOrder, DeleteBootNext, LockBootNext, LockOptions, BootReturned, Reset,
       BootConfirmed, BootDeclined, ScanEmpty, ScanBootRequest, ScanOption, AtOption,
       ScanBeyondList, ScanDone, DropKept, DropAsk, DropDone, DeleteDeclined
  <2>2. pc' \in ScanStates => consent' = {}
    BY <1>2 DEF DeletionInv, ScanStates, FormOpen, StartRebuild, LoadPresent, FillList,
       RouteConfig, RouteConfigGivesUp, SetLockSetting, StartBoot, Lock, LockSkipped, LockBootOrder, DeleteBootNext,
       LockBootNext, LockOptions, BootReturned, Reset, BootConfirmed, BootDeclined, ScanEmpty,
       ScanBootRequest, ScanOption, AtOption, ScanBeyondList, ScanDone, DropKept, DropAsk,
       DropDone, DeleteDeclined
  <2>3. Reset \/ pc \notin {"unlist", "erase"}
    BY <1>2 DEF FormOpen, LoadPresent, FillList,
       RouteConfig, RouteConfigGivesUp, SetLockSetting, StartBoot, Lock, LockSkipped, LockBootOrder, DeleteBootNext,
       LockBootNext, LockOptions, BootReturned, BootConfirmed, BootDeclined, ScanEmpty,
       ScanBootRequest, ScanOption, AtOption, ScanBeyondList, ScanDone, DropKept, DropAsk,
       DropDone, DeleteDeclined
  <2>4. CASE Reset
    BY <2>4 DEF Reset, DeletionInv
  <2>5. CASE pc \notin {"unlist", "erase"}
    <3>1. \A n \in Numbers : (~Present(n) => ~Present(n)') /\ (~Listed(n) => ~Listed(n)')
      BY <2>1 DEF Present, Listed, Contains
    <3>2. QED
      BY <2>1, <2>2, <2>5, <3>1, GoneStaysGone
  <2>6. QED
    BY <2>3, <2>4, <2>5
<1>3. CASE PruneDangling
  <2>1. /\ pc = "rebuild" /\ pc' = pc /\ options' = options /\ consent' = consent
        /\ idx <= Len(bootOrder) /\ ~Present(bootOrder[idx])
    BY <1>3 DEF PruneDangling
  <2>2. idx \in DOMAIN bootOrder
    BY <2>1 DEF TypeInv, TypeOK
  <2>3. QED
    BY <2>1, <2>2 DEF OrderInv, OrderNamesOptions
<1>4. CASE ScanToggled
  <2>1. pc = "scan" /\ pc' = "scan" /\ consent' = consent
    BY <1>4 DEF ScanToggled, AtOption
  <2>2. QED
    BY <2>1 DEF DeletionInv, ScanStates
<1>5. CASE DeleteConfirmed
  <2>1. /\ pc = "deleteDialog" /\ pc' = "unlist" /\ consent' = consent \cup {menu[idx].num}
        /\ UNCHANGED <<bootOrder, options, menu, idx>>
    BY <1>5 DEF DeleteConfirmed
  <2>2. QED
    BY <2>1 DEF DeletionInv, ScanStates, Present, Listed, Contains
<1>6. CASE Unlist
  <2>1. /\ pc = "unlist" /\ pc' = "erase" /\ consent' = consent /\ options' = options
        /\ menu' = menu /\ idx' = idx
    BY <1>6 DEF Unlist
  <2>2. \A n \in Numbers : ~Listed(n) => ~Listed(n)'
    <3>1. CASE bootOrder' = bootOrder
      BY <3>1 DEF Listed, Contains
    <3>2. CASE \E i \in DOMAIN bootOrder : bootOrder' = Without(bootOrder, i)
      <4>1. PICK i \in DOMAIN bootOrder : bootOrder' = Without(bootOrder, i)
        BY <3>2
      <4>2. /\ bootOrder \in Seq(Numbers) /\ i \in 1..Len(bootOrder)
            /\ DOMAIN bootOrder = 1..Len(bootOrder) /\ Len(bootOrder) \in Nat
        BY <4>1 DEF TypeInv, TypeOK
      <4>3. /\ bootOrder' \in Seq(Numbers)
            /\ Len(bootOrder') = Len(bootOrder) - 1
            /\ \A j \in 1..(Len(bootOrder) - 1) :
                 bootOrder'[j] = IF j < i THEN bootOrder[j] ELSE bootOrder[j + 1]
        BY <4>1, <4>2, WithoutProperties
      <4>4. \A j \in DOMAIN bootOrder' : \E k \in DOMAIN bootOrder : bootOrder'[j] = bootOrder[k]
        BY <4>2, <4>3
      <4>5. QED
        BY <4>4 DEF Listed, Contains
    <3>3. QED
      BY <1>6, <3>1, <3>2 DEF Unlist
  <2>3. \A n \in consent : n \in Numbers
    BY DEF TypeInv, TypeOK
  <2>4. QED
    BY <2>1, <2>2, <2>3 DEF DeletionInv, ScanStates, Present
<1>7. CASE EraseOption
  <2>1. /\ pc = "erase" /\ pc' = "drop" /\ consent' = consent /\ bootOrder' = bootOrder
    BY <1>7 DEF EraseOption
  <2>2. options' = [options EXCEPT ![menu[idx].num] = "absent"]
    <3>1. menu[idx].num \in Numbers
      BY <2>1, OptionLimitBounds, MenuEntry DEF TypeInv, TypeOK, IndexedStates
    <3>2. policyLocked = {}
      BY <2>1 DEF LockInv, EditStates, DropStates
    <3>3. WriteOutcomes(menu[idx].num) = {TRUE}
      BY <3>2, NoFailures
    <3>4. QED
      BY <1>7, <3>3 DEF EraseOption
  <2>3. ASSUME NEW n \in consent PROVE ~Present(n)' /\ ~Listed(n)'
    <3>1. n \in Numbers
      BY DEF TypeInv, TypeOK
    <3>2. CASE n = menu[idx].num
      <4>1. ~Listed(n)
        BY <2>1, <3>2 DEF OrderInv
      <4>2. ~Present(n)'
        BY <2>2, <3>1, <3>2 DEF Present, TypeInv, TypeOK
      <4>3. QED
        BY <2>1, <4>1, <4>2 DEF Listed, Contains
    <3>3. CASE n # menu[idx].num
      <4>1. ~Present(n) /\ ~Listed(n)
        BY <3>3 DEF DeletionInv
      <4>2. QED
        BY <2>1, <2>2, <3>1, <4>1 DEF Present, Listed, Contains, TypeInv, TypeOK
    <3>4. QED
      BY <3>2, <3>3
  <2>4. QED
    BY <2>1, <2>3 DEF DeletionInv, ScanStates
<1>8. CASE Commit
  <2>1. /\ pc = "commit" /\ pc' = "rebuild" /\ options' = options /\ consent' = consent
        /\ bootOrder' \in {bootOrder, newOrder}
    BY <1>8 DEF Commit, StartRebuild
  <2>2. \A j \in DOMAIN newOrder : Present(newOrder[j])
    BY <2>1 DEF OrderInv
  <2>3. ASSUME NEW n \in consent PROVE ~Present(n)' /\ ~Listed(n)'
    <3>1. ~Present(n) /\ ~Listed(n)
      BY <2>1 DEF DeletionInv
    <3>2. ~Contains(newOrder, n)
      BY <2>2, <3>1 DEF Contains
    <3>3. QED
      BY <2>1, <3>1, <3>2 DEF Present, Listed, Contains
  <2>4. QED
    BY <2>1, <2>3 DEF DeletionInv, ScanStates
<1>9. QED
  BY <1>1, <1>2, <1>3, <1>4, <1>5, <1>6, <1>7, <1>8
     DEF Next, Code, User, Rebuild, Scan, Drop, Answer

LEMMA OrderInvAlways ==
  ASSUME ServiceFailures = FALSE
  PROVE  Spec => [](TypeInv /\ LockInv /\ OrderInv)
<1>1. Init => TypeInv /\ LockInv /\ OrderInv
  BY TypeInvInit, LockInvInit, OrderInvInit
<1>2. TypeInv /\ LockInv /\ OrderInv /\ [Next]_vars => (TypeInv /\ LockInv /\ OrderInv)'
  BY TypeInvStep, LockInvStep, OrderInvStep
<1>3. QED
  BY <1>1, <1>2, PTL DEF Spec

(***************************************************************************)
(* When no service fails, every deletion the user confirmed is done when   *)
(* the list is rebuilt and shown again, hidden options or not.             *)
(***************************************************************************)
THEOREM ConfirmedDeletionsDone ==
  ASSUME ServiceFailures = FALSE
  PROVE  Spec => []ConfirmedDeletionDone
<1>1. DeletionInv => ConfirmedDeletionDone
  BY DEF DeletionInv, ConfirmedDeletionDone
<1>2. QED
  BY <1>1, OrderInvAlways, DeletionInvInit, DeletionInvStep, PTL DEF Spec

-----------------------------------------------------------------------------
(***************************************************************************)
(* Two facts about arranging n things.  If every one of them has a place   *)
(* among n places, no place is empty; and if they are in order, nothing    *)
(* has moved.                                                              *)
(***************************************************************************)
LEMMA OnePlaceShort ==
  ASSUME NEW n \in Nat, NEW i \in 1..n, NEW place \in [1..n -> (1..n) \ {i}]
  PROVE  \E k, l \in 1..n : k # l /\ place[k] = place[l]
<1>1. IsFiniteSet(1..n) /\ Cardinality(1..n) \in Nat
  BY FS_Interval, FS_CardinalityType
<1>2. IsFiniteSet((1..n) \ {i}) /\ Cardinality((1..n) \ {i}) = Cardinality(1..n) - 1
  BY <1>1, FS_RemoveElement
<1>3. Cardinality((1..n) \ {i}) < Cardinality(1..n)
  BY <1>1, <1>2
<1>4. QED
  BY <1>1, <1>2, <1>3, FS_PigeonHole

LEMMA NoPlaceEmpty ==
  ASSUME NEW n \in Nat, NEW q \in [1..n -> 0..n]
  PROVE  (\A k \in 1..n : \E i \in 1..n : q[i] = k) => \A i \in 1..n : q[i] # 0
<1>1. ASSUME \A k \in 1..n : \E i \in 1..n : q[i] = k, NEW e \in 1..n, q[e] = 0
      PROVE  FALSE
  <2>1. \E f \in [1..n -> 1..n] : \A k \in 1..n : q[f[k]] = k
    <3> DEFINE f == [k \in 1..n |-> CHOOSE j \in 1..n : q[j] = k]
    <3>1. f \in [1..n -> 1..n] /\ \A k \in 1..n : q[f[k]] = k
      BY <1>1
    <3>2. QED
      BY <3>1
  <2>2. PICK place \in [1..n -> 1..n] : \A k \in 1..n : q[place[k]] = k
    BY <2>1
  <2>3. \A k \in 1..n : place[k] \in (1..n) \ {e}
    <3>1. \A k \in 1..n : k # 0
      OBVIOUS
    <3>2. QED
      BY <1>1, <2>2, <3>1
  <2>4. place \in [1..n -> (1..n) \ {e}]
    BY <2>3
  <2>5. \E k, l \in 1..n : k # l /\ place[k] = place[l]
    BY <2>4, OnePlaceShort
  <2>6. QED
    BY <2>2, <2>5
<1>2. QED
  BY <1>1

LEMMA IntervalCardinality ==
  ASSUME NEW n \in Nat, NEW i \in 1..n
  PROVE  /\ IsFiniteSet(1..i) /\ Cardinality(1..i) = i
         /\ IsFiniteSet(1..(i - 1)) /\ Cardinality(1..(i - 1)) = i - 1
         /\ IsFiniteSet(i..n) /\ Cardinality(i..n) = n - i + 1
         /\ IsFiniteSet((i + 1)..n) /\ Cardinality((i + 1)..n) = n - i
<1>0. i \in Int /\ i - 1 \in Int /\ i + 1 \in Int /\ n \in Int /\ 1 \in Int
  OBVIOUS
<1>1. IsFiniteSet(1..i) /\ Cardinality(1..i) = IF 1 > i THEN 0 ELSE i - 1 + 1
  BY <1>0, FS_Interval
<1>2. IsFiniteSet(1..(i - 1)) /\ Cardinality(1..(i - 1)) = IF 1 > i - 1 THEN 0 ELSE i - 1 - 1 + 1
  BY <1>0, FS_Interval
<1>3. IsFiniteSet(i..n) /\ Cardinality(i..n) = IF i > n THEN 0 ELSE n - i + 1
  BY <1>0, FS_Interval
<1>4. IsFiniteSet((i + 1)..n) /\ Cardinality((i + 1)..n) = IF i + 1 > n THEN 0 ELSE n - (i + 1) + 1
  BY <1>0, FS_Interval
<1>5. QED
  BY <1>1, <1>2, <1>3, <1>4

Increasing(q, n) == \A i, j \in 1..n : i < j => q[i] < q[j]

LEMMA InOrderInPlace ==
  ASSUME NEW n \in Nat, NEW q \in [1..n -> 1..n], Increasing(q, n)
  PROVE  \A i \in 1..n : q[i] = i
<1> SUFFICES ASSUME NEW i \in 1..n, q[i] # i PROVE FALSE
  OBVIOUS
<1>0. i \in Int /\ i - 1 \in Int /\ i + 1 \in Int /\ q[i] \in 1..n
  OBVIOUS
<1>1. ASSUME NEW k \in 1..n, NEW l \in 1..n, k < l
      PROVE  q[k] \in 1..n /\ q[l] \in 1..n /\ q[k] < q[l]
  BY <1>1 DEF Increasing
<1>2. ASSUME NEW k \in 1..n, NEW l \in 1..n, k # l PROVE q[k] # q[l]
  <2>1. k < l \/ l < k
    BY <1>2
  <2>2. QED
    BY <1>1, <2>1
<1>3. CASE q[i] < i
  <2> DEFINE low == [k \in 1..i |-> q[k]]
  <2>1. ASSUME NEW k \in 1..i PROVE q[k] \in 1..(i - 1)
    <3>1. k \in 1..n /\ q[k] \in 1..n /\ (k = i \/ k < i)
      BY <1>0
    <3>2. q[k] < i
      <4>1. CASE k = i
        BY <1>3, <4>1
      <4>2. CASE k < i
        <5>1. q[k] < q[i]
          BY <1>1, <3>1, <4>2
        <5>2. QED
          BY ONLY n \in Nat, <1>0, <1>3, <3>1, <5>1
      <4>3. QED
        BY <3>1, <4>1, <4>2
    <3>3. QED
      BY ONLY <1>0, <3>1, <3>2
  <2>2. low \in [1..i -> 1..(i - 1)]
    BY <2>1
  <2>3. /\ IsFiniteSet(1..i) /\ Cardinality(1..i) = i
        /\ IsFiniteSet(1..(i - 1)) /\ Cardinality(1..(i - 1)) = i - 1
    BY <1>0, IntervalCardinality
  <2>4. \E k, l \in 1..i : k # l /\ low[k] = low[l]
    <3>1. Cardinality(1..(i - 1)) < Cardinality(1..i)
      BY <1>0, <2>3
    <3> HIDE DEF low
    <3>2. QED
      BY <2>2, <2>3, <3>1, FS_PigeonHole
  <2>5. \A k \in 1..i : k \in 1..n
    BY <1>0
  <2>6. QED
    BY <1>2, <2>4, <2>5
<1>4. CASE q[i] > i
  <2> DEFINE high == [k \in i..n |-> q[k]]
  <2>1. ASSUME NEW k \in i..n PROVE q[k] \in (i + 1)..n
    <3>1. k \in 1..n /\ q[k] \in 1..n /\ (k = i \/ i < k)
      BY <1>0
    <3>2. i < q[k]
      <4>1. CASE k = i
        BY <1>4, <4>1
      <4>2. CASE i < k
        <5>1. q[i] < q[k]
          BY <1>1, <3>1, <4>2
        <5>2. QED
          BY ONLY n \in Nat, <1>0, <1>4, <3>1, <5>1
      <4>3. QED
        BY <3>1, <4>1, <4>2
    <3>3. QED
      BY ONLY n \in Nat, <1>0, <3>1, <3>2
  <2>2. high \in [i..n -> (i + 1)..n]
    BY <2>1
  <2>3. /\ IsFiniteSet(i..n) /\ Cardinality(i..n) = n - i + 1
        /\ IsFiniteSet((i + 1)..n) /\ Cardinality((i + 1)..n) = n - i
    BY <1>0, IntervalCardinality
  <2>4. \E k, l \in i..n : k # l /\ high[k] = high[l]
    <3>1. Cardinality((i + 1)..n) < Cardinality(i..n)
      BY <1>0, <2>3
    <3> HIDE DEF high
    <3>2. QED
      BY <2>2, <2>3, <3>1, FS_PigeonHole
  <2>5. \A k \in i..n : k \in 1..n
    BY <1>0
  <2>6. QED
    BY <1>2, <2>4, <2>5
<1>5. QED
  BY <1>0, <1>3, <1>4

(***************************************************************************)
(* The gesture, when no listed option is hidden.  At most one slot r of    *)
(* the list on screen is empty (r = 0: none); if one is, or if a boot is   *)
(* requested, every other slot still holds the option of its position.     *)
(***************************************************************************)
SlotsFit(cfg, r) ==
  /\ \A i \in 1..OptionLimit : cfg[i].num = NoOption <=> i = r
  /\ (r # 0 \/ \E i \in 1..OptionLimit : cfg[i].boot) =>
       \A i \in 1..OptionLimit : i # r => cfg[i].num = menu[i].num
  /\ \A k \in 1..OptionLimit : k # r =>
       \E i \in 1..OptionLimit : i # r /\ cfg[i].num = menu[k].num
  /\ \A i \in 1..OptionLimit : i # r =>
       \E k \in 1..OptionLimit : cfg[i].num = menu[k].num
  /\ r # 0 => Deletable(menu[r].num)

(***************************************************************************)
(* NewBootOrder takes an entry from every position but r, in order.        *)
(***************************************************************************)
Entry(i)   == IF i <= OptionLimit THEN orderConfig[i].num ELSE menu[i].num
Skip(r, j) == IF r # 0 /\ j >= r THEN j + 1 ELSE j

CollectedFrom(r, n) ==
  /\ Len(newOrder) = IF r # 0 /\ r <= n THEN n - 1 ELSE n
  /\ \A j \in 1..Len(newOrder) : newOrder[j] = Entry(Skip(r, j))

GestureInv ==
  ~leftOver =>
    /\ pc \in ScanStates =>
         /\ consent = {}
         /\ idx <= Len(menu) + 1
         /\ \E r \in 0..OptionLimit : SlotsFit(orderConfig, r) /\ CollectedFrom(r, idx - 1)
    /\ pc = "bootDialog" =>
         asked = menu[idx].num /\ orderConfig[idx].boot /\ orderConfig[idx].num # NoOption
    /\ pc \in DropStates \cup {"commit"} =>
         \E r \in 0..OptionLimit :
            /\ SlotsFit(orderConfig, r)
            /\ CollectedFrom(r, Len(menu))
            /\ r = 0 => pc = "commit" /\ consent = {} /\ allowSet
            /\ r # 0 => consent \subseteq {menu[r].num} /\ (allowSet => menu[r].num \in consent)
            /\ pc \in {"deleteDialog", "unlist", "erase"} => idx = r
            /\ pc \in {"unlist", "erase"} => menu[r].num \in consent

(***************************************************************************)
(* What the browser submits for a list without hidden options.             *)
(***************************************************************************)
LEMMA RearrangedFit ==
  ASSUME Hidden = {}, TypeInv, orderConfig = ListFor(menu), NEW c \in Rearranged
  PROVE  /\ c \in [Slots -> Slot]
         /\ \A i \in 1..OptionLimit : c[i].num \in Numbers /\ ~c[i].boot
         /\ \A i \in Slots : i > OptionLimit => c[i].num = NoOption
         /\ \A k \in 1..OptionLimit : \E i \in 1..OptionLimit : c[i].num = menu[k].num
         /\ \A i \in 1..OptionLimit : \E k \in 1..OptionLimit : c[i].num = menu[k].num
         /\ InListOrder(c) => \A i \in 1..OptionLimit : c[i].num = menu[i].num
<1>0. /\ OptionLimit \in Nat /\ \A i \in 1..OptionLimit : i \in Slots /\ menu[i].num \in Numbers
      /\ \A i \in Slots : i > OptionLimit => ~(i <= Len(menu) /\ i <= MaxShown)
      /\ \A i \in 1..OptionLimit : i <= Len(menu) /\ i <= MaxShown
      /\ \A i \in Slots : i \in Nat /\ (i > OptionLimit \/ i \in 1..OptionLimit)
  BY OptionLimitBounds, MenuEntry, ConstantsAssumption DEF Slots, OptionLimit, TypeInv
<1>1. \A i \in 1..OptionLimit :
        /\ orderConfig[i] = [num |-> menu[i].num, checked |-> menu[i].active, boot |-> FALSE]
        /\ orderConfig[i].num = menu[i].num /\ orderConfig[i].boot = FALSE
  BY <1>0 DEF ListFor
<1>2. \A i \in Slots : i > OptionLimit => orderConfig[i].num = NoOption
  BY <1>0 DEF ListFor, EmptySlot
<1>3. Shown = 1..OptionLimit
  <2>1. \A i \in 1..OptionLimit : orderConfig[i].num # NoOption
    BY <1>0, <1>1, ConstantsAssumption
  <2>2. QED
    BY <1>0, <1>2, <2>1 DEF Shown
<1>4. PICK q \in Arrangements :
        c = [i \in Slots |-> IF q[i] = 0 THEN EmptySlot ELSE orderConfig[q[i]]]
  BY DEF Rearranged
<1>5. /\ q \in [Slots -> 0..OptionLimit]
      /\ \A k \in 1..OptionLimit : \E i \in Slots : q[i] = k
      /\ \A i \in Slots : i > OptionLimit => q[i] = 0
  <2>1. 1..OptionLimit \cup {0} = 0..OptionLimit
    BY <1>0
  <2>2. QED
    BY <1>3, <2>1 DEF Arrangements
<1>6. \A k \in 1..OptionLimit : \E i \in 1..OptionLimit : q[i] = k
  <2>1. ASSUME NEW k \in 1..OptionLimit PROVE \E i \in 1..OptionLimit : q[i] = k
    <3>1. PICK i \in Slots : q[i] = k
      BY <1>5
    <3>2. k # 0 /\ i \in Nat \ {0}
      BY <1>0 DEF Slots
    <3>3. i <= OptionLimit
      BY <1>0, <1>5, <3>1, <3>2
    <3>4. QED
      BY <1>0, <3>1, <3>2, <3>3
  <2>2. QED
    BY <2>1
<1> DEFINE p == [i \in 1..OptionLimit |-> q[i]]
<1>7. p \in [1..OptionLimit -> 0..OptionLimit] /\ \A i \in 1..OptionLimit : p[i] = q[i]
  BY <1>0, <1>5
<1> HIDE DEF p
<1>8. \A i \in 1..OptionLimit : p[i] # 0
  <2>1. \A k \in 1..OptionLimit : \E i \in 1..OptionLimit : p[i] = k
    BY <1>6, <1>7
  <2> DEFINE n == OptionLimit
  <2>2. n \in Nat /\ p \in [1..n -> 0..n] /\ \A k \in 1..n : \E i \in 1..n : p[i] = k
    BY <1>0, <1>7, <2>1
  <2> HIDE DEF n
  <2>3. \A i \in 1..n : p[i] # 0
    BY <2>2, NoPlaceEmpty
  <2>4. QED
    BY <2>3 DEF n
<1>9. p \in [1..OptionLimit -> 1..OptionLimit]
  BY <1>0, <1>7, <1>8
<1>10. \A i \in 1..OptionLimit : c[i] = orderConfig[p[i]] /\ c[i].num = menu[p[i]].num
  BY <1>0, <1>1, <1>4, <1>7, <1>8, <1>9
<1>11. c \in [Slots -> Slot]
  <2>1. EmptySlot \in Slot
    BY DEF EmptySlot, Slot
  <2>2. \A i \in Slots : orderConfig[i] \in Slot
    BY DEF TypeInv, TypeOK
  <2>3. \A i \in Slots : q[i] # 0 => q[i] \in Slots
    BY <1>0, <1>5
  <2>4. QED
    BY <1>4, <2>1, <2>2, <2>3
<1>12. \A i \in 1..OptionLimit : c[i].num \in Numbers /\ ~c[i].boot
  BY <1>0, <1>1, <1>9, <1>10
<1>13. \A i \in Slots : i > OptionLimit => c[i].num = NoOption
  BY <1>4, <1>5 DEF EmptySlot
<1>14. \A k \in 1..OptionLimit : \E i \in 1..OptionLimit : c[i].num = menu[k].num
  BY <1>6, <1>7, <1>10
<1>15. ASSUME InListOrder(c) PROVE \A i \in 1..OptionLimit : c[i].num = menu[i].num
  <2>1. ASSUME NEW i \in 1..OptionLimit, NEW j \in 1..OptionLimit, i < j PROVE p[i] < p[j]
    <3>1. p[i] \in Shown /\ p[j] \in Shown /\ i \in Slots /\ j \in Slots
      BY <1>0, <1>3, <1>9
    <3>2. c[i].num = orderConfig[p[i]].num /\ c[j].num = orderConfig[p[j]].num
      BY <1>10
    <3>3. QED
      BY <1>15, <2>1, <3>1, <3>2 DEF InListOrder
  <2>2. \A i \in 1..OptionLimit : p[i] = i
    <3>1. Increasing(p, OptionLimit)
      BY <2>1 DEF Increasing
    <3>2. QED
      BY <1>0, <1>9, <3>1, InOrderInPlace
  <2>3. QED
    BY <1>10, <2>2
<1>16. \A i \in 1..OptionLimit : \E k \in 1..OptionLimit : c[i].num = menu[k].num
  BY <1>9, <1>10
<1>17. QED
  BY <1>11, <1>12, <1>13, <1>14, <1>15, <1>16

LEMMA SubmissionsFit ==
  ASSUME Hidden = {}, TypeInv, orderConfig = ListFor(menu), NEW cfg \in Submissions
  PROVE  \E r \in 0..OptionLimit : SlotsFit(cfg, r)
<1>0. /\ OptionLimit \in Nat /\ \A i \in 1..OptionLimit : i \in Slots /\ i # 0
      /\ \A i \in Slots : i \in Nat /\ (i > OptionLimit \/ i \in 1..OptionLimit)
      /\ 0 \in 0..OptionLimit
  BY OptionLimitBounds, MenuEntry, ConstantsAssumption DEF Slots, TypeInv
<1>1. CASE cfg \in Rearranged
  <2>1. /\ \A i \in 1..OptionLimit : cfg[i].num \in Numbers /\ ~cfg[i].boot
        /\ \A k \in 1..OptionLimit : \E i \in 1..OptionLimit : cfg[i].num = menu[k].num
        /\ \A i \in 1..OptionLimit : \E k \in 1..OptionLimit : cfg[i].num = menu[k].num
    BY <1>1, RearrangedFit
  <2>2. \A i \in 1..OptionLimit : cfg[i].num # NoOption /\ i # 0
    BY <1>0, <2>1, ConstantsAssumption
  <2>3. SlotsFit(cfg, 0)
    BY <2>1, <2>2 DEF SlotsFit
  <2>4. QED
    BY <1>0, <2>3
<1>2. ASSUME NEW b \in Rearranged, InListOrder(b),
             cfg \in Toggled(b) \cup Removed(b) \cup BootRequested(b)
      PROVE  \E r \in 0..OptionLimit : SlotsFit(cfg, r)
  <2>1. /\ b \in [Slots -> Slot]
        /\ \A i \in 1..OptionLimit : b[i].num \in Numbers /\ b[i].num = menu[i].num
        /\ \A i \in Slots : i > OptionLimit => b[i].num = NoOption
    BY <1>2, RearrangedFit
  <2>2. ASSUME \A i \in Slots : cfg[i].num = b[i].num PROVE SlotsFit(cfg, 0)
    <3>1. \A i \in 1..OptionLimit : cfg[i].num # NoOption /\ cfg[i].num = menu[i].num
      BY <1>0, <2>1, <2>2, ConstantsAssumption
    <3>2. QED
      BY <1>0, <3>1 DEF SlotsFit
  <2>3. CASE cfg \in Toggled(b)
    <3>1. PICK i \in Slots : cfg = [b EXCEPT ![i].checked = ~@]
      BY <2>3 DEF Toggled
    <3>2. [b[i] EXCEPT !.checked = ~@].num = b[i].num
      BY <2>1 DEF Slot
    <3>3. cfg = [b EXCEPT ![i] = [b[i] EXCEPT !.checked = ~@]]
      BY <2>1, <3>1
    <3>4. \A k \in Slots : cfg[k].num = b[k].num
      BY <2>1, <3>2, <3>3
    <3>5. QED
      BY <1>0, <2>2, <3>4
  <2>4. CASE cfg \in BootRequested(b)
    <3>1. PICK i \in Slots : cfg = [b EXCEPT ![i].boot = TRUE]
      BY <2>4 DEF BootRequested
    <3>2. [b[i] EXCEPT !.boot = TRUE].num = b[i].num
      BY <2>1 DEF Slot
    <3>3. cfg = [b EXCEPT ![i] = [b[i] EXCEPT !.boot = TRUE]]
      BY <2>1, <3>1
    <3>4. \A k \in Slots : cfg[k].num = b[k].num
      BY <2>1, <3>2, <3>3
    <3>5. QED
      BY <1>0, <2>2, <3>4
  <2>5. CASE cfg \in Removed(b)
    <3>1. PICK r \in Slots :
            b[r].num # NoOption /\ Deletable(b[r].num) /\ cfg = [b EXCEPT ![r] = EmptySlot]
      BY <2>5 DEF Removed
    <3>2. r \in 1..OptionLimit /\ r # 0
      BY <1>0, <2>1, <3>1
    <3>3. /\ cfg[r].num = NoOption
          /\ \A i \in 1..OptionLimit : i # r => cfg[i].num = menu[i].num /\ cfg[i].num # NoOption
      BY <1>0, <2>1, <3>1, <3>2, ConstantsAssumption DEF EmptySlot
    <3>4. Deletable(menu[r].num)
      BY <2>1, <3>1, <3>2
    <3>5. SlotsFit(cfg, r)
      BY <3>2, <3>3, <3>4 DEF SlotsFit
    <3>6. r \in 0..OptionLimit
      BY <1>0, <3>2
    <3>7. QED
      BY <3>5, <3>6
  <2>6. QED
    BY <1>2, <2>3, <2>4, <2>5
<1>3. QED
  BY <1>1, <1>2 DEF Submissions

-----------------------------------------------------------------------------
(***************************************************************************)
(* Steps of a gesture leave the slots alone and the snapshot's numbers; so *)
(* what is said of the slots stays.                                        *)
(***************************************************************************)
SameList ==
  /\ orderConfig' = orderConfig
  /\ Len(menu') = Len(menu)
  /\ \A k \in 1..Len(menu) : menu'[k].num = menu[k].num

LEMMA SameListKeeps ==
  ASSUME TypeInv, SameList
  PROVE  /\ OptionLimit' = OptionLimit
         /\ \A r \in 0..OptionLimit : SlotsFit(orderConfig, r) => SlotsFit(orderConfig, r)'
         /\ \A i \in 1..Len(menu) : Entry(i)' = Entry(i)
<1>0. /\ OptionLimit \in Nat /\ OptionLimit <= Len(menu) /\ Len(menu) \in Nat
      /\ \A i \in 1..OptionLimit : i \in 1..Len(menu)
  BY OptionLimitBounds DEF TypeInv
<1>1. OptionLimit' = OptionLimit
  BY DEF SameList, OptionLimit
<1>2. \A i \in 1..OptionLimit : menu'[i].num = menu[i].num /\ orderConfig'[i] = orderConfig[i]
  BY <1>0 DEF SameList
<1>3. ASSUME NEW r \in 0..OptionLimit, SlotsFit(orderConfig, r)
      PROVE  SlotsFit(orderConfig, r)'
  <2>1. r # 0 => r \in 1..OptionLimit
    BY <1>0
  <2>2. /\ \A i \in 1..OptionLimit : orderConfig'[i].num = NoOption <=> i = r
        /\ (r # 0 \/ \E i \in 1..OptionLimit : orderConfig'[i].boot) =>
             \A i \in 1..OptionLimit : i # r => orderConfig'[i].num = menu'[i].num
        /\ \A k \in 1..OptionLimit : k # r =>
             \E i \in 1..OptionLimit : i # r /\ orderConfig'[i].num = menu'[k].num
    BY <1>2, <1>3 DEF SlotsFit
  <2>4. \A i \in 1..OptionLimit : i # r =>
          \E k \in 1..OptionLimit : orderConfig'[i].num = menu'[k].num
    BY <1>2, <1>3 DEF SlotsFit
  <2>3. r # 0 => Deletable(menu'[r].num)
    BY <1>2, <1>3, <2>1 DEF SlotsFit
  <2>5. QED
    BY <1>1, <2>2, <2>3, <2>4 DEF SlotsFit, Deletable, ServiceOutcomes
<1>4. \A i \in 1..Len(menu) : Entry(i)' = Entry(i)
  BY <1>1 DEF SameList, Entry
<1>5. QED
  BY <1>1, <1>3, <1>4

(***************************************************************************)
(* The entries collected so far stay what they are, and one more may join  *)
(* them.                                                                   *)
(***************************************************************************)
LEMMA CollectedKeeps ==
  ASSUME TypeInv, SameList, newOrder' = newOrder, NEW r \in 0..OptionLimit,
         NEW n \in Nat, n <= Len(menu), CollectedFrom(r, n)
  PROVE  CollectedFrom(r, n)'
<1>0. OptionLimit \in Nat /\ OptionLimit <= Len(menu) /\ Len(menu) \in Nat
  BY OptionLimitBounds DEF TypeInv
<1>1. \A j \in 1..Len(newOrder) : Skip(r, j) \in 1..Len(menu)
  BY <1>0 DEF CollectedFrom, Skip
<1>2. \A i \in 1..Len(menu) : Entry(i)' = Entry(i)
  BY SameListKeeps
<1>3. \A j \in 1..Len(newOrder) : newOrder[j] = Entry(Skip(r, j))'
  <2>1. \A j \in 1..Len(newOrder) : Skip(r, j)' = Skip(r, j)
    BY DEF Skip
  <2>2. QED
    BY <1>1, <1>2, <2>1 DEF CollectedFrom, Entry
<1>4. QED
  BY <1>3 DEF CollectedFrom

LEMMA CollectedMore ==
  ASSUME TypeInv, SameList, NEW r \in 0..OptionLimit, NEW n \in Nat, n + 1 <= Len(menu),
         CollectedFrom(r, n), r # n + 1, Entry(n + 1) \in Numbers,
         newOrder' = Append(newOrder, Entry(n + 1))
  PROVE  CollectedFrom(r, n + 1)'
<1>0. OptionLimit \in Nat /\ OptionLimit <= Len(menu) /\ Len(menu) \in Nat /\ Len(newOrder) \in Nat
  BY OptionLimitBounds DEF TypeInv, TypeOK
<1>1. /\ Len(newOrder') = Len(newOrder) + 1 /\ newOrder'[Len(newOrder) + 1] = Entry(n + 1)
      /\ \A j \in 1..Len(newOrder) : newOrder'[j] = newOrder[j]
  BY AppendProperties DEF TypeInv, TypeOK
<1>2. Len(newOrder) = IF r # 0 /\ r <= n THEN n - 1 ELSE n
  BY DEF CollectedFrom
<1>3. Len(newOrder') = IF r # 0 /\ r <= n + 1 THEN n + 1 - 1 ELSE n + 1
  BY <1>0, <1>1, <1>2
<1>4. Skip(r, Len(newOrder) + 1) = n + 1
  BY <1>0, <1>2 DEF Skip
<1>5. ASSUME NEW j \in 1..Len(newOrder')
      PROVE  /\ newOrder'[j] = Entry(Skip(r, j))
             /\ Skip(r, j) \in 1..Len(menu)
  <2>1. CASE j = Len(newOrder) + 1
    BY <1>0, <1>1, <1>4, <2>1
  <2>2. CASE j # Len(newOrder) + 1
    <3>1. j \in 1..Len(newOrder)
      BY <1>0, <1>1, <2>2
    <3>2. Skip(r, j) \in 1..Len(menu)
      BY <1>0, <1>2, <3>1 DEF Skip
    <3>3. QED
      BY <1>1, <3>1, <3>2 DEF CollectedFrom
  <2>3. QED
    BY <2>1, <2>2
<1>6. \A i \in 1..Len(menu) : Entry(i)' = Entry(i)
  BY SameListKeeps
<1>7. \A j \in 1..Len(newOrder') : newOrder'[j] = Entry(Skip(r, j))'
  BY <1>5, <1>6 DEF Entry, Skip
<1>8. QED
  BY <1>3, <1>7 DEF CollectedFrom

LEMMA ScanSameList ==
  ASSUME TypeInv, Scan
  PROVE  SameList
<1>1. CASE ScanToggled
  <2>1. PICK k \in 1..OptionLimit : menu' = [menu EXCEPT ![k].active = ~@]
    BY <1>1 DEF ScanToggled, Differing
  <2>2. k \in 1..Len(menu) /\ menu[k] \in LoadOption
    BY MenuEntry
  <2>3. /\ [menu[k] EXCEPT !.active = ~@] \in LoadOption
        /\ [menu[k] EXCEPT !.active = ~@].num = menu[k].num
    BY <2>2 DEF LoadOption
  <2>4. menu' = [menu EXCEPT ![k] = [menu[k] EXCEPT !.active = ~@]]
    BY <2>1
  <2>5. Len(menu') = Len(menu) /\ \A l \in 1..Len(menu) : menu'[l].num = menu[l].num
    BY <2>2, <2>3, <2>4, ExceptSeq DEF TypeInv, TypeOK
  <2>6. QED
    BY <1>1, <2>5 DEF SameList, ScanToggled
<1>2. CASE ~ScanToggled
  BY <1>2 DEF Scan, ScanEmpty, ScanBootRequest, ScanOption, ScanBeyondList, ScanDone, SameList
<1>3. QED
  BY <1>1, <1>2

LEMMA GestureInvInit == Init => GestureInv
BY DEF Init, Volatile, GestureInv, ScanStates, DropStates

LEMMA GestureInvScan ==
  ASSUME Hidden = {}, TypeInv, ScreenInv, GestureInv, RouteConfig \/ Scan
  PROVE  GestureInv'
<1> USE DEF nvVars, platVars, routeVars, dialogVars, ScanStates, DropStates
<1> SUFFICES ASSUME ~leftOver' PROVE GestureInv'
  BY DEF GestureInv
<1>a. ~leftOver
  BY DEF RouteConfig, Scan, ScanEmpty, ScanBootRequest, ScanOption, ScanToggled, ScanBeyondList,
     ScanDone
<1> USE <1>a
<1>0. /\ OptionLimit \in Nat /\ OptionLimit <= Len(menu) /\ Len(menu) \in Nat
      /\ idx \in Nat \ {0} /\ idx - 1 \in Nat /\ idx - 1 + 1 = idx
      /\ \A i \in 1..OptionLimit : i \in Slots /\ i \in 1..Len(menu)
  BY OptionLimitBounds, MenuEntry DEF TypeInv, TypeOK
<1>1. CASE RouteConfig
  <2>1. /\ pc = "idle" /\ pc' = "scan" /\ menu' = menu /\ consent' = {} /\ idx' = 1
        /\ newOrder' = <<>> /\ orderConfig' \in Submissions
    BY <1>1 DEF RouteConfig
  <2>2. orderConfig = ListFor(menu)
    BY <2>1 DEF ScreenInv
  <2>3. PICK r \in 0..OptionLimit : SlotsFit(orderConfig', r)
    BY <2>1, <2>2, SubmissionsFit
  <2>4. OptionLimit' = OptionLimit
    BY <2>1 DEF OptionLimit
  <2>5. SlotsFit(orderConfig, r)'
    BY <2>1, <2>3, <2>4 DEF SlotsFit, Deletable, ServiceOutcomes
  <2>6. CollectedFrom(r, idx - 1)'
    <3>1. idx' - 1 = 0 /\ Len(newOrder') = 0
      BY <2>1
    <3>2. QED
      BY <1>0, <3>1 DEF CollectedFrom
  <2>7. idx' <= Len(menu') + 1
    BY <1>0, <2>1
  <2>8. QED
    BY <2>1, <2>4, <2>5, <2>6, <2>7 DEF GestureInv
<1>2. CASE Scan
  <2>1. pc = "scan" /\ consent = {} /\ consent' = {} /\ idx <= Len(menu) + 1
    BY <1>2 DEF Scan, ScanEmpty, ScanBootRequest, ScanOption, ScanToggled, AtOption,
       ScanBeyondList, ScanDone, GestureInv
  <2>2. PICK n \in Nat : idx = n + 1 /\ n <= Len(menu)
    BY <1>0, <2>1
  <2>0. PICK r \in 0..OptionLimit : SlotsFit(orderConfig, r) /\ CollectedFrom(r, n)
    BY <2>1, <2>2 DEF GestureInv
  <2>3. SameList
    BY <1>2, ScanSameList
  <2>4. OptionLimit' = OptionLimit /\ SlotsFit(orderConfig, r)' /\ Len(menu') = Len(menu)
    BY <2>0, <2>3, SameListKeeps DEF SameList
  <2>5. ASSUME pc' = "scan", idx' = idx + 1, idx <= Len(menu), CollectedFrom(r, n + 1)'
        PROVE  GestureInv'
    <3>1. idx' - 1 = n + 1 /\ idx' <= Len(menu') + 1
      BY <1>0, <2>2, <2>4, <2>5
    <3>2. \E s \in 0..OptionLimit' : SlotsFit(orderConfig, s)' /\ CollectedFrom(s, idx - 1)'
      BY <2>4, <2>5, <3>1
    <3>3. QED
      BY <2>1, <2>5, <3>1, <3>2 DEF GestureInv
  <2>6. CASE ScanEmpty
    <3>1. /\ pc' = "scan" /\ idx' = idx + 1 /\ idx \in 1..OptionLimit
          /\ orderConfig[idx].num = NoOption /\ newOrder' = newOrder
      BY <1>0, <2>6 DEF ScanEmpty
    <3>2. r = n + 1
      BY <2>0, <2>2, <3>1 DEF SlotsFit
    <3>3. CollectedFrom(r, n + 1)
      BY <2>0, <3>2 DEF CollectedFrom, Skip
    <3>4. n + 1 \in Nat /\ n + 1 <= Len(menu)
      BY <1>0, <2>2, <3>1
    <3>5. CollectedFrom(r, n + 1)'
      BY <2>3, <3>1, <3>3, <3>4, CollectedKeeps
    <3>6. QED
      BY <2>2, <2>5, <3>1, <3>4, <3>5
  <2>7. CASE ScanOption \/ ScanToggled
    <3>1. /\ pc' = "scan" /\ idx' = idx + 1 /\ idx \in 1..OptionLimit
          /\ orderConfig[idx].num # NoOption /\ newOrder' = Append(newOrder, orderConfig[idx].num)
      BY <1>0, <2>7 DEF ScanOption, ScanToggled, AtOption
    <3>2. r # n + 1
      BY <2>0, <2>2, <3>1 DEF SlotsFit
    <3>3. Entry(n + 1) = orderConfig[idx].num
      BY <2>2, <3>1 DEF Entry
    <3>4. Entry(n + 1) \in Numbers
      BY <3>1, <3>3, MenuEntry DEF Slot
    <3>5. n + 1 <= Len(menu)
      BY <1>0, <2>2, <3>1
    <3>6. CollectedFrom(r, n + 1)'
      BY <2>0, <2>3, <3>1, <3>2, <3>3, <3>4, <3>5, CollectedMore
    <3>7. QED
      BY <2>2, <2>5, <3>1, <3>5, <3>6
  <2>8. CASE ScanBeyondList
    <3>1. /\ pc' = "scan" /\ idx' = idx + 1 /\ OptionLimit < idx /\ idx \in 1..Len(menu)
          /\ newOrder' = Append(newOrder, menu[idx].num)
      BY <1>0, <2>1, <2>8 DEF ScanBeyondList
    <3>2. r # n + 1 /\ n + 1 <= Len(menu)
      BY <1>0, <2>2, <3>1
    <3>3. Entry(n + 1) = menu[idx].num
      BY <1>0, <2>2, <3>1 DEF Entry
    <3>4. menu[idx] \in LoadOption
      BY <3>1, ElementOfSeq DEF TypeInv, TypeOK
    <3>5. Entry(n + 1) \in Numbers
      BY <3>3, <3>4 DEF LoadOption
    <3>6. CollectedFrom(r, n + 1)'
      BY <2>0, <2>3, <3>1, <3>2, <3>3, <3>5, CollectedMore
    <3>7. QED
      BY <2>2, <2>5, <3>1, <3>2, <3>6
  <2>9. CASE ScanBootRequest
    <3>1. /\ pc' = "bootDialog" /\ idx' = idx /\ newOrder' = newOrder /\ menu' = menu
          /\ asked' = menu[idx].num /\ orderConfig[idx].boot /\ orderConfig[idx].num # NoOption
      BY <2>9 DEF ScanBootRequest
    <3>2. CollectedFrom(r, n)'
      BY <2>0, <2>2, <2>3, <3>1, CollectedKeeps
    <3>3. idx' - 1 = n /\ idx' <= Len(menu') + 1
      BY <1>0, <2>1, <2>2, <2>4, <3>1
    <3>4. \E s \in 0..OptionLimit' : SlotsFit(orderConfig, s)' /\ CollectedFrom(s, idx - 1)'
      BY <2>4, <3>2, <3>3
    <3>5. orderConfig' = orderConfig
      BY <2>3 DEF SameList
    <3>6. QED
      BY <2>1, <3>1, <3>3, <3>4, <3>5 DEF GestureInv
  <2>10. CASE ScanDone
    <3>1. /\ idx > Len(menu) /\ pc' = (IF Len(menu) # Len(newOrder) THEN "drop" ELSE "commit")
          /\ allowSet' = (Len(menu) = Len(newOrder)) /\ newOrder' = newOrder /\ menu' = menu
      BY <2>10 DEF ScanDone
    <3>2. n = Len(menu)
      BY <1>0, <2>2, <3>1
    <3>3. CollectedFrom(r, n)'
      BY <2>0, <2>2, <2>3, <3>1, CollectedKeeps
    <3>4. Len(newOrder) = IF r # 0 /\ r <= n THEN n - 1 ELSE n
      BY <2>0 DEF CollectedFrom
    <3>5. IF r = 0 THEN pc' = "commit" /\ allowSet' ELSE pc' = "drop" /\ ~allowSet'
      <4>1. r # 0 => r <= n
        BY <1>0, <3>2
      <4>2. (Len(menu) = Len(newOrder)) <=> r = 0
        BY <1>0, <3>2, <3>4, <4>1
      <4>3. QED
        BY <3>1, <4>2
    <3>6. n = Len(menu') => CollectedFrom(r, Len(menu))'
      BY <3>3
    <3>7. QED
      BY <2>1, <2>4, <3>1, <3>2, <3>5, <3>6 DEF GestureInv
  <2>11. QED
    BY <1>2, <2>6, <2>7, <2>8, <2>9, <2>10 DEF Scan
<1>3. QED
  BY <1>1, <1>2

(***************************************************************************)
(* The deletions ask about one option at most: the one of the empty slot.  *)
(***************************************************************************)
LEMMA KeptEntries ==
  ASSUME TypeInv, NEW r \in 0..OptionLimit, SlotsFit(orderConfig, r),
         CollectedFrom(r, Len(menu)), NEW k \in 1..Len(menu), k # r
  PROVE  Contains(newOrder, menu[k].num)
<1>0. /\ OptionLimit \in Nat /\ OptionLimit <= Len(menu) /\ Len(menu) \in Nat
      /\ DOMAIN newOrder = 1..Len(newOrder) /\ Len(newOrder) \in Nat
  BY OptionLimitBounds DEF TypeInv, TypeOK
<1>1. PICK i \in 1..Len(menu) : i # r /\ Entry(i) = menu[k].num
  <2>1. CASE k \in 1..OptionLimit
    <3>1. PICK i \in 1..OptionLimit : i # r /\ orderConfig[i].num = menu[k].num
      BY <2>1 DEF SlotsFit
    <3>2. Entry(i) = menu[k].num /\ i \in 1..Len(menu)
      BY <1>0, <3>1 DEF Entry
    <3>3. QED
      BY <3>1, <3>2
  <2>2. CASE k \notin 1..OptionLimit
    <3>1. Entry(k) = menu[k].num
      BY <1>0, <2>2 DEF Entry
    <3>2. QED
      BY <3>1
  <2>3. QED
    BY <2>1, <2>2
<1>2. Len(newOrder) = IF r # 0 /\ r <= Len(menu) THEN Len(menu) - 1 ELSE Len(menu)
  BY DEF CollectedFrom
<1>3. PICK j \in 1..Len(newOrder) : Skip(r, j) = i
  <2>1. CASE r # 0 /\ i > r
    <3>1. i - 1 \in 1..Len(newOrder) /\ Skip(r, i - 1) = i
      BY <1>0, <1>2, <2>1 DEF Skip
    <3>2. QED
      BY <3>1
  <2>2. CASE ~(r # 0 /\ i > r)
    <3>1. i \in 1..Len(newOrder) /\ Skip(r, i) = i
      BY <1>0, <1>1, <1>2, <2>2 DEF Skip
    <3>2. QED
      BY <3>1
  <2>3. QED
    BY <2>1, <2>2
<1>4. newOrder[j] = menu[k].num
  BY <1>1, <1>3 DEF CollectedFrom
<1>5. QED
  BY <1>0, <1>4 DEF Contains

LEMMA GestureInvDrop ==
  ASSUME TypeInv, GestureInv, Drop \/ DeleteConfirmed \/ DeleteDeclined
  PROVE  GestureInv'
<1> USE DEF nvVars, platVars, routeVars, dialogVars, ScanStates, DropStates
<1> SUFFICES ASSUME ~leftOver' PROVE GestureInv'
  BY DEF GestureInv
<1>a. ~leftOver
  BY DEF Drop, DropKept, DropAsk, DropDone, Unlist, EraseOption, DeleteConfirmed, DeleteDeclined
<1> USE <1>a
<1>0. /\ OptionLimit \in Nat /\ OptionLimit <= Len(menu) /\ Len(menu) \in Nat
      /\ idx \in Nat \ {0}
  BY OptionLimitBounds DEF TypeInv, TypeOK
<1>1. pc \in DropStates /\ UNCHANGED <<menu, orderConfig, newOrder>>
  BY DEF Drop, DropKept, DropAsk, DropDone, Unlist, EraseOption, DeleteConfirmed, DeleteDeclined
<1>2. PICK r \in 0..OptionLimit :
        /\ SlotsFit(orderConfig, r)
        /\ CollectedFrom(r, Len(menu))
        /\ r # 0
        /\ consent \subseteq {menu[r].num} /\ (allowSet => menu[r].num \in consent)
        /\ pc \in {"deleteDialog", "unlist", "erase"} => idx = r
        /\ pc \in {"unlist", "erase"} => menu[r].num \in consent
  BY <1>1 DEF GestureInv
<1>3. /\ OptionLimit' = OptionLimit /\ SlotsFit(orderConfig, r)'
      /\ CollectedFrom(r, Len(menu))'
  BY <1>1, <1>2 DEF OptionLimit, SlotsFit, CollectedFrom, Entry, Skip, Deletable, ServiceOutcomes
<1>4. ASSUME pc' \in DropStates \cup {"commit"},
             consent' \subseteq {menu[r].num},
             allowSet' => menu[r].num \in consent',
             pc' \in {"deleteDialog", "unlist", "erase"} => idx' = r,
             pc' \in {"unlist", "erase"} => menu[r].num \in consent'
      PROVE  GestureInv'
  <2>1. pc' \notin ScanStates /\ pc' # "bootDialog"
    BY <1>4
  <2>2. QED
    BY <1>1, <1>2, <1>3, <1>4, <2>1 DEF GestureInv
<1>5. CASE DropKept \/ DropDone \/ DeleteDeclined \/ EraseOption
  BY <1>2, <1>4, <1>5 DEF DropKept, DropDone, DeleteDeclined, EraseOption
<1>6. CASE DropAsk
  <2>1. /\ idx \in 1..Len(menu) /\ ~Contains(newOrder, menu[idx].num)
        /\ pc' = "deleteDialog" /\ idx' = idx /\ UNCHANGED <<consent, allowSet>>
    BY <1>0, <1>6 DEF DropAsk
  <2>2. idx = r
    BY <1>2, <2>1, KeptEntries
  <2>3. QED
    BY <1>2, <1>4, <2>1, <2>2
<1>7. CASE DeleteConfirmed
  BY <1>2, <1>4, <1>7 DEF DeleteConfirmed
<1>8. CASE Unlist
  BY <1>2, <1>4, <1>8 DEF Unlist
<1>9. QED
  BY <1>5, <1>6, <1>7, <1>8 DEF Drop

LEMMA GestureInvStep ==
  ASSUME Hidden = {}
  PROVE  TypeInv /\ ScreenInv /\ GestureInv /\ [Next]_vars => GestureInv'
<1> SUFFICES ASSUME TypeInv, ScreenInv, GestureInv, [Next]_vars PROVE GestureInv'
  OBVIOUS
<1> USE DEF nvVars, platVars, routeVars, dialogVars
<1>1. CASE UNCHANGED vars
  <2>1. UNCHANGED <<menu, orderConfig, newOrder, pc, idx, allowSet, asked, consent, leftOver>>
    BY <1>1 DEF vars
  <2>2. OptionLimit' = OptionLimit
    BY <2>1 DEF OptionLimit
  <2>3. \A r \in 0..OptionLimit :
          /\ SlotsFit(orderConfig, r)' <=> SlotsFit(orderConfig, r)
          /\ CollectedFrom(r, idx - 1)' <=> CollectedFrom(r, idx - 1)
          /\ CollectedFrom(r, Len(menu))' <=> CollectedFrom(r, Len(menu))
    BY <2>1, <2>2 DEF SlotsFit, CollectedFrom, Entry, Skip, Deletable, ServiceOutcomes
  <2>4. QED
    BY <2>1, <2>2, <2>3 DEF GestureInv
<1>2. CASE RouteConfig \/ Scan
  BY <1>2, GestureInvScan
<1>3. CASE Drop \/ DeleteConfirmed \/ DeleteDeclined
  BY <1>3, GestureInvDrop
<1>4. CASE \/ FormOpen \/ Rebuild \/ RouteConfigGivesUp \/ SetLockSetting \/ BootConfirmed
           \/ BootDeclined \/ Commit \/ StartBoot \/ Lock \/ BootReturned \/ Reset
  <2>1. pc' \notin ScanStates \cup DropStates \cup {"commit"}
    BY <1>4 DEF ScanStates, DropStates, FormOpen, StartRebuild, Rebuild, LoadPresent,
       PruneDangling, FillList, RouteConfigGivesUp, SetLockSetting, BootConfirmed, BootDeclined, Commit, StartBoot,
       Lock, LockSkipped, LockBootOrder, DeleteBootNext, LockBootNext, LockOptions, BootReturned,
       Reset
  <2>2. QED
    BY <2>1 DEF GestureInv, ScanStates
<1>5. QED
  BY <1>1, <1>2, <1>3, <1>4 DEF Next, Code, User, Answer

LEMMA GestureInvAlways ==
  ASSUME Hidden = {}
  PROVE  Spec => [](TypeInv /\ ScreenInv /\ GestureInv)
<1>1. Init => TypeInv /\ ScreenInv /\ GestureInv
  BY TypeInvInit, ScreenInvInit, GestureInvInit
<1>2. TypeInv /\ ScreenInv /\ GestureInv /\ [Next]_vars => (TypeInv /\ ScreenInv /\ GestureInv)'
  BY TypeInvStep, ScreenInvStep, GestureInvStep
<1>3. QED
  BY <1>1, <1>2, PTL DEF Spec

(***************************************************************************)
(* When no listed option is hidden, the boot dialog describes the option   *)
(* that BootNext will name, whatever fails, unless the list holds a        *)
(* gesture left over: a boot is requested only from a list whose entries   *)
(* are all in place.                                                       *)
(***************************************************************************)
THEOREM DialogTellsTruth ==
  ASSUME Hidden = {}
  PROVE  Spec => [](~leftOver => DialogNamesTarget)
<1>1. TypeInv /\ ScreenInv /\ GestureInv => (~leftOver => DialogNamesTarget)
  <2> SUFFICES ASSUME TypeInv, GestureInv, ~leftOver, pc = "bootDialog"
               PROVE  asked = orderConfig[idx].num
    BY DEF DialogNamesTarget
  <2>1. /\ asked = menu[idx].num /\ orderConfig[idx].boot
        /\ \E r \in 0..OptionLimit : SlotsFit(orderConfig, r)
    BY DEF GestureInv, ScanStates
  <2>2. idx \in 1..OptionLimit
    BY OptionLimitBounds DEF TypeInv, TypeOK, IndexedStates
  <2>3. orderConfig[idx].num # NoOption
    BY DEF GestureInv
  <2>4. QED
    BY <2>1, <2>2, <2>3 DEF SlotsFit
<1>2. QED
  BY <1>1, GestureInvAlways, PTL

-----------------------------------------------------------------------------
(***************************************************************************)
(* A gesture on top of one left over.  Several slots may be empty then,    *)
(* but the rest still hold different places of the snapshot; so when       *)
(* NewBootOrder is as long as the snapshot no slot is empty, none of the   *)
(* places is missing, and nothing is lost unless a deletion was confirmed. *)
(***************************************************************************)
Placed(cfg, place) ==
  /\ \A i \in Slots : cfg[i].num # NoOption =>
       place[i] # 0 /\ menu[place[i]].num = cfg[i].num
  /\ \A i, j \in Slots : place[i] = place[j] /\ place[i] # 0 => i = j

Spread(cfg) == \E place \in [Slots -> 0..OptionLimit] : Placed(cfg, place)

Gathered(n) ==
  /\ Len(newOrder) <= n
  /\ \A i \in 1..n : /\ Len(newOrder) = n => Entry(i) # NoOption
                     /\ Entry(i) # NoOption => Contains(newOrder, Entry(i))

AllKept == \A k \in 1..Len(menu) : Contains(newOrder, menu[k].num)

SpreadInv ==
  /\ pc \in SnapshotStates => Spread(orderConfig)
  /\ pc \in ScanStates => idx <= Len(menu) + 1 /\ Gathered(idx - 1)
  /\ pc \in DropStates \cup {"commit"} => (allowSet => consent # {} \/ AllKept)
  /\ pc \in {"unlist", "erase"} => menu[idx].num \in consent

LEMMA SubmissionsNumbers ==
  ASSUME orderConfig \in [Slots -> Slot], NEW cfg \in Submissions
  PROVE  \E b \in Rearranged : \A i \in Slots : cfg[i].num \in {b[i].num, NoOption}
<1>0. EmptySlot \in Slot /\ EmptySlot.num = NoOption
  BY DEF EmptySlot, Slot
<1>1. Rearranged \subseteq [Slots -> Slot]
  BY SubmissionsType DEF Submissions
<1>2. CASE cfg \in Rearranged
  BY <1>2
<1>3. CASE cfg \notin Rearranged
  <2>1. PICK b \in Rearranged : cfg \in Toggled(b) \cup Removed(b) \cup BootRequested(b)
    BY <1>3 DEF Submissions
  <2>2. b \in [Slots -> Slot]
    BY <1>1
  <2>3. CASE cfg \in Toggled(b)
    <3>1. PICK i \in Slots : cfg = [b EXCEPT ![i].checked = ~@]
      BY <2>3 DEF Toggled
    <3>2. [b[i] EXCEPT !.checked = ~@].num = b[i].num
      BY <2>2 DEF Slot
    <3>3. cfg = [b EXCEPT ![i] = [b[i] EXCEPT !.checked = ~@]]
      BY <2>2, <3>1
    <3>4. QED
      BY <2>2, <3>2, <3>3
  <2>4. CASE cfg \in Removed(b)
    <3>1. PICK i \in Slots : cfg = [b EXCEPT ![i] = EmptySlot]
      BY <2>4 DEF Removed
    <3>2. QED
      BY <1>0, <2>2, <3>1
  <2>5. CASE cfg \in BootRequested(b)
    <3>1. PICK i \in Slots : cfg = [b EXCEPT ![i].boot = TRUE]
      BY <2>5 DEF BootRequested
    <3>2. [b[i] EXCEPT !.boot = TRUE].num = b[i].num
      BY <2>2 DEF Slot
    <3>3. cfg = [b EXCEPT ![i] = [b[i] EXCEPT !.boot = TRUE]]
      BY <2>2, <3>1
    <3>4. QED
      BY <2>2, <3>2, <3>3
  <2>6. QED
    BY <2>1, <2>3, <2>4, <2>5
<1>4. QED
  BY <1>2, <1>3

LEMMA SubmissionsSpread ==
  ASSUME TypeInv, Spread(orderConfig), NEW cfg \in Submissions
  PROVE  Spread(cfg)
<1>1. PICK place \in [Slots -> 0..OptionLimit] : Placed(orderConfig, place)
  BY DEF Spread
<1>2. PICK b \in Rearranged : \A i \in Slots : cfg[i].num \in {b[i].num, NoOption}
  BY SubmissionsNumbers DEF TypeInv, TypeOK
<1>3. PICK q \in Arrangements :
        b = [i \in Slots |-> IF q[i] = 0 THEN EmptySlot ELSE orderConfig[q[i]]]
  BY DEF Rearranged
<1>4. /\ q \in [Slots -> Shown \cup {0}]
      /\ \A i, j \in Slots : (q[i] = q[j] /\ q[i] # 0) => i = j
  BY DEF Arrangements
<1>5. \A i \in Slots : q[i] # 0 => q[i] \in Slots
  BY <1>4 DEF Shown
<1>6. 0 \in 0..OptionLimit
  BY OptionLimitBounds DEF TypeInv
<1> DEFINE moved == [i \in Slots |-> IF q[i] = 0 THEN 0 ELSE place[q[i]]]
<1>7. moved \in [Slots -> 0..OptionLimit]
  BY <1>5, <1>6
<1>8. ASSUME NEW i \in Slots, cfg[i].num # NoOption
      PROVE  moved[i] # 0 /\ menu[moved[i]].num = cfg[i].num
  <2>1. cfg[i].num = b[i].num
    BY <1>2, <1>8
  <2>2. q[i] # 0
    <3>1. EmptySlot.num = NoOption
      BY DEF EmptySlot
    <3>2. QED
      BY <1>3, <1>8, <2>1, <3>1
  <2>3. b[i] = orderConfig[q[i]] /\ q[i] \in Slots /\ moved[i] = place[q[i]]
    BY <1>3, <1>5, <2>2
  <2>4. QED
    BY <1>1, <1>8, <2>1, <2>3 DEF Placed
<1>9. ASSUME NEW i \in Slots, NEW j \in Slots, moved[i] = moved[j], moved[i] # 0
      PROVE  i = j
  <2>1. q[i] # 0 /\ q[j] # 0 /\ place[q[i]] = place[q[j]] /\ place[q[i]] # 0
    BY <1>9
  <2>2. q[i] = q[j]
    BY <1>1, <1>5, <2>1 DEF Placed
  <2>3. QED
    BY <1>4, <2>1, <2>2
<1>10. Placed(cfg, moved)
  BY <1>8, <1>9 DEF Placed
<1>11. QED
  BY <1>7, <1>10 DEF Spread

LEMMA ListSpread ==
  ASSUME TypeInv
  PROVE  Spread(ListFor(menu))
<1>0. OptionLimit \in Nat /\ Len(menu) \in Nat /\ MaxShown \in Nat
  BY OptionLimitBounds, ConstantsAssumption DEF TypeInv
<1> DEFINE place == [i \in Slots |-> IF i <= OptionLimit THEN i ELSE 0]
<1>1. place \in [Slots -> 0..OptionLimit]
  BY <1>0 DEF Slots
<1>2. EmptySlot.num = NoOption
  BY DEF EmptySlot
<1>3. ASSUME NEW i \in Slots, ListFor(menu)[i].num # NoOption
      PROVE  place[i] # 0 /\ menu[place[i]].num = ListFor(menu)[i].num
  <2>1. i <= Len(menu) /\ i <= MaxShown /\ ListFor(menu)[i].num = menu[i].num
    BY <1>2, <1>3 DEF ListFor
  <2>2. i <= OptionLimit /\ i # 0
    BY <2>1 DEF OptionLimit, Slots
  <2>3. QED
    BY <2>1, <2>2
<1>4. Placed(ListFor(menu), place)
  BY <1>3 DEF Placed
<1>5. QED
  BY <1>1, <1>4 DEF Spread

LEMMA SpreadKeeps ==
  ASSUME TypeInv, SameList, Spread(orderConfig)
  PROVE  Spread(orderConfig)'
<1>1. PICK place \in [Slots -> 0..OptionLimit] : Placed(orderConfig, place)
  BY DEF Spread
<1>2. OptionLimit' = OptionLimit
  BY SameListKeeps
<1>3. \A k \in 1..OptionLimit : menu'[k].num = menu[k].num
  BY OptionLimitBounds DEF SameList, TypeInv
<1>4. \A i \in Slots : place[i] # 0 => menu'[place[i]].num = menu[place[i]].num
  BY <1>3, OptionLimitBounds DEF TypeInv
<1>5. Placed(orderConfig, place)'
  BY <1>1, <1>4 DEF Placed, SameList
<1>6. QED
  BY <1>2, <1>5 DEF Spread

LEMMA GatheredKeeps ==
  ASSUME TypeInv, SameList, newOrder' = newOrder, NEW n \in Nat, n <= Len(menu), Gathered(n)
  PROVE  Gathered(n)'
<1>1. \A i \in 1..n : Entry(i)' = Entry(i)
  BY SameListKeeps DEF TypeInv, TypeOK
<1>2. QED
  BY <1>1 DEF Gathered, Contains

LEMMA GatheredMore ==
  ASSUME TypeInv, SameList, NEW n \in Nat, n + 1 <= Len(menu), Gathered(n),
         Entry(n + 1) \in Numbers, newOrder' = Append(newOrder, Entry(n + 1))
  PROVE  Gathered(n + 1)'
<1>0. Len(newOrder) \in Nat /\ Len(menu) \in Nat
  BY DEF TypeInv, TypeOK
<1>1. /\ Len(newOrder') = Len(newOrder) + 1 /\ newOrder'[Len(newOrder) + 1] = Entry(n + 1)
      /\ \A j \in 1..Len(newOrder) : newOrder'[j] = newOrder[j]
      /\ DOMAIN newOrder' = 1..(Len(newOrder) + 1) /\ DOMAIN newOrder = 1..Len(newOrder)
  BY AppendProperties DEF TypeInv, TypeOK
<1>2. \A i \in 1..(n + 1) : Entry(i)' = Entry(i)
  BY <1>0, SameListKeeps
<1>3. \A m : Contains(newOrder, m) => Contains(newOrder', m)
  BY <1>0, <1>1 DEF Contains
<1>4. Contains(newOrder', Entry(n + 1))
  BY <1>0, <1>1 DEF Contains
<1>5. Entry(n + 1) # NoOption
  BY ConstantsAssumption
<1>6. ASSUME NEW i \in 1..(n + 1)
      PROVE  /\ Len(newOrder') = n + 1 => Entry(i) # NoOption
             /\ Entry(i) # NoOption => Contains(newOrder', Entry(i))
  <2>1. CASE i = n + 1
    BY <1>4, <1>5, <2>1
  <2>2. CASE i # n + 1
    <3>1. i \in 1..n
      BY <2>2
    <3>2. /\ Len(newOrder) = n => Entry(i) # NoOption
          /\ Entry(i) # NoOption => Contains(newOrder, Entry(i))
      BY <3>1 DEF Gathered
    <3>3. Len(newOrder') = n + 1 => Len(newOrder) = n
      <4>1. Len(newOrder') = Len(newOrder) + 1
        BY <1>1
      <4>2. QED
        BY <1>0, <4>1
    <3>4. QED
      BY <1>3, <3>2, <3>3
  <2>3. QED
    BY <2>1, <2>2
<1>7. Len(newOrder') <= n + 1
  <2>1. Len(newOrder) <= n
    BY DEF Gathered
  <2>2. QED
    BY <1>0, <1>1, <2>1
<1>8. \A i \in 1..(n + 1) : /\ Len(newOrder') = n + 1 => Entry(i)' # NoOption
                            /\ Entry(i)' # NoOption => Contains(newOrder', Entry(i)')
  BY <1>2, <1>6
<1>9. QED
  BY <1>7, <1>8 DEF Gathered

(***************************************************************************)
(* The pigeonhole: with no slot of the list empty, the places they hold    *)
(* are all the places there are.                                           *)
(***************************************************************************)
LEMMA FullMeansKept ==
  ASSUME TypeInv, Spread(orderConfig), Gathered(Len(menu)), Len(newOrder) = Len(menu)
  PROVE  AllKept
<1>0. /\ OptionLimit \in Nat /\ OptionLimit <= Len(menu) /\ Len(menu) \in Nat
      /\ \A i \in 1..OptionLimit : i \in Slots /\ i \in 1..Len(menu)
  BY OptionLimitBounds, MenuEntry DEF TypeInv
<1>1. PICK place \in [Slots -> 0..OptionLimit] : Placed(orderConfig, place)
  BY DEF Spread
<1>2. \A i \in 1..OptionLimit :
        /\ orderConfig[i].num # NoOption
        /\ Contains(newOrder, orderConfig[i].num)
  BY <1>0 DEF Gathered, Entry
<1>3. \A i \in 1..OptionLimit :
        place[i] \in 1..OptionLimit /\ menu[place[i]].num = orderConfig[i].num
  BY <1>0, <1>1, <1>2 DEF Placed
<1>4. ASSUME NEW k \in 1..OptionLimit PROVE \E i \in 1..OptionLimit : place[i] = k
  <2> SUFFICES ASSUME \A i \in 1..OptionLimit : place[i] # k PROVE FALSE
    OBVIOUS
  <2> DEFINE squeezed == [i \in 1..OptionLimit |-> place[i]]
  <2>1. squeezed \in [1..OptionLimit -> (1..OptionLimit) \ {k}]
    BY <1>3
  <2>2. \E i, j \in 1..OptionLimit : i # j /\ squeezed[i] = squeezed[j]
    <3> HIDE DEF squeezed
    <3>1. QED
      BY <1>0, <2>1, OnePlaceShort
  <2>3. PICK i \in 1..OptionLimit, j \in 1..OptionLimit : i # j /\ place[i] = place[j]
    BY <2>2
  <2>4. i \in Slots /\ j \in Slots /\ place[i] # 0
    BY <1>0, <1>3
  <2>5. QED
    BY <1>1, <2>3, <2>4 DEF Placed
<1>5. ASSUME NEW k \in 1..Len(menu) PROVE Contains(newOrder, menu[k].num)
  <2>1. CASE k \in 1..OptionLimit
    <3>1. PICK i \in 1..OptionLimit : place[i] = k
      BY <1>4, <2>1
    <3>2. orderConfig[i].num = menu[k].num /\ Contains(newOrder, orderConfig[i].num)
      BY <1>2, <1>3, <3>1
    <3>3. QED
      BY <3>2
  <2>2. CASE k \notin 1..OptionLimit
    <3>1. Entry(k) = menu[k].num
      BY <1>0, <2>2 DEF Entry
    <3>2. QED
      BY <3>1 DEF Gathered
  <2>3. QED
    BY <2>1, <2>2
<1>6. QED
  BY <1>5 DEF AllKept

LEMMA SpreadInvScan ==
  ASSUME TypeInv, SpreadInv, Scan
  PROVE  SpreadInv'
<1> USE DEF nvVars, platVars, routeVars, dialogVars, SnapshotStates, ScanStates, DropStates
<1>0. /\ OptionLimit \in Nat /\ OptionLimit <= Len(menu) /\ Len(menu) \in Nat
      /\ idx \in Nat \ {0} /\ \A i \in 1..OptionLimit : i \in Slots /\ i \in 1..Len(menu)
      /\ Len(newOrder) \in Nat
  BY OptionLimitBounds, MenuEntry DEF TypeInv, TypeOK
<1>1. pc = "scan" /\ idx <= Len(menu) + 1 /\ Spread(orderConfig)
  BY DEF Scan, ScanEmpty, ScanBootRequest, ScanOption, ScanToggled, AtOption, ScanBeyondList,
     ScanDone, SpreadInv
<1>2. PICK n \in Nat : idx = n + 1 /\ n <= Len(menu)
  BY <1>0, <1>1
<1>3. Gathered(n)
  BY <1>1, <1>2 DEF SpreadInv
<1>4. SameList /\ Len(menu') = Len(menu)
  BY ScanSameList DEF SameList
<1>5. Spread(orderConfig)'
  BY <1>1, <1>4, SpreadKeeps
<1>6. ASSUME pc' = "scan", idx' = idx + 1, n + 1 <= Len(menu), Gathered(n + 1)'
      PROVE  SpreadInv'
  <2>1. idx' <= Len(menu') + 1 /\ idx' - 1 = n + 1
    BY <1>0, <1>2, <1>4, <1>6
  <2>2. QED
    BY <1>5, <1>6, <2>1 DEF SpreadInv
<1>7. CASE ScanEmpty
  <2>1. /\ pc' = "scan" /\ idx' = idx + 1 /\ idx \in 1..OptionLimit
        /\ orderConfig[idx].num = NoOption /\ newOrder' = newOrder
    BY <1>0, <1>7 DEF ScanEmpty
  <2>2. Entry(n + 1) = NoOption /\ n + 1 <= Len(menu)
    BY <1>0, <1>2, <2>1 DEF Entry
  <2>3. Gathered(n + 1)
    <3>1. Len(newOrder) <= n + 1 /\ Len(newOrder) # n + 1
      BY <1>0, <1>3 DEF Gathered
    <3>2. ASSUME NEW i \in 1..(n + 1), Entry(i) # NoOption PROVE Contains(newOrder, Entry(i))
      <4>1. i \in 1..n
        BY <2>2, <3>2
      <4>2. QED
        BY <1>3, <3>2, <4>1 DEF Gathered
    <3>3. QED
      BY <3>1, <3>2 DEF Gathered
  <2>4. Gathered(n + 1)'
    BY <1>4, <2>1, <2>2, <2>3, GatheredKeeps
  <2>5. QED
    BY <1>6, <2>1, <2>2, <2>4
<1>8. CASE ScanOption \/ ScanToggled
  <2>1. /\ pc' = "scan" /\ idx' = idx + 1 /\ idx \in 1..OptionLimit
        /\ orderConfig[idx].num # NoOption /\ newOrder' = Append(newOrder, orderConfig[idx].num)
    BY <1>0, <1>8 DEF ScanOption, ScanToggled, AtOption
  <2>2. Entry(n + 1) = orderConfig[idx].num /\ n + 1 <= Len(menu)
    BY <1>0, <1>2, <2>1 DEF Entry
  <2>3. Entry(n + 1) \in Numbers
    BY <2>1, <2>2, MenuEntry DEF Slot
  <2>4. Gathered(n + 1)'
    BY <1>3, <1>4, <2>1, <2>2, <2>3, GatheredMore
  <2>5. QED
    BY <1>6, <2>1, <2>2, <2>4
<1>9. CASE ScanBeyondList
  <2>1. /\ pc' = "scan" /\ idx' = idx + 1 /\ OptionLimit < idx /\ idx \in 1..Len(menu)
        /\ newOrder' = Append(newOrder, menu[idx].num)
    BY <1>0, <1>9 DEF ScanBeyondList
  <2>2. Entry(n + 1) = menu[idx].num /\ n + 1 <= Len(menu)
    BY <1>0, <1>2, <2>1 DEF Entry
  <2>3. menu[idx] \in LoadOption
    BY <2>1, ElementOfSeq DEF TypeInv, TypeOK
  <2>4. Entry(n + 1) \in Numbers
    BY <2>2, <2>3 DEF LoadOption
  <2>5. Gathered(n + 1)'
    BY <1>3, <1>4, <2>1, <2>2, <2>4, GatheredMore
  <2>6. QED
    BY <1>6, <2>1, <2>2, <2>5
<1>10. CASE ScanBootRequest
  <2>1. pc' = "bootDialog" /\ idx' = idx /\ newOrder' = newOrder
    BY <1>10 DEF ScanBootRequest
  <2>2. Gathered(n)'
    BY <1>2, <1>3, <1>4, <2>1, GatheredKeeps
  <2>3. idx' - 1 = n /\ idx' <= Len(menu') + 1
    BY <1>0, <1>1, <1>2, <1>4, <2>1
  <2>4. QED
    BY <1>5, <2>1, <2>2, <2>3 DEF SpreadInv
<1>11. CASE ScanDone
  <2>1. /\ idx > Len(menu) /\ pc' \in {"drop", "commit"} /\ newOrder' = newOrder /\ menu' = menu
        /\ allowSet' = (Len(menu) = Len(newOrder))
    BY <1>11 DEF ScanDone
  <2>2. n = Len(menu)
    BY <1>0, <1>2, <2>1
  <2>3. Gathered(Len(menu))
    BY <1>3, <2>2
  <2>4. allowSet' => AllKept
    BY <1>1, <2>1, <2>3, FullMeansKept
  <2>5. AllKept' <=> AllKept
    BY <2>1 DEF AllKept
  <2>6. QED
    BY <2>1, <2>4, <2>5 DEF SpreadInv
<1>12. QED
  BY <1>7, <1>8, <1>9, <1>10, <1>11 DEF Scan

LEMMA SpreadInvStep == TypeInv /\ SpreadInv /\ [Next]_vars => SpreadInv'
<1> SUFFICES ASSUME TypeInv, SpreadInv, [Next]_vars PROVE SpreadInv'
  OBVIOUS
<1> USE DEF nvVars, platVars, routeVars, dialogVars, SnapshotStates, ScanStates, DropStates
<1>1. CASE UNCHANGED vars
  <2>1. UNCHANGED <<menu, orderConfig, newOrder, pc, idx, allowSet, consent>>
    BY <1>1 DEF vars
  <2>2. SameList
    BY <2>1 DEF SameList
  <2>3. pc \in SnapshotStates => Spread(orderConfig)'
    BY <2>2, SpreadKeeps DEF SpreadInv
  <2>4. (Gathered(idx - 1)' <=> Gathered(idx - 1)) /\ (AllKept' <=> AllKept)
    BY <2>1 DEF Gathered, Entry, Contains, AllKept, OptionLimit
  <2>5. QED
    BY <2>1, <2>3, <2>4 DEF SpreadInv
<1>2. CASE RouteConfig \/ RouteConfigGivesUp
  <2>1. /\ pc = "idle" /\ menu' = menu /\ orderConfig' \in {orderConfig} \cup Submissions
        /\ pc' \in {"idle", "scan"}
        /\ pc' = "scan" => idx' = 1 /\ newOrder' = <<>>
    BY <1>2 DEF RouteConfig, RouteConfigGivesUp
  <2>2. Spread(orderConfig)
    BY <2>1 DEF SpreadInv
  <2>3. Spread(orderConfig')
    BY <2>1, <2>2, SubmissionsSpread
  <2>4. Spread(orderConfig)'
    BY <2>1, <2>3 DEF Spread, Placed, OptionLimit
  <2>5. pc' = "scan" => idx' <= Len(menu') + 1 /\ Gathered(idx - 1)'
    <3>1. SUFFICES ASSUME pc' = "scan" PROVE idx' <= Len(menu') + 1 /\ Gathered(idx - 1)'
      OBVIOUS
    <3>2. Len(menu') \in Nat /\ idx' - 1 = 0 /\ Len(newOrder') = 0 /\ 1..0 = {}
      BY <2>1, <3>1 DEF TypeInv, TypeOK
    <3>3. QED
      BY <2>1, <3>1, <3>2 DEF Gathered
  <2>6. QED
    BY <2>1, <2>4, <2>5 DEF SpreadInv
<1>3. CASE Scan
  BY <1>3, SpreadInvScan
<1>4. CASE FillList
  <2>1. pc' = "idle" /\ menu' = menu /\ orderConfig' = ListFor(menu)
    BY <1>4 DEF FillList
  <2>2. Spread(ListFor(menu))
    BY ListSpread
  <2>3. Spread(orderConfig)'
    BY <2>1, <2>2 DEF Spread, Placed, OptionLimit
  <2>4. QED
    BY <2>1, <2>3 DEF SpreadInv
<1>5. CASE SetLockSetting
  <2>1. pc = "idle" /\ UNCHANGED <<menu, orderConfig, pc>>
    BY <1>5 DEF SetLockSetting
  <2>2. Spread(orderConfig)'
    BY <2>1 DEF SpreadInv, Spread, Placed, OptionLimit
  <2>3. QED
    BY <2>1, <2>2 DEF SpreadInv
<1>6. CASE Drop \/ DeleteConfirmed \/ DeleteDeclined
  <2>1. /\ pc \in DropStates /\ pc' \in DropStates \cup {"commit"}
        /\ menu' = menu /\ newOrder' = newOrder
        /\ \/ allowSet' = allowSet /\ consent' = consent
           \/ consent' # {}
        /\ pc' \in {"unlist", "erase"} => menu'[idx'].num \in consent'
    BY <1>6 DEF SpreadInv, Drop, DropKept, DropAsk, DropDone, Unlist, EraseOption, DeleteConfirmed,
       DeleteDeclined
  <2>2. AllKept' <=> AllKept
    BY <2>1 DEF AllKept
  <2>3. QED
    BY <2>1, <2>2 DEF SpreadInv
<1>7. CASE \/ FormOpen \/ LoadPresent \/ PruneDangling \/ BootConfirmed \/ BootDeclined \/ Commit
           \/ StartBoot \/ Lock \/ BootReturned \/ Reset
  <2>1. pc' \notin SnapshotStates \cup DropStates \cup {"commit"}
    BY <1>7 DEF FormOpen, StartRebuild, LoadPresent, PruneDangling, BootConfirmed, BootDeclined,
       Commit, StartBoot, Lock, LockSkipped, LockBootOrder, DeleteBootNext, LockBootNext,
       LockOptions, BootReturned, Reset
  <2>2. QED
    BY <2>1 DEF SpreadInv
<1>8. QED
  BY <1>1, <1>2, <1>3, <1>4, <1>5, <1>6, <1>7 DEF Next, Code, User, Rebuild, Answer

LEMMA SpreadInvInit == Init => SpreadInv
BY DEF Init, Volatile, SpreadInv, SnapshotStates, ScanStates, DropStates

-----------------------------------------------------------------------------
(***************************************************************************)
(* While a gesture is carried out, every option that BootOrder names and   *)
(* that exists is one the snapshot knows, whatever fails.                  *)
(***************************************************************************)
CoverInv ==
  pc \in EditStates =>
    \A n \in Numbers : Listed(n) /\ Present(n) => \E k \in 1..Len(menu) : menu[k].num = n

LEMMA WithoutLists ==
  ASSUME TypeInv, NEW i \in DOMAIN bootOrder, bootOrder' = Without(bootOrder, i),
         NEW n \in Numbers
  PROVE  /\ Listed(n)' => Listed(n)
         /\ Listed(n) /\ n # bootOrder[i] => Listed(n)'
<1>1. /\ bootOrder \in Seq(Numbers) /\ i \in 1..Len(bootOrder)
      /\ DOMAIN bootOrder = 1..Len(bootOrder) /\ Len(bootOrder) \in Nat
  BY DEF TypeInv, TypeOK
<1>2. /\ bootOrder' \in Seq(Numbers)
      /\ Len(bootOrder') = Len(bootOrder) - 1
      /\ \A j \in 1..(Len(bootOrder) - 1) :
           bootOrder'[j] = IF j < i THEN bootOrder[j] ELSE bootOrder[j + 1]
  BY <1>1, WithoutProperties
<1>3. DOMAIN bootOrder' = 1..(Len(bootOrder) - 1)
  BY <1>1, <1>2
<1>4. \A j \in DOMAIN bootOrder' : \E k \in DOMAIN bootOrder : bootOrder'[j] = bootOrder[k]
  BY <1>1, <1>2, <1>3
<1>5. ASSUME NEW k \in DOMAIN bootOrder, k # i
      PROVE  \E j \in DOMAIN bootOrder' : bootOrder'[j] = bootOrder[k]
  <2>1. CASE k < i
    <3>1. k \in DOMAIN bootOrder' /\ bootOrder'[k] = bootOrder[k]
      BY <1>1, <1>2, <1>3, <2>1
    <3>2. QED
      BY <3>1
  <2>2. CASE k > i
    <3>1. k - 1 \in DOMAIN bootOrder' /\ bootOrder'[k - 1] = bootOrder[k]
      BY <1>1, <1>2, <1>3, <2>2
    <3>2. QED
      BY <3>1
  <2>3. QED
    BY <1>1, <1>5, <2>1, <2>2
<1>6. QED
  BY <1>4, <1>5 DEF Listed, Contains

LEMMA CoverInvStep == TypeInv /\ ScreenInv /\ CoverInv /\ [Next]_vars => CoverInv'
<1> SUFFICES ASSUME TypeInv, ScreenInv, CoverInv, [Next]_vars, pc' \in EditStates,
                    NEW n \in Numbers, Listed(n)', Present(n)'
             PROVE  \E k \in 1..Len(menu') : menu'[k].num = n
  BY DEF CoverInv
<1> USE DEF nvVars, platVars, routeVars, dialogVars, EditStates, ScanStates, DropStates
<1>1. CASE RouteConfig
  <2>1. pc = "idle" /\ UNCHANGED <<bootOrder, options, menu>>
    BY <1>1 DEF RouteConfig
  <2>2. Listed(n) /\ Present(n)
    BY <2>1 DEF Listed, Contains, Present
  <2>3. PICK i \in 1..Len(bootOrder) : bootOrder[i] = n
    BY <2>2 DEF Listed, Contains, TypeInv, TypeOK
  <2>4. PICK at \in [1..Len(menu) -> 1..Len(bootOrder)] :
          /\ \A k \in 1..Len(menu) :
               menu[k] = [num    |-> bootOrder[at[k]],
                          active |-> options[bootOrder[at[k]]] = "active"]
          /\ \A j \in 1..Len(bootOrder) :
               Present(bootOrder[j]) => \E k \in 1..Len(menu) : at[k] = j
    BY <2>1 DEF ScreenInv, LoadedUpTo
  <2>5. PICK k \in 1..Len(menu) : at[k] = i
    BY <2>2, <2>3, <2>4
  <2>6. menu[k].num = n
    <3>1. menu[k] = [num    |-> bootOrder[at[k]],
                     active |-> options[bootOrder[at[k]]] = "active"]
      BY <2>4, Zenon
    <3> DEFINE active == options[bootOrder[at[k]]] = "active"
    <3> HIDE DEF active
    <3>2. menu[k] = [num |-> bootOrder[at[k]], active |-> active]
      BY <3>1 DEF active
    <3>3. menu[k].num = bootOrder[at[k]]
      BY <3>2
    <3>4. QED
      BY <2>3, <2>5, <3>3
  <2>7. QED
    BY <2>1, <2>6
<1>2. CASE UNCHANGED vars
  <2>1. UNCHANGED <<pc, bootOrder, options, menu>>
    BY <1>2 DEF vars
  <2>2. QED
    BY <2>1 DEF CoverInv, Listed, Contains, Present
<1>3. CASE \/ ScanEmpty \/ ScanBootRequest \/ ScanOption \/ ScanBeyondList \/ ScanDone
           \/ DropKept \/ DropAsk \/ DropDone \/ DeleteConfirmed \/ DeleteDeclined
  <2>1. pc \in EditStates /\ UNCHANGED <<bootOrder, options, menu>>
    BY <1>3 DEF ScanEmpty, ScanBootRequest, ScanOption, AtOption, ScanBeyondList, ScanDone,
       DropKept, DropAsk, DropDone, DeleteConfirmed, DeleteDeclined
  <2>2. QED
    BY <2>1 DEF CoverInv, Listed, Contains, Present
<1>4. CASE ScanToggled
  <2>1. PICK k \in 1..OptionLimit :
          /\ menu' = [menu EXCEPT ![k].active = ~@]
          /\ \E ok \in WriteOutcomes(menu[k].num) :
               options' = IF ok THEN [options EXCEPT ![menu[k].num] = Flag(~menu[k].active)]
                                ELSE options
    BY <1>4 DEF ScanToggled, Differing
  <2>2. pc \in EditStates /\ bootOrder' = bootOrder
    BY <1>4 DEF ScanToggled, AtOption
  <2>3. k \in 1..Len(menu) /\ menu[k] \in LoadOption
    BY MenuEntry
  <2>4. /\ [menu[k] EXCEPT !.active = ~@] \in LoadOption
        /\ [menu[k] EXCEPT !.active = ~@].num = menu[k].num
    BY <2>3 DEF LoadOption
  <2>5. menu' = [menu EXCEPT ![k] = [menu[k] EXCEPT !.active = ~@]]
    BY <2>1
  <2>6. Len(menu') = Len(menu) /\ \A l \in 1..Len(menu) : menu'[l].num = menu[l].num
    BY <2>3, <2>4, <2>5, ExceptSeq DEF TypeInv, TypeOK
  <2>7. CASE n = menu[k].num
    BY <2>3, <2>6, <2>7
  <2>8. CASE n # menu[k].num
    <3>1. Listed(n) /\ Present(n)
      BY <2>1, <2>2, <2>8 DEF Listed, Contains, Present, TypeInv, TypeOK
    <3>2. QED
      BY <2>2, <2>6, <3>1 DEF CoverInv
  <2>9. QED
    BY <2>7, <2>8
<1>5. CASE Unlist
  <2>1. /\ pc \in EditStates /\ UNCHANGED <<options, menu>>
        /\ (bootOrder' = bootOrder \/ \E i \in DOMAIN bootOrder : bootOrder' = Without(bootOrder, i))
    BY <1>5 DEF Unlist
  <2>2. Listed(n)
    BY <2>1, WithoutLists DEF Listed, Contains
  <2>3. QED
    BY <2>1, <2>2 DEF CoverInv, Present
<1>6. CASE EraseOption
  <2>1. pc \in EditStates /\ UNCHANGED <<bootOrder, menu>>
    BY <1>6 DEF EraseOption
  <2>2. \A m \in Numbers : options'[m] \in {options[m], "absent"}
    BY <1>6 DEF EraseOption, TypeInv, TypeOK
  <2>3. Listed(n) /\ Present(n)
    BY <2>1, <2>2 DEF Listed, Contains, Present
  <2>4. QED
    BY <2>1, <2>3 DEF CoverInv
<1>7. CASE \/ FormOpen \/ Rebuild \/ RouteConfigGivesUp \/ SetLockSetting \/ BootConfirmed
           \/ BootDeclined \/ Commit \/ StartBoot \/ Lock \/ BootReturned \/ Reset
  BY <1>7 DEF FormOpen, StartRebuild, Rebuild, LoadPresent,
     PruneDangling, FillList, RouteConfigGivesUp, SetLockSetting, BootConfirmed, BootDeclined, Commit, StartBoot,
     Lock, LockSkipped, LockBootOrder, DeleteBootNext, LockBootNext, LockOptions, BootReturned,
     Reset
<1>8. QED
  BY <1>1, <1>2, <1>3, <1>4, <1>5, <1>6, <1>7 DEF Next, Code, User, Scan, Drop, Answer

LEMMA CoverInvInit == Init => CoverInv
BY DEF Init, Volatile, CoverInv, EditStates, ScanStates, DropStates

(***************************************************************************)
(* When no listed option is hidden, an option leaves BootOrder only if the *)
(* user agreed to its deletion or if it is gone already, whatever fails:   *)
(* the new order lacks at most the option of the one empty slot, and is    *)
(* written only when none is missing or that one was agreed to.  On top of *)
(* a gesture left over more slots may be empty, and one YES stands for all *)
(* of them.                                                                *)
(***************************************************************************)
THEOREM LossesHaveConsent ==
  ASSUME Hidden = {}
  PROVE  Spec => LossNeedsConsent
<1>1. TypeInv /\ ScreenInv /\ GestureInv /\ SpreadInv /\ CoverInv /\ [Next]_vars =>
        [\A n \in Numbers : (Listed(n) /\ ~Listed(n)') =>
           (n \in consent \/ ~Present(n) \/ (leftOver /\ consent # {}))]_vars
  <2> SUFFICES ASSUME TypeInv, GestureInv, SpreadInv, CoverInv, Next,
                      NEW n \in Numbers, Listed(n), ~Listed(n)', Present(n)
               PROVE  n \in consent \/ (leftOver /\ consent # {})
    OBVIOUS
  <2> USE DEF nvVars, platVars, routeVars, dialogVars, EditStates, ScanStates, DropStates
  <2>1. CASE Commit
    <3>1. pc = "commit" /\ allowSet /\ bootOrder' = newOrder
      BY <2>1 DEF Commit, Listed, Contains
    <3>2. PICK k \in 1..Len(menu) : menu[k].num = n
      BY <3>1 DEF CoverInv
    <3>3. ~Contains(newOrder, menu[k].num)
      BY <3>1, <3>2 DEF Listed, Contains
    <3>4. CASE leftOver
      BY <3>1, <3>3, <3>4 DEF SpreadInv, AllKept
    <3>5. CASE ~leftOver
      <4>1. PICK r \in 0..OptionLimit :
              /\ SlotsFit(orderConfig, r) /\ CollectedFrom(r, Len(menu))
              /\ r # 0 => menu[r].num \in consent
        BY <3>1, <3>5 DEF GestureInv
      <4>2. k = r
        BY <3>3, <4>1, KeptEntries
      <4>3. r # 0
        BY <4>2
      <4>4. QED
        BY <3>2, <4>1, <4>2, <4>3
    <3>6. QED
      BY <3>4, <3>5
  <2>2. CASE Unlist
    <3>1. PICK i \in DOMAIN bootOrder :
            bootOrder[i] = menu[idx].num /\ bootOrder' = Without(bootOrder, i)
      BY <2>2 DEF Unlist, Listed, Contains
    <3>2. n = menu[idx].num
      BY <3>1, WithoutLists
    <3>3. pc = "unlist"
      BY <2>2 DEF Unlist
    <3>4. menu[idx].num \in consent
      BY <3>3 DEF SpreadInv
    <3>5. QED
      BY <3>2, <3>4
  <2>3. CASE PruneDangling
    <3>1. bootOrder' = Without(bootOrder, idx) /\ ~Present(bootOrder[idx]) /\ idx <= Len(bootOrder)
      BY <2>3 DEF PruneDangling, Listed, Contains
    <3>2. idx \in DOMAIN bootOrder
      BY <3>1 DEF TypeInv, TypeOK
    <3>3. n = bootOrder[idx]
      BY <3>1, <3>2, WithoutLists
    <3>4. QED
      BY <3>1, <3>3
  <2>4. CASE ~Commit /\ ~Unlist /\ ~PruneDangling
    <3>1. bootOrder' = bootOrder
      BY <2>4 DEF Next, Code, User, Rebuild, LoadPresent, FillList, Scan, ScanEmpty,
         ScanBootRequest, ScanOption, ScanToggled, ScanBeyondList, ScanDone, Drop, DropKept,
         DropAsk, DropDone, EraseOption, Lock, LockSkipped, LockBootOrder, DeleteBootNext,
         LockBootNext, LockOptions, FormOpen, RouteConfig, RouteConfigGivesUp, SetLockSetting,
         Answer, BootConfirmed, BootDeclined, DeleteConfirmed, DeleteDeclined, StartBoot, BootReturned, Reset
    <3>2. QED
      BY <3>1 DEF Listed, Contains
  <2>5. QED
    BY <2>1, <2>2, <2>3, <2>4
<1>2. QED
  BY <1>1, GestureInvAlways, SpreadInvInit, SpreadInvStep, CoverInvInit, CoverInvStep, PTL
     DEF Spec, LossNeedsConsent

-----------------------------------------------------------------------------
(***************************************************************************)
(* The contract.  With working services and no hidden option, a gesture    *)
(* that deletes turns BootOrder into NewBootOrder by taking the one option *)
(* off it; the write at the end then changes nothing.                      *)
(***************************************************************************)
OrderIsMenu ==
  Len(bootOrder) = Len(menu) /\ \A k \in 1..Len(menu) : bootOrder[k] = menu[k].num

WriteInv ==
  pc \in DropStates \cup {"commit"} =>
    /\ consent = {} \/ pc = "unlist" => OrderIsMenu
    /\ consent # {} /\ pc # "unlist" => bootOrder = newOrder
    /\ pc = "deleteDialog" => consent = {}
    /\ pc = "drop" /\ consent # {} =>
         \A i \in 1..OptionLimit : orderConfig[i].num = NoOption => i < idx

ContractInv ==
  TypeInv /\ LockInv /\ OrderInv /\ ScreenInv /\ GestureInv /\ WriteInv /\ ~leftOver

LEMMA WriteInvInit == Init => WriteInv
BY DEF Init, Volatile, WriteInv, DropStates

(***************************************************************************)
(* Taking the option of the empty slot off BootOrder leaves NewBootOrder.  *)
(***************************************************************************)
LEMMA UnlistWrites ==
  ASSUME ServiceFailures = FALSE, ContractInv, Unlist
  PROVE  /\ idx \in 1..OptionLimit /\ idx \in DOMAIN bootOrder
         /\ bootOrder[idx] = menu[idx].num
         /\ Deletable(bootOrder[idx])
         /\ bootOrder' = Without(bootOrder, idx)
         /\ bootOrder' = newOrder
<1>0. /\ OptionLimit \in Nat /\ OptionLimit <= Len(menu) /\ Len(menu) \in Nat
      /\ bootOrder \in Seq(Numbers) /\ newOrder \in Seq(Numbers)
      /\ DOMAIN bootOrder = 1..Len(bootOrder) /\ Len(bootOrder) \in Nat /\ Len(newOrder) \in Nat
  BY OptionLimitBounds DEF ContractInv, TypeInv, TypeOK
<1>1. pc = "unlist" /\ pc \in DropStates
  BY DEF Unlist, DropStates
<1>2. PICK r \in 0..OptionLimit :
        /\ SlotsFit(orderConfig, r) /\ CollectedFrom(r, Len(menu)) /\ idx = r /\ r # 0
  BY <1>1 DEF ContractInv, GestureInv
<1>3. OrderIsMenu
  BY <1>1 DEF ContractInv, WriteInv
<1>4. /\ idx \in 1..OptionLimit /\ idx \in 1..Len(bootOrder) /\ bootOrder[idx] = menu[idx].num
  BY <1>0, <1>2, <1>3 DEF OrderIsMenu
<1>5. Deletable(bootOrder[idx])
  BY <1>2, <1>4 DEF SlotsFit
<1>6. WriteOutcomes("BootOrder") = {TRUE}
  <2>1. policyLocked = {}
    BY <1>1 DEF ContractInv, LockInv, EditStates
  <2>2. QED
    BY <2>1, NoFailures
<1>7. Contains(bootOrder, menu[idx].num)
  BY <1>0, <1>4 DEF Contains
<1>8. PICK i \in DOMAIN bootOrder : bootOrder[i] = menu[idx].num /\ bootOrder' = Without(bootOrder, i)
  BY <1>6, <1>7 DEF Unlist
<1>9. i = idx
  BY <1>0, <1>4, <1>8 DEF ContractInv, OrderInv, OrderNamesOptions
<1>10. bootOrder' = newOrder
  <2>1. /\ bootOrder' \in Seq(Numbers) /\ Len(bootOrder') = Len(bootOrder) - 1
        /\ \A j \in 1..(Len(bootOrder) - 1) :
             bootOrder'[j] = IF j < idx THEN bootOrder[j] ELSE bootOrder[j + 1]
    BY <1>0, <1>4, <1>8, <1>9, WithoutProperties
  <2>2. Len(newOrder) = Len(bootOrder) - 1
    <3>1. Len(newOrder) = IF r # 0 /\ r <= Len(menu) THEN Len(menu) - 1 ELSE Len(menu)
      BY <1>2 DEF CollectedFrom
    <3>2. r # 0 /\ r <= Len(menu) /\ Len(bootOrder) = Len(menu)
      BY <1>0, <1>2, <1>3 DEF OrderIsMenu
    <3>3. QED
      BY <3>1, <3>2
  <2>3. ASSUME NEW j \in 1..Len(newOrder) PROVE newOrder[j] = bootOrder'[j]
    <3>1. /\ Skip(idx, j) = IF j < idx THEN j ELSE j + 1
          /\ Skip(idx, j) \in 1..Len(menu) /\ Skip(idx, j) # idx
      BY <1>0, <1>3, <1>4, <2>2 DEF Skip, OrderIsMenu
    <3>2. \A k \in 1..Len(menu) : k # idx => Entry(k) = bootOrder[k]
      <4>1. \A k \in 1..OptionLimit : k # idx => orderConfig[k].num = menu[k].num
        BY <1>2 DEF SlotsFit
      <4>2. QED
        BY <1>0, <1>3, <4>1 DEF Entry, OrderIsMenu
    <3>3. newOrder[j] = Entry(Skip(idx, j))
      BY <1>2 DEF CollectedFrom
    <3>4. QED
      BY <2>1, <2>2, <3>1, <3>2, <3>3
  <2>4. QED
    BY <1>0, <2>1, <2>2, <2>3, SeqEqual
<1>11. QED
  BY <1>0, <1>4, <1>5, <1>8, <1>9, <1>10

LEMMA WriteInvStep ==
  ASSUME ServiceFailures = FALSE
  PROVE  ContractInv /\ [Next]_vars => WriteInv'
<1> SUFFICES ASSUME ContractInv, [Next]_vars PROVE WriteInv'
  OBVIOUS
<1> USE DEF nvVars, platVars, routeVars, dialogVars, DropStates
<1>0. idx \in Nat \ {0} /\ OptionLimit \in Nat
  BY OptionLimitBounds DEF ContractInv, TypeInv, TypeOK
<1>1. CASE UNCHANGED vars
  <2>1. UNCHANGED <<menu, orderConfig, newOrder, bootOrder, pc, idx, consent>>
    BY <1>1 DEF vars
  <2>2. QED
    BY <2>1 DEF ContractInv, WriteInv, OrderIsMenu, OptionLimit
<1>2. CASE ScanDone
  <2>1. pc = "scan" /\ UNCHANGED <<menu, bootOrder, consent>> /\ pc' \in {"drop", "commit"}
    BY <1>2 DEF ScanDone
  <2>2. consent = {} /\ OrderIsMenu
    <3>1. consent = {}
      BY <2>1 DEF ContractInv, GestureInv, ScanStates
    <3>2. OrderIsMenu
      BY <2>1 DEF ContractInv, OrderInv, SnapshotInv, SnapshotStates, ScanStates, OrderIsMenu
    <3>3. QED
      BY <3>1, <3>2
  <2>3. QED
    BY <2>1, <2>2 DEF WriteInv, OrderIsMenu
<1>3. CASE DropKept \/ DropDone \/ DeleteDeclined
  <2>1. /\ pc \in DropStates /\ pc' \in {"drop", "commit"} /\ pc \in {"drop", "deleteDialog"}
        /\ UNCHANGED <<menu, bootOrder, consent, newOrder, orderConfig>>
        /\ idx' \in {idx, idx + 1}
    BY <1>3 DEF DropKept, DropDone, DeleteDeclined
  <2>2. OptionLimit' = OptionLimit
    BY <2>1 DEF OptionLimit
  <2>3. WriteInv
    BY DEF ContractInv
  <2>4. pc' = "drop" /\ consent # {} =>
          \A i \in 1..OptionLimit : orderConfig[i].num = NoOption => i < idx'
    <3>1. SUFFICES ASSUME consent # {}, NEW i \in 1..OptionLimit, orderConfig[i].num = NoOption
                   PROVE  i < idx'
      OBVIOUS
    <3>2. i < idx
      BY <2>1, <2>3, <3>1 DEF WriteInv
    <3>3. QED
      BY <1>0, <2>1, <3>2
  <2>5. OrderIsMenu' <=> OrderIsMenu
    BY <2>1 DEF OrderIsMenu
  <2>6. (consent = {} => OrderIsMenu) /\ (consent # {} => bootOrder = newOrder)
    BY <2>1, <2>3 DEF WriteInv
  <2>7. QED
    BY <2>1, <2>2, <2>4, <2>5, <2>6 DEF WriteInv
<1>4. CASE DropAsk
  <2>1. /\ pc = "drop" /\ pc' = "deleteDialog" /\ idx' = idx
        /\ UNCHANGED <<menu, bootOrder, consent, orderConfig>>
        /\ idx \in 1..Len(menu) /\ ~Contains(newOrder, menu[idx].num)
    BY <1>0, <1>4, OptionLimitBounds DEF DropAsk, ContractInv, TypeInv
  <2>2. PICK r \in 0..OptionLimit :
          SlotsFit(orderConfig, r) /\ CollectedFrom(r, Len(menu)) /\ r # 0
    BY <2>1 DEF ContractInv, GestureInv
  <2>3. idx = r
    BY <2>1, <2>2, KeptEntries DEF ContractInv
  <2>4. idx \in 1..OptionLimit /\ orderConfig[idx].num = NoOption
    BY <1>0, <2>2, <2>3 DEF SlotsFit
  <2>5. consent = {}
    BY <1>0, <2>1, <2>4 DEF ContractInv, WriteInv
  <2>6. OrderIsMenu
    BY <2>1, <2>5 DEF ContractInv, WriteInv
  <2>7. QED
    BY <2>1, <2>5, <2>6 DEF WriteInv, OrderIsMenu
<1>5. CASE DeleteConfirmed
  <2>1. /\ pc = "deleteDialog" /\ pc' = "unlist" /\ UNCHANGED <<menu, bootOrder>>
    BY <1>5 DEF DeleteConfirmed
  <2>2. OrderIsMenu
    BY <2>1 DEF ContractInv, WriteInv
  <2>3. QED
    BY <2>1, <2>2 DEF WriteInv, OrderIsMenu
<1>6. CASE Unlist
  <2>1. pc = "unlist" /\ pc' = "erase" /\ UNCHANGED <<newOrder, consent>>
    BY <1>6 DEF Unlist
  <2>2. bootOrder' = newOrder
    BY <1>6, UnlistWrites
  <2>3. consent # {}
    BY <2>1 DEF ContractInv, GestureInv
  <2>4. QED
    BY <2>1, <2>2, <2>3 DEF WriteInv
<1>7. CASE EraseOption
  <2>1. /\ pc = "erase" /\ pc' = "drop" /\ idx' = idx + 1
        /\ UNCHANGED <<newOrder, consent, bootOrder, menu, orderConfig>>
    BY <1>7 DEF EraseOption
  <2>2. PICK r \in 0..OptionLimit :
          SlotsFit(orderConfig, r) /\ idx = r /\ menu[r].num \in consent
    BY <2>1 DEF ContractInv, GestureInv
  <2>3. \A i \in 1..OptionLimit : orderConfig[i].num = NoOption => i < idx'
    BY <1>0, <2>1, <2>2 DEF SlotsFit
  <2>4. bootOrder = newOrder /\ consent # {}
    BY <2>1, <2>2 DEF ContractInv, WriteInv
  <2>5. OptionLimit' = OptionLimit
    BY <2>1 DEF OptionLimit
  <2>6. QED
    BY <2>1, <2>3, <2>4, <2>5 DEF WriteInv
<1>8. CASE \/ FormOpen \/ Rebuild \/ RouteConfig \/ RouteConfigGivesUp \/ SetLockSetting
           \/ Commit \/ BootConfirmed
           \/ BootDeclined \/ StartBoot \/ Lock \/ BootReturned \/ Reset
           \/ ScanEmpty \/ ScanBootRequest \/ ScanOption \/ ScanToggled \/ ScanBeyondList
  <2>1. pc' \notin DropStates \cup {"commit"}
    BY <1>8 DEF FormOpen, StartRebuild, Rebuild, LoadPresent, PruneDangling, FillList, RouteConfig,
       RouteConfigGivesUp, SetLockSetting, BootConfirmed, BootDeclined, Commit, StartBoot, Lock, LockSkipped,
       LockBootOrder, DeleteBootNext, LockBootNext, LockOptions, BootReturned, Reset, ScanEmpty,
       ScanBootRequest, ScanOption, ScanToggled, AtOption, ScanBeyondList
  <2>2. QED
    BY <2>1 DEF WriteInv
<1>9. QED
  BY <1>1, <1>2, <1>3, <1>4, <1>5, <1>6, <1>7, <1>8 DEF Next, Code, User, Scan, Drop, Answer

LEMMA NothingLeftOver ==
  ASSUME ServiceFailures = FALSE, ~leftOver, [Next]_vars
  PROVE  ~leftOver'
BY NoFailures
   DEF vars, nvVars, platVars, routeVars, dialogVars, Next, Code, User, Rebuild, LoadPresent,
       PruneDangling, FillList, Scan, ScanEmpty, ScanBootRequest, ScanOption, ScanToggled,
       ScanBeyondList, ScanDone, Drop, DropKept, DropAsk, DropDone, Unlist, EraseOption, Commit,
       Lock, LockSkipped, LockBootOrder, DeleteBootNext, LockBootNext, LockOptions, FormOpen,
       RouteConfig, RouteConfigGivesUp, SetLockSetting, Answer, BootConfirmed, BootDeclined,
       DeleteConfirmed, DeleteDeclined, StartBoot, BootReturned, Reset

LEMMA ContractInvAlways ==
  ASSUME ServiceFailures = FALSE, Hidden = {}
  PROVE  Spec => []ContractInv
<1>1. Init => ContractInv
  BY TypeInvInit, LockInvInit, OrderInvInit, ScreenInvInit, GestureInvInit, WriteInvInit
     DEF ContractInv, Init, Volatile
<1>2. ContractInv /\ [Next]_vars => ContractInv'
  BY TypeInvStep, LockInvStep, OrderInvStep, ScreenInvStep, GestureInvStep, WriteInvStep,
     NothingLeftOver DEF ContractInv
<1>3. QED
  BY <1>1, <1>2, PTL DEF Spec

(***************************************************************************)
(* Each step is a step of the contract, or changes none of its variables.  *)
(***************************************************************************)
Shared == <<bootOrder, options, bootNext, lockSetting>>

LEMMA CommitIsReorder ==
  ASSUME ServiceFailures = FALSE, ContractInv, Commit
  PROVE  Contract!Reorder \/ UNCHANGED Shared
<1>0. /\ OptionLimit \in Nat /\ OptionLimit <= Len(menu) /\ Len(menu) \in Nat
      /\ bootOrder \in Seq(Numbers) /\ newOrder \in Seq(Numbers)
      /\ DOMAIN bootOrder = 1..Len(bootOrder) /\ Len(bootOrder) \in Nat /\ Len(newOrder) \in Nat
  BY OptionLimitBounds DEF ContractInv, TypeInv, TypeOK
<1>1. /\ pc = "commit" /\ pc \in EditStates
      /\ UNCHANGED <<options, bootNext, lockSetting>>
      /\ bootOrder' = newOrder \/ bootOrder' = bootOrder
      /\ ~allowSet => bootOrder' = bootOrder
  BY DEF Commit, EditStates
<1>2. ~lockSetting /\ Distinct(newOrder)
  BY <1>1 DEF ContractInv, LockInv, OrderInv
<1>3. PICK r \in 0..OptionLimit :
        /\ SlotsFit(orderConfig, r) /\ CollectedFrom(r, Len(menu))
        /\ r = 0 => consent = {}
        /\ r # 0 /\ allowSet => consent # {}
  BY <1>1 DEF ContractInv, GestureInv
<1>4. CASE bootOrder' = bootOrder
  BY <1>1, <1>4 DEF Shared
<1>5. CASE bootOrder' # bootOrder /\ r # 0
  <2>1. consent # {}
    BY <1>1, <1>3, <1>5
  <2>2. bootOrder = newOrder
    BY <1>1, <2>1 DEF ContractInv, WriteInv
  <2>3. QED
    BY <1>1, <1>5, <2>2
<1>6. CASE bootOrder' # bootOrder /\ r = 0
  <2>1. bootOrder' = newOrder
    BY <1>1, <1>6
  <2>2. OrderIsMenu
    BY <1>1, <1>3, <1>6 DEF ContractInv, WriteInv
  <2>3. Len(newOrder) = Len(bootOrder)
    BY <1>3, <1>6, <2>2 DEF CollectedFrom, OrderIsMenu
  <2>4. \A j \in 1..Len(bootOrder) : newOrder[j] = Entry(j)
    BY <1>0, <1>3, <1>6, <2>3 DEF CollectedFrom, Skip
  <2>5. \A j \in 1..Len(bootOrder) : \E k \in 1..Len(bootOrder) :
          newOrder[j] = bootOrder[k] /\ (j > OptionLimit => k = j)
    <3>1. ASSUME NEW j \in 1..Len(bootOrder)
          PROVE  \E k \in 1..Len(bootOrder) :
                   newOrder[j] = bootOrder[k] /\ (j > OptionLimit => k = j)
      <4>1. CASE j <= OptionLimit
        <5>1. j \in 1..OptionLimit
          BY <1>0, <4>1
        <5>0. \A i \in 1..OptionLimit : i # r =>
                \E k \in 1..OptionLimit : orderConfig[i].num = menu[k].num
          BY <1>3 DEF SlotsFit
        <5>6. j # r
          BY <1>0, <1>6, <5>1
        <5>2. PICK k \in 1..OptionLimit : orderConfig[j].num = menu[k].num
          BY <5>0, <5>1, <5>6
        <5>3. k \in 1..Len(bootOrder) /\ bootOrder[k] = menu[k].num
          BY <1>0, <2>2 DEF OrderIsMenu
        <5>4. newOrder[j] = bootOrder[k]
          BY <2>4, <4>1, <5>2, <5>3 DEF Entry
        <5>5. QED
          BY <1>0, <4>1, <5>3, <5>4
      <4>2. CASE ~(j <= OptionLimit)
        <5>1. newOrder[j] = bootOrder[j]
          BY <2>2, <2>4, <4>2 DEF Entry, OrderIsMenu
        <5>2. QED
          BY <5>1
      <4>3. QED
        BY <4>1, <4>2
    <3>2. QED
      BY <3>1
  <2>6. \E p \in [1..Len(bootOrder) -> 1..Len(bootOrder)] :
          \A j \in 1..Len(bootOrder) :
             newOrder[j] = bootOrder[p[j]] /\ (j > OptionLimit => p[j] = j)
    <3> DEFINE p == [j \in 1..Len(bootOrder) |->
                       CHOOSE k \in 1..Len(bootOrder) :
                         newOrder[j] = bootOrder[k] /\ (j > OptionLimit => k = j)]
    <3>1. /\ p \in [1..Len(bootOrder) -> 1..Len(bootOrder)]
          /\ \A j \in 1..Len(bootOrder) :
               newOrder[j] = bootOrder[p[j]] /\ (j > OptionLimit => p[j] = j)
      BY <2>5
    <3>2. QED
      BY <3>1
  <2>7. PICK p \in [1..Len(bootOrder) -> 1..Len(bootOrder)] :
          \A j \in 1..Len(bootOrder) :
             newOrder[j] = bootOrder[p[j]] /\ (j > OptionLimit => p[j] = j)
    BY <2>6
  <2>8. \A i, j \in 1..Len(bootOrder) : p[i] = p[j] => i = j
    BY <1>0, <1>2, <2>3, <2>7 DEF Distinct
  <2>9. \A j \in 1..Len(bootOrder) : j > MaxShown => p[j] = j
    <3>1. MaxShown \in Nat /\ OptionLimit <= MaxShown
      BY OptionLimitBounds, ConstantsAssumption DEF ContractInv, TypeInv
    <3>2. QED
      BY <1>0, <2>7, <3>1
  <2>10. newOrder = [j \in 1..Len(bootOrder) |-> bootOrder[p[j]]]
    <3>1. newOrder = [j \in 1..Len(newOrder) |-> newOrder[j]]
      BY <1>0
    <3>2. QED
      BY <2>3, <2>7, <3>1
  <2>11. \E q \in [DOMAIN bootOrder -> DOMAIN bootOrder] :
           /\ \A i, j \in DOMAIN bootOrder : q[i] = q[j] => i = j
           /\ \A i \in DOMAIN bootOrder : i > MaxShown => q[i] = i
           /\ bootOrder' = [i \in DOMAIN bootOrder |-> bootOrder[q[i]]]
    <3>1. DOMAIN bootOrder = 1..Len(bootOrder)
      BY <1>0
    <3>2. bootOrder' = [j \in 1..Len(bootOrder) |-> bootOrder[p[j]]]
      BY <2>1, <2>10
    <3>3. QED
      BY <2>7, <2>8, <2>9, <3>1, <3>2, Zenon
  <2>12. QED
    BY <1>1, <1>2, <2>11, Zenon DEF Contract!Reorder
<1>7. QED
  BY <1>4, <1>5, <1>6

LEMMA DeletionIsWithdrawal ==
  ASSUME ServiceFailures = FALSE, ContractInv, Unlist \/ EraseOption
  PROVE  Contract!Withdraw \/ Contract!Erase \/ UNCHANGED Shared
<1>1. ServiceOutcomes = {TRUE}
  BY NoFailures
<1>2. ~lockSetting
  BY DEF Unlist, EraseOption, ContractInv, LockInv, EditStates, DropStates
<1>3. CASE Unlist
  <2>1. /\ idx \in 1..OptionLimit /\ idx \in DOMAIN bootOrder
        /\ Deletable(bootOrder[idx]) /\ bootOrder' = Without(bootOrder, idx)
    BY <1>3, UnlistWrites
  <2>2. bootOrder[idx] \notin Defaults
    BY <1>1, <2>1 DEF Deletable
  <2>3. idx <= MaxShown
    BY <2>1, OptionLimitBounds, ConstantsAssumption DEF ContractInv, TypeInv
  <2>4. UNCHANGED <<options, bootNext, lockSetting>>
    BY <1>3 DEF Unlist
  <2>5. Contract!Withdraw
    BY <1>2, <2>1, <2>2, <2>3, <2>4 DEF Contract!Withdraw, Without
  <2>6. QED
    BY <2>5
<1>4. CASE EraseOption
  <2>1. /\ pc = "erase" /\ UNCHANGED <<bootOrder, bootNext, lockSetting>>
        /\ options' \in {options, [options EXCEPT ![menu[idx].num] = "absent"]}
    BY <1>4 DEF EraseOption
  <2>2. PICK r \in 0..OptionLimit : SlotsFit(orderConfig, r) /\ idx = r /\ r # 0
    BY <2>1 DEF ContractInv, GestureInv, DropStates
  <2>3. menu[idx].num \in Numbers \ Defaults
    <3>1. menu[idx].num \in Numbers
      BY <2>1, OptionLimitBounds, MenuEntry DEF ContractInv, TypeInv, TypeOK, IndexedStates
    <3>2. Deletable(menu[idx].num)
      BY <2>2 DEF SlotsFit
    <3>3. QED
      BY <1>1, <3>1, <3>2 DEF Deletable
  <2>4. ~Contract!InOrder(menu[idx].num)
    BY <2>1 DEF ContractInv, OrderInv, Listed, Contains, Contract!InOrder
  <2>5. CASE options[menu[idx].num] = "absent"
    <3>1. options' = options
      BY <2>1, <2>3, <2>5 DEF ContractInv, TypeInv, TypeOK
    <3>2. QED
      BY <2>1, <3>1 DEF Shared
  <2>6. CASE options[menu[idx].num] # "absent" /\ options' # options
    <3>1. Contract!Erase
      BY <1>2, <2>1, <2>3, <2>4, <2>6 DEF Contract!Erase
    <3>2. QED
      BY <3>1
  <2>7. QED
    BY <2>1, <2>5, <2>6 DEF Shared
<1>5. QED
  BY <1>3, <1>4

LEMMA ToggleIsSetActive ==
  ASSUME ContractInv, ScanToggled
  PROVE  Contract!SetActive \/ UNCHANGED Shared
<1>1. /\ pc = "scan" /\ UNCHANGED <<bootOrder, bootNext, lockSetting>>
  BY DEF ScanToggled, AtOption
<1>2. PICK k \in 1..OptionLimit :
        \E ok \in WriteOutcomes(menu[k].num) :
           options' = IF ok THEN [options EXCEPT ![menu[k].num] = Flag(~menu[k].active)]
                            ELSE options
  BY DEF ScanToggled, Differing
<1>3. CASE options' = options
  BY <1>1, <1>3 DEF Shared
<1>4. CASE options' # options
  <2>1. options' = [options EXCEPT ![menu[k].num] = Flag(~menu[k].active)]
    BY <1>2, <1>4
  <2>2. menu[k].num \in Numbers /\ k \in 1..Len(menu)
    BY MenuEntry DEF ContractInv
  <2>3. Len(menu) = Len(bootOrder) /\ menu[k].num = bootOrder[k] /\ Present(menu[k].num)
    BY <1>1, <2>2, SnapshotDistinct DEF ContractInv, SnapshotStates, ScanStates
  <2>4. k \in DOMAIN bootOrder
    BY <2>2, <2>3 DEF ContractInv, TypeInv, TypeOK
  <2>5. Contract!InOrder(menu[k].num)
    BY <2>3, <2>4 DEF Contract!InOrder
  <2>6. ~lockSetting
    BY <1>1 DEF ContractInv, LockInv, EditStates, ScanStates
  <2>7. Flag(~menu[k].active) \in {"inactive", "active"}
    BY DEF Flag
  <2>8. QED
    BY <1>1, <2>1, <2>2, <2>3, <2>5, <2>6, <2>7 DEF Contract!SetActive, Present
<1>5. QED
  BY <1>3, <1>4

LEMMA BootIsSetNext ==
  ASSUME ContractInv, BootConfirmed
  PROVE  Contract!SetNext \/ UNCHANGED Shared
<1>1. /\ pc = "bootDialog" /\ UNCHANGED <<bootOrder, options, lockSetting>>
      /\ bootNext' = orderConfig[idx].num \/ bootNext' = bootNext
  BY DEF BootConfirmed
<1>2. idx \in 1..OptionLimit /\ idx \in Slots
  <2>1. TypeInv /\ OptionLimit \in Nat
    BY OptionLimitBounds DEF ContractInv, TypeInv
  <2>2. idx \in Nat \ {0} /\ idx <= OptionLimit
    BY <1>1, <2>1 DEF TypeInv, TypeOK, IndexedStates
  <2>3. idx \in 1..OptionLimit
    BY <2>1, <2>2
  <2> QED
    BY <2>1, <2>3, MenuEntry
<1>3. orderConfig[idx].num # NoOption
  BY <1>1 DEF ContractInv, GestureInv
<1>4. PICK k \in 1..OptionLimit : menu[k].num = orderConfig[idx].num
  BY <1>1, <1>2, <1>3 DEF ContractInv, OrderInv, SlotsInv, SnapshotStates, ScanStates
<1>5. k \in 1..Len(menu) /\ menu[k].num \in Numbers
  BY MenuEntry DEF ContractInv
<1>6. Len(menu) = Len(bootOrder) /\ menu[k].num = bootOrder[k]
  BY <1>1, <1>5, SnapshotDistinct DEF ContractInv, SnapshotStates, ScanStates
<1>7. k \in DOMAIN bootOrder
  BY <1>5, <1>6 DEF ContractInv, TypeInv, TypeOK
<1>8. Contract!InOrder(orderConfig[idx].num)
  BY <1>4, <1>6, <1>7 DEF Contract!InOrder
<1>9. ~lockSetting
  BY <1>1 DEF ContractInv, LockInv, EditStates, ScanStates
<1>10. QED
  BY <1>1, <1>4, <1>5, <1>8, <1>9 DEF Contract!SetNext, Shared

LEMMA PlatformKeepsContract ==
  ASSUME SetLockSetting \/ StartBoot \/ DeleteBootNext
  PROVE  Contract!SetLock \/ Contract!ClearNext \/ UNCHANGED Shared
<1>1. CASE SetLockSetting
  BY <1>1 DEF SetLockSetting, Contract!SetLock
<1>2. CASE StartBoot
  BY <1>2 DEF StartBoot, Contract!ClearNext, Shared
<1>3. CASE DeleteBootNext
  BY <1>3 DEF DeleteBootNext, Contract!ClearNext, Shared
<1>4. QED
  BY <1>1, <1>2, <1>3

LEMMA StepKeepsContract ==
  ASSUME ServiceFailures = FALSE, ContractInv, [Next]_vars
  PROVE  Contract!Next \/ UNCHANGED Shared
<1> USE DEF nvVars, platVars, routeVars, dialogVars
<1>1. CASE Commit
  BY <1>1, CommitIsReorder DEF Contract!Next
<1>2. CASE Unlist \/ EraseOption
  BY <1>2, DeletionIsWithdrawal DEF Contract!Next
<1>3. CASE ScanToggled
  BY <1>3, ToggleIsSetActive DEF Contract!Next
<1>4. CASE BootConfirmed
  BY <1>4, BootIsSetNext DEF Contract!Next
<1>5. CASE SetLockSetting \/ StartBoot \/ DeleteBootNext
  BY <1>5, PlatformKeepsContract DEF Contract!Next
<1>6. CASE PruneDangling
  <2>1. idx \in DOMAIN bootOrder /\ ~Present(bootOrder[idx])
    BY <1>6 DEF PruneDangling, ContractInv, TypeInv, TypeOK
  <2>2. QED
    BY <2>1 DEF ContractInv, OrderInv, OrderNamesOptions
<1>9. CASE RouteConfigGivesUp
  BY <1>9 DEF RouteConfigGivesUp, Shared
<1>7. CASE \/ FormOpen \/ LoadPresent \/ FillList \/ RouteConfig \/ BootDeclined \/ LockSkipped
           \/ LockBootOrder \/ LockBootNext \/ LockOptions \/ BootReturned \/ Reset
           \/ ScanEmpty \/ ScanBootRequest \/ ScanOption \/ ScanBeyondList \/ ScanDone
           \/ DropKept \/ DropAsk \/ DropDone \/ DeleteConfirmed \/ DeleteDeclined
           \/ UNCHANGED vars
  BY <1>7 DEF vars, Shared, FormOpen, LoadPresent, FillList, RouteConfig, BootDeclined, LockSkipped,
     LockBootOrder, LockBootNext, LockOptions, BootReturned, Reset, ScanEmpty, ScanBootRequest,
     ScanOption, ScanBeyondList, ScanDone, DropKept, DropAsk, DropDone, DeleteConfirmed,
     DeleteDeclined
<1>8. QED
  BY <1>1, <1>2, <1>3, <1>4, <1>5, <1>6, <1>7, <1>9
     DEF Next, Code, User, Rebuild, Scan, Drop, Lock, Answer

(***************************************************************************)
(* With working services and no hidden option, the boot menu and the       *)
(* ReadyToBoot handler implement the contract: nothing but permutations of *)
(* the list on screen, two-step deletions of options that are no defaults, *)
(* flags and BootNext of listed options, and none of it under the lock.    *)
(***************************************************************************)
THEOREM MenuKeepsContract ==
  ASSUME ServiceFailures = FALSE, Hidden = {}
  PROVE  Spec => ContractSpec
<1>1. Init => Contract!Init
  BY DEF Init, StartOrders, Present, OptionStates, Contract!Init
<1>2. ContractInv /\ [Next]_vars => [Contract!Next]_(Contract!contractVars)
  BY StepKeepsContract DEF Shared, Contract!contractVars
<1>3. QED
  BY <1>1, <1>2, ContractInvAlways, PTL DEF Spec, ContractSpec, Contract!Spec

=============================================================================
