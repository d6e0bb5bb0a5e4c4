------------------------ MODULE FrontPageSessionProofs ------------------------
(***************************************************************************)
(* One FrontPage session, for every set of passwords, number of key sets,  *)
(* limit on the attempts, with and without failing services, and with      *)
(* power lost at any step.                                                 *)
(***************************************************************************)
EXTENDS FrontPageSession, TLAPS

BeforeMenu == {"dxe", "uefiMain", "authenticate", "challenge", "createMenu"}

(***************************************************************************)
(* SecureBootModeSet deletes only keys that are not the ones asked for,    *)
(* and writes only after it has deleted; it runs before FrontPage starts   *)
(* or while HandleSecureBootChange waits for it.                           *)
(***************************************************************************)
KeyChangeInv ==
  /\ keyStage = "delete" => keys # request
  /\ keyStage = "write" => keys = MU_SB_CONFIG_NONE /\ request # MU_SB_CONFIG_NONE
  /\ keyStage \in {"delete", "write"} => request < KeyCount \/ request = MU_SB_CONFIG_NONE
  /\ keyStage # "idle" => pc \in {"dxe", "changeKeys"}

(***************************************************************************)
(* Outside of a change, the text names the keys unless a change has failed *)
(* in this session, and then there are none and a reset is due; while one  *)
(* runs, the text is behind only when there are none or when the change    *)
(* has succeeded.  VariablePolicy is suspended by a change and a reset is  *)
(* due before anything else can follow.                                    *)
(***************************************************************************)
SecurityInv ==
  /\ pc \notin {"dxe", "uefiMain", "changeKeys"} /\ statusText # keys
       => keys = MU_SB_CONFIG_NONE /\ keyStatus # "success" /\ resetRequired
  /\ pc = "changeKeys" /\ statusText # keys
       => keys = MU_SB_CONFIG_NONE \/ (keyStage = "idle" /\ keyStatus = "success")
  /\ ~policy => pc = "changeKeys" \/ resetRequired
  /\ pc \in BeforeMenu \cup {"bootNext", "left"} => policy

(***************************************************************************)
(* The full menu is decided on by the token, after the challenge.          *)
(***************************************************************************)
TokenInv ==
  /\ pc \in BeforeMenu \ {"createMenu"} => ~showFullMenu
  /\ pc \in InSession \cup {"createMenu"} /\ showFullMenu => token = "live" /\ published

(***************************************************************************)
(* cells lists the forms of the menu of map: each place has one entry of   *)
(* the map and each entry that is left has a place.                        *)
(***************************************************************************)
Lists(map, full, labels) ==
  /\ \A i \in DOMAIN labels :
       \E c \in DOMAIN Menus : Matching(map, full, i - 1) = {c} /\ labels[i] = Menus[c]
  /\ {labels[i] : i \in DOMAIN labels}
       = {Menus[c] : c \in {d \in DOMAIN Menus : Index(map[d], full) # UNUSED_INDEX}}
  /\ labels[Len(labels)] = "EXIT"

(***************************************************************************)
(* The map of FrontPage.c is changed once, by CreateTopMenu, and never     *)
(* gives the limited menu a restricted form.  An open form is the one      *)
(* selected, unless another was selected and it is about to be closed.     *)
(***************************************************************************)
MenuInv ==
  /\ pc \in BeforeMenu => formMap = mFormMap /\ form = "none"
  /\ \A c \in {2, 3, 5} : formMap[c].limited = UNUSED_INDEX
  /\ pc \in InSession =>
       Lists(formMap, showFullMenu, cells) /\ current < Len(cells) /\ Len(cells) <= 6
  /\ pc \in {"form", "setPassword", "changeKeys"} /\ ~closing => form = cells[current + 1]
  /\ form \in Restricted => showFullMenu

SessionInv == FrontPageTypeOK /\ KeyChangeInv /\ SecurityInv /\ TokenInv /\ MenuInv

-----------------------------------------------------------------------------
(***************************************************************************)
(* If the indexes 0 to n-1 are taken by one entry each, at[1] to at[n],    *)
(* these are all the entries left, and the way out is the last of them,    *)
(* then the list box shows the menu of the map.                            *)
(***************************************************************************)
LEMMA OptionsList ==
  ASSUME NEW map, NEW full, NEW n \in 1..6, NEW at \in [1..n -> 1..6],
         \A i \in 1..n : Matching(map, full, i - 1) = {at[i]},
         Matching(map, full, n) = {},
         \A c \in 1..6 : (Index(map[c], full) # UNUSED_INDEX) <=> \E i \in 1..n : at[i] = c,
         at[n] = 6
  PROVE  /\ Lists(map, full, MenuOptions(map, full))
         /\ MenuOptions(map, full) \in Seq(Labels)
         /\ Len(MenuOptions(map, full)) \in 1..6
<1> DEFINE labels == [i \in 1..n |-> Menus[at[i]]]
<1>1. MenuOptions(map, full) = labels
  <2> DEFINE Complete(m) == /\ Matching(map, full, m) = {}
                            /\ \A i \in 0..(m - 1) : Matching(map, full, i) # {}
             length == CHOOSE m \in 0..Len(Menus) : Complete(m)
             Last(i) == CHOOSE c \in Matching(map, full, i - 1) :
                          \A d \in Matching(map, full, i - 1) : d <= c
  <2>1. Len(Menus) = 6
    BY DEF Menus
  <2>2. \A i \in 0..(n - 1) : Matching(map, full, i) # {}
    <3> TAKE i \in 0..(n - 1)
    <3>1. i + 1 \in 1..n /\ (i + 1) - 1 = i
      OBVIOUS
    <3>2. Matching(map, full, (i + 1) - 1) = {at[i + 1]}
      BY <3>1
    <3> QED
      BY <3>1, <3>2
  <2>3. n \in 0..Len(Menus) /\ Complete(n)
    BY <2>1, <2>2
  <2>4. ASSUME NEW m \in 0..Len(Menus), Complete(m) PROVE m = n
    <3>1. ~(m < n)
      BY <2>1, <2>2, <2>4
    <3>2. ~(n < m)
      BY <2>1, <2>4
    <3> QED
      BY <2>1, <3>1, <3>2
  <2>5. length = n
    <3> HIDE DEF Complete
    <3> QED
      BY <2>3, <2>4
  <2>6. ASSUME NEW i \in 1..n PROVE Last(i) = at[i]
    <3>1. Matching(map, full, i - 1) = {at[i]} /\ at[i] <= at[i]
      OBVIOUS
    <3> QED
      BY <3>1
  <2>7. MenuOptions(map, full) = [i \in 1..length |-> Menus[Last(i)]]
    BY DEF MenuOptions
  <2>8. MenuOptions(map, full) = [i \in 1..n |-> Menus[Last(i)]]
    BY <2>5, <2>7
  <2>9. \A i \in 1..n : Last(i) = at[i]
    BY <2>6
  <2>10. [i \in 1..n |-> Menus[Last(i)]] = [i \in 1..n |-> Menus[at[i]]]
    <3> HIDE DEF Last
    <3> QED
      BY <2>9
  <2> HIDE DEF Last
  <2> QED
    BY <2>8, <2>10
<1>2. DOMAIN Menus = 1..6 /\ Menus[6] = "EXIT"
  BY DEF Menus
<1>3. labels \in [1..n -> Labels]
  <2>1. \A c \in 1..6 : Menus[c] \in Labels
    BY <1>2 DEF Labels
  <2>2. \A i \in 1..n : at[i] \in 1..6
    OBVIOUS
  <2> QED
    BY <2>1, <2>2
<1>4. labels \in Seq(Labels) /\ Len(labels) = n /\ DOMAIN labels = 1..n
  BY <1>3
<1>5. \A i \in 1..n : labels[i] = Menus[at[i]] /\ at[i] \in 1..6
  OBVIOUS
<1> HIDE DEF labels
<1>6. {labels[i] : i \in 1..n}
        = {Menus[c] : c \in {d \in 1..6 : Index(map[d], full) # UNUSED_INDEX}}
  <2>1. ASSUME NEW i \in 1..n
        PROVE  labels[i] \in {Menus[c] : c \in {d \in 1..6 : Index(map[d], full) # UNUSED_INDEX}}
    <3>1. Index(map[at[i]], full) # UNUSED_INDEX
      BY <1>5
    <3> QED
      BY <1>5, <3>1
  <2>2. ASSUME NEW c \in {d \in 1..6 : Index(map[d], full) # UNUSED_INDEX}
        PROVE  Menus[c] \in {labels[i] : i \in 1..n}
    <3>1. PICK i \in 1..n : at[i] = c
      OBVIOUS
    <3> QED
      BY <1>5, <3>1
  <2>3. {labels[i] : i \in 1..n}
          \subseteq {Menus[c] : c \in {d \in 1..6 : Index(map[d], full) # UNUSED_INDEX}}
    BY <2>1
  <2>4. {Menus[c] : c \in {d \in 1..6 : Index(map[d], full) # UNUSED_INDEX}}
          \subseteq {labels[i] : i \in 1..n}
    BY <2>2
  <2> QED
    BY <2>3, <2>4, Zenon
<1>7. labels[Len(labels)] = "EXIT" /\ Len(labels) \in 1..6
  BY <1>2, <1>4, <1>5
<1>8. \A i \in DOMAIN labels :
        \E c \in DOMAIN Menus : Matching(map, full, i - 1) = {c} /\ labels[i] = Menus[c]
  BY <1>2, <1>4, <1>5
<1>9. Lists(map, full, labels)
  BY <1>2, <1>4, <1>6, <1>7, <1>8 DEF Lists
<1> QED
  BY <1>1, <1>4, <1>7, <1>9

(***************************************************************************)
(* The indexes of a map's entries in one of its two menus, and the columns *)
(* that RemoveMenuFromList can leave: the full menu's and the limited      *)
(* one's.                                                                  *)
(***************************************************************************)
Column(map, full) ==
  <<Index(map[1], full), Index(map[2], full), Index(map[3], full),
    Index(map[4], full), Index(map[5], full), Index(map[6], full)>>

FullColumns ==
  { <<0, 1, 2, 3, 4, 5>>,
    <<0, 1, 2, UNUSED_INDEX, 3, 4>>,
    <<0, 1, 2, 3, UNUSED_INDEX, 4>>,
    <<0, 1, 2, UNUSED_INDEX, UNUSED_INDEX, 3>> }

LimitedColumns ==
  { <<0, UNUSED_INDEX, UNUSED_INDEX, 1, UNUSED_INDEX, 2>>,
    <<0, UNUSED_INDEX, UNUSED_INDEX, UNUSED_INDEX, UNUSED_INDEX, 1>> }

LEMMA ColumnsList ==
  ASSUME NEW map, NEW full, DOMAIN map = 1..6,
         Column(map, full) \in FullColumns \cup LimitedColumns
  PROVE  /\ Lists(map, full, MenuOptions(map, full))
         /\ MenuOptions(map, full) \in Seq(Labels)
         /\ Len(MenuOptions(map, full)) \in 1..6
<1> USE DEF UNUSED_INDEX
<1> DEFINE index(c) == Index(map[c], full)
<1>0. \A k : Matching(map, full, k) = {c \in 1..6 : index(c) = k}
  BY DEF Matching
<1>1. Column(map, full) = <<index(1), index(2), index(3), index(4), index(5), index(6)>>
  BY DEF Column
<1> HIDE DEF index
<1>2. CASE Column(map, full) = <<0, 1, 2, 3, 4, 5>>
  <2> DEFINE at == <<1, 2, 3, 4, 5, 6>>
  <2>1. at \in [1..6 -> 1..6] /\ at[6] = 6
    OBVIOUS
  <2>2. /\ index(1) = 0 /\ index(2) = 1 /\ index(3) = 2
        /\ index(4) = 3 /\ index(5) = 4 /\ index(6) = 5
    BY <1>1, <1>2
  <2>3. \A i \in 1..6 : {c \in 1..6 : index(c) = i - 1} = {at[i]}
    BY <2>2
  <2>4. {c \in 1..6 : index(c) = 6} = {}
    BY <2>2
  <2>5. \A c \in 1..6 : (index(c) # UNUSED_INDEX) <=> \E i \in 1..6 : at[i] = c
    BY <2>2
  <2> HIDE DEF at
  <2> QED
    BY <1>0, <2>1, <2>3, <2>4, <2>5, OptionsList DEF index
<1>3. CASE Column(map, full) = <<0, 1, 2, UNUSED_INDEX, 3, 4>>
  <2> DEFINE at == <<1, 2, 3, 5, 6>>
  <2>1. at \in [1..5 -> 1..6] /\ at[5] = 6
    OBVIOUS
  <2>2. /\ index(1) = 0 /\ index(2) = 1 /\ index(3) = 2
        /\ index(4) = UNUSED_INDEX /\ index(5) = 3 /\ index(6) = 4
    BY <1>1, <1>3
  <2>3. \A i \in 1..5 : {c \in 1..6 : index(c) = i - 1} = {at[i]}
    BY <2>2
  <2>4. {c \in 1..6 : index(c) = 5} = {}
    BY <2>2
  <2>5. \A c \in 1..6 : (index(c) # UNUSED_INDEX) <=> \E i \in 1..5 : at[i] = c
    BY <2>2
  <2> HIDE DEF at
  <2> QED
    BY <1>0, <2>1, <2>3, <2>4, <2>5, OptionsList DEF index
<1>4. CASE Column(map, full) = <<0, 1, 2, 3, UNUSED_INDEX, 4>>
  <2> DEFINE at == <<1, 2, 3, 4, 6>>
  <2>1. at \in [1..5 -> 1..6] /\ at[5] = 6
    OBVIOUS
  <2>2. /\ index(1) = 0 /\ index(2) = 1 /\ index(3) = 2
        /\ index(4) = 3 /\ index(5) = UNUSED_INDEX /\ index(6) = 4
    BY <1>1, <1>4
  <2>3. \A i \in 1..5 : {c \in 1..6 : index(c) = i - 1} = {at[i]}
    BY <2>2
  <2>4. {c \in 1..6 : index(c) = 5} = {}
    BY <2>2
  <2>5. \A c \in 1..6 : (index(c) # UNUSED_INDEX) <=> \E i \in 1..5 : at[i] = c
    BY <2>2
  <2> HIDE DEF at
  <2> QED
    BY <1>0, <2>1, <2>3, <2>4, <2>5, OptionsList DEF index
<1>5. CASE Column(map, full) = <<0, 1, 2, UNUSED_INDEX, UNUSED_INDEX, 3>>
  <2> DEFINE at == <<1, 2, 3, 6>>
  <2>1. at \in [1..4 -> 1..6] /\ at[4] = 6
    OBVIOUS
  <2>2. /\ index(1) = 0 /\ index(2) = 1 /\ index(3) = 2
        /\ index(4) = UNUSED_INDEX /\ index(5) = UNUSED_INDEX /\ index(6) = 3
    BY <1>1, <1>5
  <2>3. \A i \in 1..4 : {c \in 1..6 : index(c) = i - 1} = {at[i]}
    BY <2>2
  <2>4. {c \in 1..6 : index(c) = 4} = {}
    BY <2>2
  <2>5. \A c \in 1..6 : (index(c) # UNUSED_INDEX) <=> \E i \in 1..4 : at[i] = c
    BY <2>2
  <2> HIDE DEF at
  <2> QED
    BY <1>0, <2>1, <2>3, <2>4, <2>5, OptionsList DEF index
<1>6. CASE Column(map, full) = <<0, UNUSED_INDEX, UNUSED_INDEX, 1, UNUSED_INDEX, 2>>
  <2> DEFINE at == <<1, 4, 6>>
  <2>1. at \in [1..3 -> 1..6] /\ at[3] = 6
    OBVIOUS
  <2>2. /\ index(1) = 0 /\ index(2) = UNUSED_INDEX /\ index(3) = UNUSED_INDEX
        /\ index(4) = 1 /\ index(5) = UNUSED_INDEX /\ index(6) = 2
    BY <1>1, <1>6
  <2>3. \A i \in 1..3 : {c \in 1..6 : index(c) = i - 1} = {at[i]}
    BY <2>2
  <2>4. {c \in 1..6 : index(c) = 3} = {}
    BY <2>2
  <2>5. \A c \in 1..6 : (index(c) # UNUSED_INDEX) <=> \E i \in 1..3 : at[i] = c
    BY <2>2
  <2> HIDE DEF at
  <2> QED
    BY <1>0, <2>1, <2>3, <2>4, <2>5, OptionsList DEF index
<1>7. CASE Column(map, full) = <<0, UNUSED_INDEX, UNUSED_INDEX, UNUSED_INDEX, UNUSED_INDEX, 1>>
  <2> DEFINE at == <<1, 6>>
  <2>1. at \in [1..2 -> 1..6] /\ at[2] = 6
    OBVIOUS
  <2>2. /\ index(1) = 0 /\ index(2) = UNUSED_INDEX /\ index(3) = UNUSED_INDEX
        /\ index(4) = UNUSED_INDEX /\ index(5) = UNUSED_INDEX /\ index(6) = 1
    BY <1>1, <1>7
  <2>3. \A i \in 1..2 : {c \in 1..6 : index(c) = i - 1} = {at[i]}
    BY <2>2
  <2>4. {c \in 1..6 : index(c) = 2} = {}
    BY <2>2
  <2>5. \A c \in 1..6 : (index(c) # UNUSED_INDEX) <=> \E i \in 1..2 : at[i] = c
    BY <2>2
  <2> HIDE DEF at
  <2> QED
    BY <1>0, <2>1, <2>3, <2>4, <2>5, OptionsList DEF index
<1> QED
  BY <1>2, <1>3, <1>4, <1>5, <1>6, <1>7 DEF FullColumns, LimitedColumns

(***************************************************************************)
(* CreateTopMenu may take out the menus of DFCI, of HWH, or both.          *)
(***************************************************************************)
WithoutDfci == RemoveMenuFromList(mFormMap, "DFCI")
MapsLeft ==
  {mFormMap, WithoutDfci, RemoveMenuFromList(mFormMap, "HWH"),
   RemoveMenuFromList(WithoutDfci, "HWH")}

IndexEntry == [full : 0..UNUSED_INDEX, limited : 0..UNUSED_INDEX]

LEMMA Positions == Position("DFCI") = 4 /\ Position("HWH") = 5
<1>1. \A c \in DOMAIN Menus : (Menus[c] = "DFCI" <=> c = 4) /\ (Menus[c] = "HWH" <=> c = 5)
  BY DEF Menus
<1>2. 4 \in DOMAIN Menus /\ 5 \in DOMAIN Menus
  BY DEF Menus
<1>3. Position("DFCI") = 4
  BY <1>1, <1>2 DEF Position
<1>4. Position("HWH") = 5
  BY <1>1, <1>2 DEF Position
<1> QED
  BY <1>3, <1>4

(***************************************************************************)
(* What RemoveMenuFromList makes of a map.                                 *)
(***************************************************************************)
LEMMA Removed ==
  ASSUME NEW map, DOMAIN map = 1..6, NEW label, NEW at, Position(label) = at
  PROVE  RemoveMenuFromList(map, label) =
           [c \in 1..6 |->
              IF c < at THEN map[c]
              ELSE IF c = at THEN Entry(UNUSED_INDEX, UNUSED_INDEX)
              ELSE Entry(MovedUp(map[c].full, map[at].full),
                         MovedUp(map[c].limited, map[at].limited))]
BY DEF RemoveMenuFromList

LEMMA MovedUpValues ==
  /\ MovedUp(4, 3) = 3 /\ MovedUp(5, 3) = 4 /\ MovedUp(5, 4) = 4 /\ MovedUp(4, 3) = 3
  /\ MovedUp(2, 1) = 1
  /\ MovedUp(UNUSED_INDEX, 1) = UNUSED_INDEX
  /\ MovedUp(2, UNUSED_INDEX) = 2 /\ MovedUp(1, UNUSED_INDEX) = 1
BY DEF MovedUp, UNUSED_INDEX

LEMMA EntryFields ==
  ASSUME NEW f, NEW l
  PROVE  Entry(f, l).full = f /\ Entry(f, l).limited = l
BY DEF Entry

(***************************************************************************)
(* The four maps.                                                          *)
(***************************************************************************)
Same(map) ==
  /\ DOMAIN map = 1..6
  /\ map[1] = Entry(0, 0)
  /\ map[2] = Entry(1, UNUSED_INDEX)
  /\ map[3] = Entry(2, UNUSED_INDEX)

FullMap(map) ==
  /\ Same(map)
  /\ map[4] = Entry(3, 1) /\ map[5] = Entry(4, UNUSED_INDEX) /\ map[6] = Entry(5, 2)

MapWithoutDfci(map) ==
  /\ Same(map) /\ map[4] = Entry(UNUSED_INDEX, UNUSED_INDEX)
  /\ map[5] = Entry(3, UNUSED_INDEX) /\ map[6] = Entry(4, 1)

MapWithoutHwh(map) ==
  /\ Same(map) /\ map[4] = Entry(3, 1)
  /\ map[5] = Entry(UNUSED_INDEX, UNUSED_INDEX) /\ map[6] = Entry(4, 2)

MapWithoutBoth(map) ==
  /\ Same(map) /\ map[4] = Entry(UNUSED_INDEX, UNUSED_INDEX)
  /\ map[5] = Entry(UNUSED_INDEX, UNUSED_INDEX) /\ map[6] = Entry(3, 1)

LEMMA FourMaps ==
  /\ FullMap(mFormMap)
  /\ MapWithoutDfci(WithoutDfci)
  /\ MapWithoutHwh(RemoveMenuFromList(mFormMap, "HWH"))
  /\ MapWithoutBoth(RemoveMenuFromList(WithoutDfci, "HWH"))
<1>1. FullMap(mFormMap)
  BY DEF mFormMap, FullMap, Same
<1>2. MapWithoutDfci(WithoutDfci)
  <2>1. WithoutDfci =
           [c \in 1..6 |->
              IF c < 4 THEN mFormMap[c]
              ELSE IF c = 4 THEN Entry(UNUSED_INDEX, UNUSED_INDEX)
              ELSE Entry(MovedUp(mFormMap[c].full, mFormMap[4].full),
                         MovedUp(mFormMap[c].limited, mFormMap[4].limited))]
    BY <1>1, Positions, Removed DEF WithoutDfci, FullMap, Same
  <2>2. Same(WithoutDfci) /\ WithoutDfci[4] = Entry(UNUSED_INDEX, UNUSED_INDEX)
    BY <1>1, <2>1 DEF FullMap, Same
  <2>3. WithoutDfci[5] = Entry(MovedUp(4, 3), MovedUp(UNUSED_INDEX, 1))
    BY <1>1, <2>1, EntryFields DEF FullMap
  <2>4. WithoutDfci[6] = Entry(MovedUp(5, 3), MovedUp(2, 1))
    BY <1>1, <2>1, EntryFields DEF FullMap
  <2> QED
    BY <2>2, <2>3, <2>4, MovedUpValues DEF MapWithoutDfci
<1>3. ASSUME NEW map, Same(map)
      PROVE  LET left == RemoveMenuFromList(map, "HWH")
             IN  /\ Same(left) /\ left[4] = map[4]
                 /\ left[5] = Entry(UNUSED_INDEX, UNUSED_INDEX)
                 /\ left[6] = Entry(MovedUp(map[6].full, map[5].full),
                                    MovedUp(map[6].limited, map[5].limited))
  <2>1. RemoveMenuFromList(map, "HWH") =
           [c \in 1..6 |->
              IF c < 5 THEN map[c]
              ELSE IF c = 5 THEN Entry(UNUSED_INDEX, UNUSED_INDEX)
              ELSE Entry(MovedUp(map[c].full, map[5].full),
                         MovedUp(map[c].limited, map[5].limited))]
    BY <1>3, Positions, Removed DEF Same
  <2> QED
    BY <1>3, <2>1 DEF Same
<1>4. MapWithoutHwh(RemoveMenuFromList(mFormMap, "HWH"))
  BY <1>1, <1>3, EntryFields, MovedUpValues DEF FullMap, MapWithoutHwh
<1>5. MapWithoutBoth(RemoveMenuFromList(WithoutDfci, "HWH"))
  BY <1>2, <1>3, EntryFields, MovedUpValues DEF MapWithoutDfci, MapWithoutBoth
<1> QED
  BY <1>1, <1>2, <1>4, <1>5

(***************************************************************************)
(* Their columns.                                                          *)
(***************************************************************************)
LEMMA MapsLeftShape ==
  ASSUME NEW map \in MapsLeft
  PROVE  /\ DOMAIN map = 1..6
         /\ map \in Seq(IndexEntry)
         /\ Column(map, TRUE) \in FullColumns
         /\ Column(map, FALSE) \in LimitedColumns
         /\ \A c \in {2, 3, 5} : map[c].limited = UNUSED_INDEX
<1>1. \/ FullMap(map) \/ MapWithoutDfci(map) \/ MapWithoutHwh(map) \/ MapWithoutBoth(map)
  BY FourMaps DEF MapsLeft
<1>2. Same(map)
  BY <1>1 DEF FullMap, MapWithoutDfci, MapWithoutHwh, MapWithoutBoth
<1>3. \A f, l : f \in 0..UNUSED_INDEX /\ l \in 0..UNUSED_INDEX => Entry(f, l) \in IndexEntry
  BY DEF Entry, IndexEntry
<1>4. \A c \in 1..6 : map[c] \in IndexEntry
  <2>1. \A n \in 0..5 : n \in 0..UNUSED_INDEX
    BY DEF UNUSED_INDEX
  <2>2. UNUSED_INDEX \in 0..UNUSED_INDEX
    BY DEF UNUSED_INDEX
  <2>3. map[1] \in IndexEntry /\ map[2] \in IndexEntry /\ map[3] \in IndexEntry
    BY <1>2, <1>3, <2>1, <2>2 DEF Same
  <2>4. map[4] \in IndexEntry
    BY <1>1, <1>3, <2>1, <2>2 DEF FullMap, MapWithoutDfci, MapWithoutHwh, MapWithoutBoth
  <2>5. map[5] \in IndexEntry
    BY <1>1, <1>3, <2>1, <2>2 DEF FullMap, MapWithoutDfci, MapWithoutHwh, MapWithoutBoth
  <2>6. map[6] \in IndexEntry
    BY <1>1, <1>3, <2>1, <2>2 DEF FullMap, MapWithoutDfci, MapWithoutHwh, MapWithoutBoth
  <2> QED
    BY <2>3, <2>4, <2>5, <2>6
<1>5. map \in Seq(IndexEntry)
  <2>1. map = [c \in 1..6 |-> map[c]]
    <3>1. CASE map = mFormMap
      BY <3>1 DEF mFormMap
    <3>2. CASE map # mFormMap
      BY <1>2, <3>2 DEF Same, MapsLeft, WithoutDfci, RemoveMenuFromList
    <3> QED
      BY <3>1, <3>2
  <2> QED
    BY <1>4, <2>1
<1>6. Column(map, TRUE) \in FullColumns
  <2>0. /\ map[1].full = 0
       
        /\ map[2].full = 1
       
        /\ map[3].full = 2
    BY <1>2, EntryFields DEF Same
  <2>1. CASE FullMap(map)
    <3>1. /\ map[4].full = 3
          /\ map[5].full = 4
          /\ map[6].full = 5
      BY EntryFields, <2>1 DEF FullMap
    <3>2. Column(map, TRUE) = <<0, 1, 2, 3, 4, 5>>
      BY <2>0, <3>1 DEF Column, Index
    <3> QED
      BY <3>2 DEF FullColumns
  <2>2. CASE MapWithoutDfci(map)
    <3>1. /\ map[4].full = UNUSED_INDEX
          /\ map[5].full = 3
          /\ map[6].full = 4
      BY EntryFields, <2>2 DEF MapWithoutDfci
    <3>2. Column(map, TRUE) = <<0, 1, 2, UNUSED_INDEX, 3, 4>>
      BY <2>0, <3>1 DEF Column, Index
    <3> QED
      BY <3>2 DEF FullColumns
  <2>3. CASE MapWithoutHwh(map)
    <3>1. /\ map[4].full = 3
          /\ map[5].full = UNUSED_INDEX
          /\ map[6].full = 4
      BY EntryFields, <2>3 DEF MapWithoutHwh
    <3>2. Column(map, TRUE) = <<0, 1, 2, 3, UNUSED_INDEX, 4>>
      BY <2>0, <3>1 DEF Column, Index
    <3> QED
      BY <3>2 DEF FullColumns
  <2>4. CASE MapWithoutBoth(map)
    <3>1. /\ map[4].full = UNUSED_INDEX
          /\ map[5].full = UNUSED_INDEX
          /\ map[6].full = 3
      BY EntryFields, <2>4 DEF MapWithoutBoth
    <3>2. Column(map, TRUE) = <<0, 1, 2, UNUSED_INDEX, UNUSED_INDEX, 3>>
      BY <2>0, <3>1 DEF Column, Index
    <3> QED
      BY <3>2 DEF FullColumns
  <2> QED
    BY <1>1, <2>1, <2>2, <2>3, <2>4
<1>7. Column(map, FALSE) \in LimitedColumns
  <2>0. /\ map[1].limited = 0
        /\ map[2].limited = UNUSED_INDEX
        /\ map[3].limited = UNUSED_INDEX
    BY <1>2, EntryFields DEF Same
  <2>1. CASE FullMap(map)
    <3>1. /\ map[4].limited = 1
          /\ map[5].limited = UNUSED_INDEX
          /\ map[6].limited = 2
      BY EntryFields, <2>1 DEF FullMap
    <3>2. Column(map, FALSE) = <<0, UNUSED_INDEX, UNUSED_INDEX, 1, UNUSED_INDEX, 2>>
      BY <2>0, <3>1 DEF Column, Index
    <3> QED
      BY <3>2 DEF LimitedColumns
  <2>2. CASE MapWithoutDfci(map)
    <3>1. /\ map[4].limited = UNUSED_INDEX
          /\ map[5].limited = UNUSED_INDEX
          /\ map[6].limited = 1
      BY EntryFields, <2>2 DEF MapWithoutDfci
    <3>2. Column(map, FALSE) = <<0, UNUSED_INDEX, UNUSED_INDEX, UNUSED_INDEX, UNUSED_INDEX, 1>>
      BY <2>0, <3>1 DEF Column, Index
    <3> QED
      BY <3>2 DEF LimitedColumns
  <2>3. CASE MapWithoutHwh(map)
    <3>1. /\ map[4].limited = 1
          /\ map[5].limited = UNUSED_INDEX
          /\ map[6].limited = 2
      BY EntryFields, <2>3 DEF MapWithoutHwh
    <3>2. Column(map, FALSE) = <<0, UNUSED_INDEX, UNUSED_INDEX, 1, UNUSED_INDEX, 2>>
      BY <2>0, <3>1 DEF Column, Index
    <3> QED
      BY <3>2 DEF LimitedColumns
  <2>4. CASE MapWithoutBoth(map)
    <3>1. /\ map[4].limited = UNUSED_INDEX
          /\ map[5].limited = UNUSED_INDEX
          /\ map[6].limited = 1
      BY EntryFields, <2>4 DEF MapWithoutBoth
    <3>2. Column(map, FALSE) = <<0, UNUSED_INDEX, UNUSED_INDEX, UNUSED_INDEX, UNUSED_INDEX, 1>>
      BY <2>0, <3>1 DEF Column, Index
    <3> QED
      BY <3>2 DEF LimitedColumns
  <2> QED
    BY <1>1, <2>1, <2>2, <2>3, <2>4
<1>8. \A c \in {2, 3, 5} : map[c].limited = UNUSED_INDEX
  BY <1>1, EntryFields DEF FullMap, MapWithoutDfci, MapWithoutHwh, MapWithoutBoth, Same
<1> QED
  BY <1>2, <1>5, <1>6, <1>7, <1>8 DEF Same

LEMMA StartMap ==
  /\ mFormMap \in Seq(IndexEntry)
  /\ \A c \in {2, 3, 5} : mFormMap[c].limited = UNUSED_INDEX
BY MapsLeftShape DEF MapsLeft

(***************************************************************************)
(* The list box for a map with some entries taken out.                     *)
(***************************************************************************)
LEMMA MapsLeftList ==
  ASSUME NEW map \in MapsLeft, NEW full \in BOOLEAN
  PROVE  /\ Lists(map, full, MenuOptions(map, full))
         /\ MenuOptions(map, full) \in Seq(Labels)
         /\ Len(MenuOptions(map, full)) \in 1..6
<1>1. Column(map, full) \in FullColumns \cup LimitedColumns
  <2>1. CASE full = TRUE
    BY <2>1, MapsLeftShape
  <2>2. CASE full = FALSE
    BY <2>2, MapsLeftShape
  <2> QED
    BY <2>1, <2>2
<1> QED
  BY <1>1, MapsLeftShape, ColumnsList

-----------------------------------------------------------------------------
(***************************************************************************)
(* What the operations of PasswordStoreLib leave in the variable.          *)
(***************************************************************************)
PasswordTypes == password \in Stored /\ attributesMatch \in BOOLEAN /\ readFailed \in BOOLEAN

LEMMA SetPasswordTypes ==
  ASSUME NEW hash, NEW ok, PasswordTypes, PasswordStoreSetPassword(hash, ok)
  PROVE  password' \in Stored /\ attributesMatch' \in BOOLEAN
BY DEF PasswordTypes, PasswordStoreSetPassword, PasswordPolicyValidatePasswordHash, Stored

LEMMA IsPasswordSetTypes ==
  ASSUME NEW set, PasswordTypes, PasswordStoreIsPasswordSet(set)
  PROVE  PasswordTypes'
<1>1. PICK readable \in BOOLEAN :
        /\ ReadPassword(readable)
        /\ IF ~readable \/ password = "absent" THEN
             ~set /\ \E ok \in BOOLEAN : PasswordStoreSetPassword("deleted", ok)
           ELSE
             set = (password # "deleted") /\ UNCHANGED <<password, attributesMatch>>
  BY DEF PasswordStoreIsPasswordSet
<1>2. readFailed' \in BOOLEAN
  BY <1>1 DEF ReadPassword
<1>3. password' \in Stored /\ attributesMatch' \in BOOLEAN
  <2>1. CASE ~readable \/ password = "absent"
    BY <1>1, <2>1, SetPasswordTypes
  <2>2. CASE readable /\ password # "absent"
    BY <1>1, <2>2 DEF PasswordTypes
  <2> QED
    BY <2>1, <2>2
<1> QED
  BY <1>2, <1>3 DEF PasswordTypes

LEMMA InitializeTypes ==
  ASSUME PasswordTypes, PasswordStoreInitializeLib
  PROVE  PasswordTypes'
<1>1. PICK readable \in BOOLEAN :
        /\ ReadPassword(readable)
        /\ IF ~readable \/ password = "absent" \/ ~attributesMatch
           THEN \E ok \in BOOLEAN : PasswordStoreSetPassword("deleted", ok)
           ELSE UNCHANGED <<password, attributesMatch>>
  BY DEF PasswordStoreInitializeLib
<1>2. readFailed' \in BOOLEAN
  BY <1>1 DEF ReadPassword
<1>3. password' \in Stored /\ attributesMatch' \in BOOLEAN
  <2>1. CASE \E ok \in BOOLEAN : PasswordStoreSetPassword("deleted", ok)
    BY <2>1, SetPasswordTypes
  <2>2. CASE UNCHANGED <<password, attributesMatch>>
    BY <2>2 DEF PasswordTypes
  <2> QED
    BY <1>1, <2>1, <2>2
<1> QED
  BY <1>2, <1>3 DEF PasswordTypes

(***************************************************************************)
(* GetAuthToken succeeds with a token only if the token is published.      *)
(***************************************************************************)
LEMMA GetAuthTokenResult ==
  ASSUME NEW input, NEW result \in BOOLEAN, PasswordTypes, GetAuthToken(input, result),
         token \in {"invalid", "live"}, published \in BOOLEAN
  PROVE  /\ PasswordTypes'
         /\ token' \in {"invalid", "live"}
         /\ published' \in BOOLEAN
         /\ result /\ token' = "live" => published'
<1>1. ASSUME NEW accepted, PasswordStoreAuthenticatePassword(input, accepted) PROVE PasswordTypes'
  BY <1>1, IsPasswordSetTypes DEF PasswordStoreAuthenticatePassword
<1>2. CASE UNCHANGED <<passwordVars, token, published>> /\ ~result
  BY <1>2 DEF passwordVars, PasswordTypes
<1>3. CASE PasswordStoreAuthenticatePassword(input, FALSE) /\ ~result
             /\ UNCHANGED <<token, published>>
  BY <1>1, <1>3
<1>4. CASE /\ PasswordStoreAuthenticatePassword(input, TRUE)
           /\ token' \in {"live", "invalid"}
           /\ published' = (published \/ (result /\ token' = "live"))
  BY <1>1, <1>4
<1> QED
  BY <1>2, <1>3, <1>4 DEF GetAuthToken

(***************************************************************************)
(* The parts of the type invariant that a step disturbs or leaves alone.   *)
(***************************************************************************)
KeyTypes ==
  /\ keys \in Configs
  /\ request \in 0..255
  /\ keyStage \in KeyStages
  /\ keyStatus \in {"success", "error"}

FlagTypes ==
  /\ published \in BOOLEAN /\ showFullMenu \in BOOLEAN /\ reduced \in BOOLEAN
  /\ closing \in BOOLEAN /\ terminate \in BOOLEAN /\ policy \in BOOLEAN
  /\ resetRequired \in BOOLEAN /\ bootNext \in BOOLEAN

PlaceTypes ==
  /\ pc \in PcStates
  /\ token \in {"invalid", "live"}
  /\ attempts \in 0..255
  /\ locks \in {"unknown", "off", "on"}
  /\ menuKeys \in {0, KeyCount}
  /\ statusText \in Configs

MenuTypes ==
  /\ formMap \in Seq(IndexEntry)
  /\ cells \in Seq(Labels)
  /\ current \in 0..6
  /\ form \in Labels \cup {"none"}

LEMMA TypeParts ==
  FrontPageTypeOK <=> PasswordTypes /\ KeyTypes /\ FlagTypes /\ PlaceTypes /\ MenuTypes
<1>1. Len(Menus) = 6
  BY DEF Menus
<1>2. {published, showFullMenu, reduced, closing, terminate, policy, resetRequired, bootNext}
         \subseteq BOOLEAN <=> FlagTypes
  BY Zenon DEF FlagTypes
<1> QED
  BY <1>1, <1>2 DEF FrontPageTypeOK, PasswordTypes, KeyTypes, PlaceTypes, MenuTypes, IndexEntry

LEMMA TypePartsAfter ==
  FrontPageTypeOK' <=> PasswordTypes' /\ KeyTypes' /\ FlagTypes' /\ PlaceTypes' /\ MenuTypes'
<1>1. Len(Menus) = 6
  BY DEF Menus
<1>2. ({published, showFullMenu, reduced, closing, terminate, policy, resetRequired, bootNext}
         \subseteq BOOLEAN <=> FlagTypes)'
  BY Zenon DEF FlagTypes
<1> QED
  BY <1>1, <1>2 DEF FrontPageTypeOK, PasswordTypes, KeyTypes, PlaceTypes, MenuTypes, IndexEntry

-----------------------------------------------------------------------------
LEMMA SessionInvInit == FrontPageInit => SessionInv
<1> SUFFICES ASSUME FrontPageInit PROVE SessionInv
  OBVIOUS
<1>1. FrontPageTypeOK
  <2>1. PasswordTypes /\ FlagTypes
    BY DEF FrontPageInit, PasswordTypes, FlagTypes
  <2>2. KeyTypes
    BY DEF FrontPageInit, KeyTypes, KeyStages
  <2>3. PlaceTypes
    BY DEF FrontPageInit, PlaceTypes, PcStates, Configs
  <2>4. MenuTypes
    BY StartMap DEF FrontPageInit, MenuTypes
  <2> QED
    BY <2>1, <2>2, <2>3, <2>4, TypeParts
<1>2. KeyChangeInv /\ SecurityInv /\ TokenInv
  BY DEF FrontPageInit, KeyChangeInv, SecurityInv, TokenInv, BeforeMenu, InSession
<1>3. MenuInv
  BY StartMap DEF FrontPageInit, MenuInv, BeforeMenu, InSession, Restricted
<1> QED
  BY <1>1, <1>2, <1>3 DEF SessionInv

LEMMA PowerOnKeeps == ASSUME SessionInv, PowerOn PROVE SessionInv'
<1>1. FrontPageTypeOK'
  <2> USE TypeParts DEF SessionInv
  <2>1. PasswordTypes' /\ FlagTypes'
    BY DEF PowerOn, PasswordTypes, FlagTypes
  <2>2. KeyTypes'
    BY DEF PowerOn, KeyTypes, KeyStages
  <2>3. PlaceTypes'
    BY DEF PowerOn, PlaceTypes, PcStates, Configs
  <2>4. MenuTypes'
    BY StartMap DEF PowerOn, MenuTypes
  <2> QED
    BY <2>1, <2>2, <2>3, <2>4, TypePartsAfter
<1>2. KeyChangeInv' /\ SecurityInv' /\ TokenInv'
  BY DEF PowerOn, KeyChangeInv, SecurityInv, TokenInv, BeforeMenu, InSession
<1>3. MenuInv'
  BY StartMap DEF PowerOn, MenuInv, BeforeMenu, InSession, Restricted
<1> QED
  BY <1>1, <1>2, <1>3 DEF SessionInv

(***************************************************************************)
(* SecureBootModeSet runs beside everything else, but only before          *)
(* FrontPage starts and while HandleSecureBootChange waits.                *)
(***************************************************************************)
LEMMA KeyStepTypes ==
  ASSUME KeyTypes, KeyChangeInv, SecureBootModeSet
  PROVE  KeyTypes'
<1> USE DEF KeyTypes, KeyStages
<1>1. CASE KeyStoreMissing \/ CustomKeys \/ AlreadySet \/ NoSuchKeys
  BY <1>1 DEF KeyStoreMissing, CustomKeys, AlreadySet, NoSuchKeys, Return
<1>2. CASE StartChange
  BY <1>2 DEF StartChange
<1>3. CASE DeleteSecureBootVariables
  <2>1. keys' \in {keys, MU_SB_CONFIG_NONE} /\ MU_SB_CONFIG_NONE \in Configs
    BY <1>3 DEF DeleteSecureBootVariables, Configs
  <2> QED
    BY <1>3, <2>1 DEF DeleteSecureBootVariables, Return
<1>4. CASE SetSecureBootConfig
  <2>1. request \in Configs
    BY <1>4, KeyCountAssumption DEF SetSecureBootConfig, KeyChangeInv, Configs
  <2> QED
    BY <1>4, <2>1 DEF SetSecureBootConfig, Return, Configs
<1> QED
  BY <1>1, <1>2, <1>3, <1>4 DEF SecureBootModeSet

LEMMA KeyStepOrder ==
  ASSUME KeyChangeInv, SecureBootModeSet, UNCHANGED pc
  PROVE  KeyChangeInv'
<1> USE DEF KeyChangeInv
<1>0. pc \in {"dxe", "changeKeys"}
  BY DEF SecureBootModeSet, KeyStoreMissing, CustomKeys, AlreadySet, NoSuchKeys, StartChange,
         DeleteSecureBootVariables, SetSecureBootConfig
<1>1. CASE KeyStoreMissing \/ CustomKeys \/ AlreadySet \/ NoSuchKeys
  BY <1>1 DEF KeyStoreMissing, CustomKeys, AlreadySet, NoSuchKeys, Return
<1>2. CASE StartChange
  BY <1>0, <1>2 DEF StartChange
<1>3. CASE DeleteSecureBootVariables
  BY <1>0, <1>3 DEF DeleteSecureBootVariables, Return
<1>4. CASE SetSecureBootConfig
  BY <1>0, <1>4 DEF SetSecureBootConfig, Return
<1> QED
  BY <1>1, <1>2, <1>3, <1>4 DEF SecureBootModeSet

LEMMA RunKeyChangeKeeps == ASSUME SessionInv, RunKeyChange PROVE SessionInv'
<1> USE DEF RunKeyChange, SessionInv, passwordVars, sessionVars, challengeVars, menuVars, securityVars
<1>0. pc \in {"dxe", "changeKeys"}
  BY DEF KeyChangeInv, SecureBootModeSet, KeyStoreMissing, CustomKeys, AlreadySet, NoSuchKeys,
         StartChange, DeleteSecureBootVariables, SetSecureBootConfig
<1>1. FrontPageTypeOK'
  <2>1. KeyTypes'
    BY KeyStepTypes, TypeParts
  <2>2. PasswordTypes' /\ FlagTypes' /\ PlaceTypes' /\ MenuTypes'
    BY TypeParts DEF PasswordTypes, FlagTypes, PlaceTypes, MenuTypes
  <2> QED
    BY <2>1, <2>2, TypePartsAfter
<1>2. KeyChangeInv'
  BY KeyStepOrder
<1>3. statusText' # keys' /\ pc = "changeKeys"
        => keys' = MU_SB_CONFIG_NONE \/ (keyStage' = "idle" /\ keyStatus' = "success")
  BY DEF SecurityInv, KeyChangeInv, SecureBootModeSet, KeyStoreMissing, CustomKeys, AlreadySet,
         NoSuchKeys, StartChange, DeleteSecureBootVariables, SetSecureBootConfig, Return
<1>4. SecurityInv' /\ TokenInv' /\ MenuInv'
  BY <1>0, <1>3 DEF SecurityInv, TokenInv, MenuInv
<1> QED
  BY <1>1, <1>2, <1>4

LEMMA ApplyKeysRemotelyKeeps == ASSUME SessionInv, ApplyKeysRemotely PROVE SessionInv'
<1> USE DEF SessionInv, passwordVars, sessionVars, challengeVars, menuVars, securityVars
<1>1. PICK value \in (0..(KeyCount + 1)) \cup {SecureBootModeGetDefault} : Call(value)
  BY DEF ApplyKeysRemotely
<1>2. value \in 0..255
  BY KeyCountAssumption DEF SecureBootModeGetDefault, MU_SB_CONFIG_NONE
<1>3. FrontPageTypeOK'
  <2>1. KeyTypes'
    BY <1>1, <1>2, TypeParts DEF Call, KeyTypes, KeyStages
  <2>2. PasswordTypes' /\ FlagTypes' /\ PlaceTypes' /\ MenuTypes'
    BY TypeParts DEF ApplyKeysRemotely, PasswordTypes, FlagTypes, PlaceTypes, MenuTypes
  <2> QED
    BY <2>1, <2>2, TypePartsAfter
<1>4. KeyChangeInv'
  BY <1>1 DEF ApplyKeysRemotely, Call, KeyChangeInv
<1>5. SecurityInv' /\ TokenInv' /\ MenuInv'
  BY <1>1 DEF ApplyKeysRemotely, Call, SecurityInv, TokenInv, MenuInv
<1> QED
  BY <1>3, <1>4, <1>5

-----------------------------------------------------------------------------
(***************************************************************************)
(* Before the menu exists only the challenge changes anything.             *)
(***************************************************************************)
LEMMA BeforeChallengeKeeps ==
  ASSUME SessionInv, PasswordStoreLibConstructor \/ UefiMain
  PROVE  SessionInv'
<1> USE DEF SessionInv
<1>1. CASE PasswordStoreLibConstructor
  <2> USE <1>1 DEF PasswordStoreLibConstructor, sessionVars, challengeVars, menuVars, securityVars, keyVars
  <2>1. FrontPageTypeOK'
    <3>1. PasswordTypes'
      BY InitializeTypes, TypeParts
    <3>2. KeyTypes' /\ FlagTypes' /\ PlaceTypes' /\ MenuTypes'
      BY TypeParts DEF KeyTypes, FlagTypes, PlaceTypes, PcStates, MenuTypes
    <3> QED
      BY <3>1, <3>2, TypePartsAfter
  <2>2. KeyChangeInv' /\ SecurityInv' /\ TokenInv' /\ MenuInv'
    BY DEF KeyChangeInv, SecurityInv, TokenInv, MenuInv, BeforeMenu, InSession
  <2> QED
    BY <2>1, <2>2
<1>2. CASE UefiMain
  <2> USE <1>2 DEF UefiMain, challengeVars, menuVars
  <2>0. bootNext' \in BOOLEAN
    BY TypeParts DEF DeleteBootNext, FlagTypes
  <2>1. FrontPageTypeOK'
    <3>1. PasswordTypes' /\ FlagTypes' /\ MenuTypes'
      BY <2>0, TypeParts DEF passwordVars, PasswordTypes, FlagTypes, MenuTypes
    <3>2. KeyTypes' /\ PlaceTypes'
      BY TypeParts DEF KeyTypes, PlaceTypes, PcStates
    <3> QED
      BY <3>1, <3>2, TypePartsAfter
  <2>2. KeyChangeInv' /\ SecurityInv' /\ TokenInv' /\ MenuInv'
    BY DEF KeyChangeInv, SecurityInv, TokenInv, MenuInv, BeforeMenu, InSession
  <2> QED
    BY <2>1, <2>2
<1> QED
  BY <1>1, <1>2

(***************************************************************************)
(* The challenge goes on or leads to the menu, to the full one with a      *)
(* token that is published.                                                *)
(***************************************************************************)
LEMMA ChallengeGoesOn ==
  ASSUME SessionInv,
         pc \in {"authenticate", "challenge"}, pc' \in {"challenge", "createMenu"},
         UNCHANGED <<keyVars, reduced, menuVars, securityVars, resetRequired, bootNext>>,
         PasswordTypes', token' \in {"invalid", "live"}, published' \in BOOLEAN,
         showFullMenu' \in BOOLEAN, attempts' \in 0..255,
         showFullMenu' => pc' = "createMenu" /\ token' = "live" /\ published'
  PROVE  SessionInv'
<1> USE DEF SessionInv, keyVars, menuVars, securityVars
<1>1. FrontPageTypeOK'
  <2>1. KeyTypes' /\ FlagTypes' /\ PlaceTypes' /\ MenuTypes'
    BY TypeParts DEF KeyTypes, FlagTypes, PlaceTypes, PcStates, MenuTypes
  <2> QED
    BY <2>1, TypePartsAfter
<1>2. KeyChangeInv' /\ SecurityInv'
  BY DEF KeyChangeInv, SecurityInv, BeforeMenu
<1>3. TokenInv' /\ MenuInv'
  BY DEF TokenInv, MenuInv, BeforeMenu, InSession, Restricted
<1> QED
  BY <1>1, <1>2, <1>3

LEMMA TryWithoutPasswordKeeps == ASSUME SessionInv, TryWithoutPassword PROVE SessionInv'
<1>1. PICK result \in BOOLEAN :
        /\ GetAuthToken(NullPassword, result)
        /\ showFullMenu' = (result /\ token' = "live")
        /\ pc' = IF result THEN "createMenu" ELSE "challenge"
        /\ IF result THEN UNCHANGED attempts ELSE attempts' \in AttemptSettings
  BY DEF TryWithoutPassword
<1>2. /\ PasswordTypes' /\ token' \in {"invalid", "live"} /\ published' \in BOOLEAN
      /\ result /\ token' = "live" => published'
  BY <1>1, GetAuthTokenResult, TypeParts DEF SessionInv, PlaceTypes, FlagTypes
<1>3. attempts' \in 0..255
  BY <1>1, AttemptAssumption, TypeParts DEF SessionInv, PlaceTypes
<1>4. showFullMenu' \in BOOLEAN /\ (showFullMenu' => result /\ token' = "live")
  BY <1>1
<1> QED
  BY <1>1, <1>2, <1>3, <1>4, ChallengeGoesOn DEF TryWithoutPassword

LEMMA AnswerChallengeKeeps == ASSUME SessionInv, AnswerChallenge PROVE SessionInv'
<1>0. ~showFullMenu /\ attempts \in 0..255 /\ pc = "challenge"
  BY TypeParts DEF AnswerChallenge, EnterPassword, CancelChallenge, SessionInv, TokenInv, BeforeMenu,
                   PlaceTypes
<1>1. CASE EnterPassword
  <2>1. PICK input \in Inputs, result \in BOOLEAN :
          /\ GetAuthToken(input, result)
          /\ IF result THEN PasswordAccepted ELSE PasswordRejected
    BY <1>1 DEF EnterPassword
  <2>2. /\ PasswordTypes' /\ token' \in {"invalid", "live"} /\ published' \in BOOLEAN
        /\ result /\ token' = "live" => published'
    BY <2>1, GetAuthTokenResult, TypeParts DEF SessionInv, PlaceTypes, FlagTypes
  <2>3. CASE result
    <3>1. pc' = "createMenu" /\ attempts' \in 0..255
      BY <2>1, <2>3 DEF PasswordAccepted
    <3>2. showFullMenu' \in BOOLEAN /\ (showFullMenu' => token' = "live")
      BY <2>1, <2>3 DEF PasswordAccepted
    <3> QED
      BY <1>0, <1>1, <2>2, <2>3, <3>1, <3>2, ChallengeGoesOn DEF EnterPassword
  <2>4. CASE ~result
    <3>1. pc' \in {"challenge", "createMenu"} /\ attempts' \in 0..255
      BY <1>0, <2>1, <2>4 DEF PasswordRejected
    <3>2. showFullMenu' \in BOOLEAN /\ ~showFullMenu'
      BY <1>0, <2>1, <2>4, TypeParts DEF PasswordRejected, SessionInv, FlagTypes
    <3> QED
      BY <1>0, <1>1, <2>2, <3>1, <3>2, ChallengeGoesOn DEF EnterPassword
  <2> QED
    BY <2>3, <2>4
<1>2. CASE CancelChallenge
  <2>1. PasswordTypes' /\ token' \in {"invalid", "live"} /\ published' \in BOOLEAN
        /\ showFullMenu' \in BOOLEAN /\ ~showFullMenu'
    BY <1>0, <1>2, TypeParts DEF CancelChallenge, SessionInv, passwordVars, PasswordTypes, PlaceTypes,
                                 FlagTypes
  <2> QED
    BY <1>0, <1>2, <2>1, ChallengeGoesOn DEF CancelChallenge
<1> QED
  BY <1>1, <1>2 DEF AnswerChallenge

-----------------------------------------------------------------------------
(***************************************************************************)
(* The menu, and the loop over the forms.                                  *)
(***************************************************************************)
LEMMA CreateTopMenuKeeps == ASSUME SessionInv, CreateTopMenu PROVE SessionInv'
<1> USE DEF SessionInv
<1>1. formMap = mFormMap /\ form = "none" /\ pc = "createMenu"
  BY DEF CreateTopMenu, MenuInv, BeforeMenu
<1>2. formMap' \in MapsLeft
  BY <1>1 DEF CreateTopMenu, MapsLeft, WithoutDfci
<1>3. showFullMenu \in BOOLEAN /\ showFullMenu' = showFullMenu
  BY TypeParts DEF CreateTopMenu, FlagTypes
<1>4. cells' = MenuOptions(formMap', showFullMenu)
  BY DEF CreateTopMenu
<1>5. Lists(formMap', showFullMenu', cells') /\ cells' \in Seq(Labels) /\ Len(cells') \in 1..6
  BY <1>2, <1>3, <1>4, MapsLeftList
<1>6. FrontPageTypeOK'
  <2>1. PasswordTypes' /\ KeyTypes' /\ FlagTypes'
    BY TypeParts DEF CreateTopMenu, PasswordTypes, KeyTypes, keyVars, FlagTypes, securityVars
  <2>2. PlaceTypes'
    BY TypeParts DEF CreateTopMenu, PlaceTypes, PcStates, securityVars
  <2>3. MenuTypes'
    <3>1. formMap' \in Seq(IndexEntry)
      BY <1>2, MapsLeftShape
    <3>2. form' = "none" /\ current' = 0
      BY <1>1 DEF CreateTopMenu
    <3> QED
      BY <1>5, <3>1, <3>2 DEF MenuTypes
  <2> QED
    BY <2>1, <2>2, <2>3, TypePartsAfter
<1>7. KeyChangeInv' /\ SecurityInv' /\ TokenInv'
  BY <1>1 DEF CreateTopMenu, KeyChangeInv, keyVars, SecurityInv, securityVars, TokenInv, BeforeMenu,
              InSession
<1>8. MenuInv'
  <2>1. \A c \in {2, 3, 5} : formMap'[c].limited = UNUSED_INDEX
    BY <1>2, MapsLeftShape
  <2>2. pc' = "loop" /\ current' = 0 /\ form' = "none"
    BY <1>1 DEF CreateTopMenu
  <2>3. current' < Len(cells') /\ Len(cells') <= 6
    <3>1. \A n \in 1..6 : 0 < n /\ n <= 6
      OBVIOUS
    <3> QED
      BY <1>5, <2>2, <3>1, Zenon
  <2> QED
    BY <1>5, <2>1, <2>2, <2>3 DEF MenuInv, BeforeMenu, InSession, Restricted
<1> QED
  BY <1>6, <1>7, <1>8

LEMMA CallFrontPageKeeps == ASSUME SessionInv, CallFrontPage PROVE SessionInv'
<1> USE DEF SessionInv
<1> DEFINE found == Matching(formMap, showFullMenu, current)
           opened == Menus[CHOOSE c \in found : \A d \in found : c <= d]
<1>1. UNCHANGED <<passwordVars, keyVars, challengeVars, formMap, cells, current, policy, menuKeys,
                  statusText, resetRequired, bootNext>>
       /\ pc = "loop" /\ terminate' = TRUE /\ closing' = FALSE
  BY DEF CallFrontPage
<1>2. current + 1 \in DOMAIN cells
  <2>1. cells \in Seq(Labels) /\ current \in 0..6 /\ current < Len(cells)
    BY <1>1, TypeParts DEF MenuInv, InSession, MenuTypes
  <2> QED
    BY <2>1
<1>3. PICK c \in DOMAIN Menus : found = {c} /\ cells[current + 1] = Menus[c]
  <2>1. current \in 0..6
    BY TypeParts DEF MenuTypes
  <2>2. (current + 1) - 1 = current
    BY <2>1
  <2>3. \E c \in DOMAIN Menus : Matching(formMap, showFullMenu, (current + 1) - 1) = {c}
                                  /\ cells[current + 1] = Menus[c]
    BY <1>1, <1>2 DEF MenuInv, InSession, Lists
  <2> QED
    BY <2>2, <2>3
<1>4. opened = Menus[c]
  <2>1. DOMAIN Menus = 1..6
    BY DEF Menus
  <2>2. c <= c
    BY <2>1
  <2>3. \A b \in found : b = c
    BY <1>3
  <2>4. (CHOOSE b \in found : \A d \in found : b <= d) = c
    <3> HIDE DEF found
    <3> QED
      BY <1>3, <2>2, <2>3
  <2> QED
    BY <2>4
<1>5. form' = Menus[c] /\ pc' = "form" /\ locks' \in {"unknown", "off", "on"}
  <2>1. found # {}
    BY <1>3
  <2>2. form' = opened /\ pc' = "form" /\ IsPostReadyToBoot
    BY <2>1 DEF CallFrontPage
  <2> QED
    BY <1>4, <2>2, TypeParts DEF IsPostReadyToBoot, PlaceTypes
<1>6. form' \in Restricted => showFullMenu
  <2>1. ASSUME ~showFullMenu PROVE c \notin {2, 3, 5}
    <3>1. Index(formMap[c], showFullMenu) = current
      BY <1>3 DEF Matching
    <3>2. Index(formMap[c], showFullMenu) = formMap[c].limited
      BY <2>1 DEF Index
    <3>3. current # UNUSED_INDEX
      BY TypeParts DEF MenuTypes, UNUSED_INDEX
    <3> QED
      BY <3>1, <3>2, <3>3 DEF MenuInv
  <2>2. c \notin {2, 3, 5} => Menus[c] \notin Restricted
    BY DEF Menus, Restricted
  <2> QED
    BY <1>5, <2>1, <2>2
<1>7. FrontPageTypeOK'
  <2>1. PasswordTypes' /\ KeyTypes' /\ FlagTypes'
    BY <1>1, TypeParts DEF PasswordTypes, passwordVars, KeyTypes, keyVars, FlagTypes, challengeVars
  <2>2. PlaceTypes'
    BY <1>1, <1>5, TypeParts DEF PlaceTypes, PcStates, challengeVars
  <2>3. MenuTypes'
    BY <1>1, <1>5, TypeParts DEF MenuTypes, Labels
  <2> QED
    BY <2>1, <2>2, <2>3, TypePartsAfter
<1>8. KeyChangeInv' /\ SecurityInv' /\ TokenInv'
  BY <1>1, <1>5 DEF KeyChangeInv, keyVars, SecurityInv, TokenInv, challengeVars, BeforeMenu, InSession
<1>9. MenuInv'
  BY <1>1, <1>3, <1>5, <1>6 DEF MenuInv, challengeVars, BeforeMenu, InSession
<1> QED
  BY <1>7, <1>8, <1>9

(***************************************************************************)
(* Another cell is selected while a form is shown.                         *)
(***************************************************************************)
LEMMA MasterFrameKeeps == ASSUME SessionInv, MasterFrameNotifyCallback PROVE SessionInv'
<1> USE DEF SessionInv
<1>1. PICK index \in 0..(Len(cells) - 1) : current' = index
  BY DEF MasterFrameNotifyCallback
<1>2. UNCHANGED <<passwordVars, keyVars, challengeVars, formMap, cells, form, securityVars,
                  resetRequired, bootNext, pc>>
       /\ pc = "form" /\ closing' = TRUE /\ terminate' = FALSE
  BY DEF MasterFrameNotifyCallback
<1>3. cells \in Seq(Labels) /\ Len(cells) <= 6
  BY <1>2, TypeParts DEF MenuTypes, MenuInv, InSession
<1>4. index < Len(cells) /\ index \in 0..6
  BY <1>3
<1>5. FrontPageTypeOK'
  <2>1. PasswordTypes' /\ KeyTypes' /\ FlagTypes'
    BY <1>2, TypeParts DEF PasswordTypes, passwordVars, KeyTypes, keyVars, FlagTypes, challengeVars,
                           securityVars
  <2>2. PlaceTypes'
    BY <1>2, TypeParts DEF PlaceTypes, challengeVars, securityVars
  <2>3. MenuTypes'
    BY <1>1, <1>2, <1>4, TypeParts DEF MenuTypes
  <2> QED
    BY <2>1, <2>2, <2>3, TypePartsAfter
<1>6. KeyChangeInv' /\ SecurityInv' /\ TokenInv'
  BY <1>2 DEF KeyChangeInv, keyVars, SecurityInv, securityVars, TokenInv, challengeVars
<1>7. MenuInv'
  BY <1>1, <1>2, <1>4 DEF MenuInv, challengeVars, BeforeMenu, InSession
<1> QED
  BY <1>5, <1>6, <1>7

-----------------------------------------------------------------------------
(***************************************************************************)
(* SendForm returns, for whatever reason; a reset that is due stays due.   *)
(***************************************************************************)
LEMMA SendFormKeeps ==
  ASSUME SessionInv, pc = "form", NEW action, SendFormReturns(action),
         UNCHANGED <<passwordVars, keyVars, challengeVars, securityVars>>,
         resetRequired' \in BOOLEAN, resetRequired => resetRequired', bootNext' \in BOOLEAN
  PROVE  SessionInv'
<1> USE DEF SessionInv, passwordVars, keyVars, challengeVars, securityVars
<1>1. pc' \in {"loop", "leave"} /\ form' = "none" /\ terminate' \in BOOLEAN
       /\ UNCHANGED <<formMap, cells, current, closing>>
  BY TypeParts DEF SendFormReturns, FlagTypes
<1>2. FrontPageTypeOK'
  <2>1. PasswordTypes' /\ KeyTypes' /\ FlagTypes'
    BY <1>1, TypeParts DEF PasswordTypes, KeyTypes, FlagTypes
  <2>2. PlaceTypes' /\ MenuTypes'
    BY <1>1, TypeParts DEF PlaceTypes, PcStates, MenuTypes
  <2> QED
    BY <2>1, <2>2, TypePartsAfter
<1>3. KeyChangeInv' /\ SecurityInv' /\ TokenInv'
  BY <1>1 DEF KeyChangeInv, SecurityInv, TokenInv, BeforeMenu, InSession
<1>4. MenuInv'
  BY <1>1 DEF MenuInv, BeforeMenu, InSession, Restricted
<1> QED
  BY <1>2, <1>3, <1>4

LEMMA StutterKeeps == ASSUME SessionInv, UNCHANGED frontPageVars PROVE SessionInv'
<1> USE DEF frontPageVars, sessionVars, passwordVars, keyVars, challengeVars, menuVars, securityVars
<1>1. FrontPageTypeOK'
  <2>1. PasswordTypes' /\ KeyTypes' /\ FlagTypes' /\ PlaceTypes' /\ MenuTypes'
    BY TypeParts DEF SessionInv, PasswordTypes, KeyTypes, FlagTypes, PlaceTypes, MenuTypes
  <2> QED
    BY <2>1, TypePartsAfter
<1> QED
  BY <1>1 DEF SessionInv, KeyChangeInv, SecurityInv, TokenInv, MenuInv

LEMMA FormClosedKeeps ==
  ASSUME SessionInv,
         CloseForm \/ CloseFormForReset \/ ExitFrontPage \/ HandleRebootToFrontPage \/ BootOptionNow
  PROVE  SessionInv'
<1>0. resetRequired \in BOOLEAN /\ bootNext \in BOOLEAN
  BY TypeParts DEF SessionInv, FlagTypes
<1>1. CASE CloseForm
  BY <1>0, <1>1, SendFormKeeps DEF CloseForm
<1>2. CASE CloseFormForReset
  BY <1>0, <1>2, SendFormKeeps DEF CloseFormForReset
<1>3. CASE ExitFrontPage
  BY <1>0, <1>3, SendFormKeeps DEF ExitFrontPage, InForm
<1>4. CASE HandleRebootToFrontPage
  <2>1. CASE SendFormReturns("exit") /\ resetRequired' = TRUE
    BY <1>0, <1>4, <2>1, SendFormKeeps DEF HandleRebootToFrontPage, SecurityButtons, InForm
  <2>2. CASE UNCHANGED <<menuVars, resetRequired, pc>>
    <3>1. UNCHANGED frontPageVars
      BY <1>4, <2>2 DEF HandleRebootToFrontPage, frontPageVars, sessionVars
    <3> QED
      BY <3>1, StutterKeeps
  <2> QED
    BY <1>4, <2>1, <2>2 DEF HandleRebootToFrontPage
<1>5. CASE BootOptionNow
  <2>1. bootNext' \in BOOLEAN
    BY <1>0, <1>5 DEF BootOptionNow
  <2> QED
    BY <1>0, <1>5, <2>1, SendFormKeeps DEF BootOptionNow, InForm
<1> QED
  BY <1>1, <1>2, <1>3, <1>4, <1>5

(***************************************************************************)
(* The dialog for the password, and the choice to leave the keys alone.    *)
(***************************************************************************)
LEMMA DialogKeeps ==
  ASSUME SessionInv, {pc, pc'} \subseteq {"form", "setPassword"},
         UNCHANGED <<keyVars, challengeVars, menuVars, securityVars, bootNext>>,
         PasswordTypes', resetRequired' \in BOOLEAN, resetRequired => resetRequired'
  PROVE  SessionInv'
<1> USE DEF SessionInv, keyVars, challengeVars, menuVars, securityVars
<1>1. pc \in {"form", "setPassword"} /\ pc' \in {"form", "setPassword"}
  OBVIOUS
<1>2. FrontPageTypeOK'
  <2>1. KeyTypes' /\ FlagTypes'
    BY TypeParts DEF KeyTypes, FlagTypes
  <2>2. PlaceTypes' /\ MenuTypes'
    BY <1>1, TypeParts DEF PlaceTypes, PcStates, MenuTypes
  <2> QED
    BY <2>1, <2>2, TypePartsAfter
<1>3. KeyChangeInv' /\ SecurityInv' /\ TokenInv'
  BY <1>1 DEF KeyChangeInv, SecurityInv, TokenInv, BeforeMenu, InSession
<1>4. MenuInv'
  BY <1>1 DEF MenuInv, BeforeMenu, InSession
<1> QED
  BY <1>2, <1>3, <1>4

LEMMA SetSystemPasswordTypes == ASSUME PasswordTypes, SetSystemPassword PROVE PasswordTypes'
<1>1. PICK input \in Inputs, stored \in BOOLEAN :
        \E hash \in PasswordPolicyGeneratePasswordHash(input) :
          IF hash # "failed" /\ token = "live"
          THEN /\ stored \/ Failures \/ ~attributesMatch
               /\ PasswordStoreSetPassword(hash, stored)
          ELSE ~stored /\ UNCHANGED <<password, attributesMatch>>
  BY DEF SetSystemPassword
<1>2. password' \in Stored /\ attributesMatch' \in BOOLEAN
  <2>1. CASE \E hash : PasswordStoreSetPassword(hash, stored)
    BY <2>1, SetPasswordTypes
  <2>2. CASE UNCHANGED <<password, attributesMatch>>
    BY <2>2 DEF PasswordTypes
  <2> QED
    BY <1>1, <2>1, <2>2
<1> QED
  BY <1>2 DEF PasswordTypes, SetSystemPassword

LEMMA SecurityDialogsKeep ==
  ASSUME SessionInv,
         OpenPasswordDialog \/ CancelPasswordDialog \/ SetSystemPassword \/ DeclineKeys
  PROVE  SessionInv'
<1> USE DEF sessionVars
<1>0. PasswordTypes /\ resetRequired \in BOOLEAN
  BY TypeParts DEF SessionInv, FlagTypes
<1>1. UNCHANGED passwordVars => PasswordTypes'
  BY <1>0 DEF passwordVars, PasswordTypes
<1>2. CASE OpenPasswordDialog
  BY <1>0, <1>1, <1>2, DialogKeeps DEF OpenPasswordDialog, SecurityButtons, InForm
<1>3. CASE CancelPasswordDialog
  BY <1>0, <1>1, <1>3, DialogKeeps DEF CancelPasswordDialog
<1>4. CASE SetSystemPassword
  <2>1. pc = "setPassword" /\ pc' \in {"form", "setPassword"}
    BY <1>4 DEF SetSystemPassword
  <2> QED
    BY <1>0, <1>4, <2>1, SetSystemPasswordTypes, DialogKeeps DEF SetSystemPassword
<1>5. CASE DeclineKeys
  BY <1>0, <1>1, <1>5, DialogKeeps DEF DeclineKeys, SecurityButtons, InForm
<1> QED
  BY <1>2, <1>3, <1>4, <1>5

(***************************************************************************)
(* A change of the keys: the policy is suspended before it, a reset is due *)
(* after it.                                                               *)
(***************************************************************************)
LEMMA ChooseKeysKeeps == ASSUME SessionInv, ChooseKeys PROVE SessionInv'
<1> USE DEF SessionInv, passwordVars, challengeVars, menuVars
<1>0. /\ UNCHANGED <<passwordVars, challengeVars, menuVars, locks, menuKeys, statusText,
                     resetRequired, bootNext>>
      /\ pc = "form" /\ form = "SECURITY" /\ ~closing /\ pc' = "changeKeys"
      /\ policy' \in BOOLEAN
  BY TypeParts DEF ChooseKeys, SecurityButtons, InForm, FlagTypes
<1>1. keyStage = "idle"
  BY <1>0 DEF KeyChangeInv
<1>2. PICK index \in 0..menuKeys :
        SetKeys(IF index = menuKeys THEN MU_SB_CONFIG_NONE ELSE index)
  BY DEF ChooseKeys
<1>3. (IF index = menuKeys THEN MU_SB_CONFIG_NONE ELSE index) \in 0..255
  BY KeyCountAssumption, TypeParts DEF PlaceTypes, MU_SB_CONFIG_NONE
<1>4. UNCHANGED keys /\ request' \in 0..255 /\ keyStage' \in {"idle", "set"}
       /\ keyStatus' \in {keyStatus, "error"}
  BY <1>2, <1>3 DEF SetKeys, Call, Return
<1>5. FrontPageTypeOK'
  <2>1. PasswordTypes' /\ KeyTypes' /\ FlagTypes'
    BY <1>0, <1>4, TypeParts DEF PasswordTypes, KeyTypes, KeyStages, FlagTypes
  <2>2. PlaceTypes' /\ MenuTypes'
    BY <1>0, TypeParts DEF PlaceTypes, PcStates, MenuTypes
  <2> QED
    BY <2>1, <2>2, TypePartsAfter
<1>6. KeyChangeInv' /\ SecurityInv' /\ TokenInv'
  BY <1>0, <1>4 DEF KeyChangeInv, SecurityInv, TokenInv, BeforeMenu, InSession
<1>7. MenuInv'
  BY <1>0 DEF MenuInv, BeforeMenu, InSession
<1> QED
  BY <1>5, <1>6, <1>7

LEMMA HandleSecureBootChangeKeeps == ASSUME SessionInv, HandleSecureBootChange PROVE SessionInv'
<1> USE DEF SessionInv, HandleSecureBootChange, passwordVars, keyVars, challengeVars, menuVars
<1>1. statusText' = IF keyStatus = "success" THEN keys ELSE statusText
  BY DEF UpdateSecureBootStatusStrings
<1>2. FrontPageTypeOK'
  <2>1. PasswordTypes' /\ KeyTypes' /\ FlagTypes'
    BY TypeParts DEF PasswordTypes, KeyTypes, FlagTypes
  <2>2. PlaceTypes' /\ MenuTypes'
    BY <1>1, TypeParts DEF PlaceTypes, KeyTypes, PcStates, MenuTypes
  <2> QED
    BY <2>1, <2>2, TypePartsAfter
<1>3. KeyChangeInv' /\ SecurityInv' /\ TokenInv'
  BY <1>1 DEF KeyChangeInv, SecurityInv, TokenInv, BeforeMenu, InSession
<1>4. MenuInv'
  BY DEF MenuInv, BeforeMenu, InSession
<1> QED
  BY <1>2, <1>3, <1>4

(***************************************************************************)
(* The ways out: with a reset due there is only the reset.                 *)
(***************************************************************************)
LEMMA LeaveKeeps ==
  ASSUME SessionInv, ResetSystem \/ ProcessBootNext \/ UninitializeFrontPage
  PROVE  SessionInv'
<1> USE DEF SessionInv, passwordVars, keyVars, challengeVars, menuVars, securityVars
<1>1. CASE ResetSystem
  BY <1>1, PowerOnKeeps DEF ResetSystem
<1>2. CASE ProcessBootNext \/ UninitializeFrontPage
  <2> USE <1>2 DEF ProcessBootNext, UninitializeFrontPage
  <2>1. FrontPageTypeOK'
    <3>1. PasswordTypes' /\ KeyTypes'
      BY TypeParts DEF PasswordTypes, KeyTypes
    <3>2. bootNext' \in BOOLEAN
      BY TypeParts DEF DeleteBootNext, FlagTypes
    <3>3. FlagTypes'
      BY <3>2, TypeParts DEF FlagTypes
    <3>4. PlaceTypes' /\ MenuTypes'
      BY TypeParts DEF PlaceTypes, PcStates, MenuTypes
    <3> QED
      BY <3>1, <3>3, <3>4, TypePartsAfter
  <2>2. KeyChangeInv' /\ SecurityInv' /\ TokenInv'
    BY DEF KeyChangeInv, SecurityInv, TokenInv, BeforeMenu, InSession
  <2>3. MenuInv'
    BY DEF MenuInv, BeforeMenu, InSession
  <2> QED
    BY <2>1, <2>2, <2>3
<1> QED
  BY <1>1, <1>2

LEMMA SessionInvStep == SessionInv /\ [FrontPageNext]_frontPageVars => SessionInv'
<1> SUFFICES ASSUME SessionInv, [FrontPageNext]_frontPageVars PROVE SessionInv'
  OBVIOUS
<1>1. CASE ApplyKeysRemotely
  BY <1>1, ApplyKeysRemotelyKeeps
<1>2. CASE RunKeyChange
  BY <1>2, RunKeyChangeKeeps
<1>3. CASE PasswordStoreLibConstructor \/ UefiMain
  BY <1>3, BeforeChallengeKeeps
<1>4. CASE TryWithoutPassword
  BY <1>4, TryWithoutPasswordKeeps
<1>5. CASE AnswerChallenge
  BY <1>5, AnswerChallengeKeeps
<1>6. CASE CreateTopMenu
  BY <1>6, CreateTopMenuKeeps
<1>7. CASE CallFrontPage
  BY <1>7, CallFrontPageKeeps
<1>8. CASE MasterFrameNotifyCallback
  BY <1>8, MasterFrameKeeps
<1>9. CASE CloseForm \/ CloseFormForReset \/ ExitFrontPage \/ HandleRebootToFrontPage \/ BootOptionNow
  BY <1>9, FormClosedKeeps
<1>10. CASE OpenPasswordDialog \/ CancelPasswordDialog \/ SetSystemPassword \/ DeclineKeys
  BY <1>10, SecurityDialogsKeep
<1>11. CASE ChooseKeys
  BY <1>11, ChooseKeysKeeps
<1>12. CASE HandleSecureBootChange
  BY <1>12, HandleSecureBootChangeKeeps
<1>13. CASE ResetSystem \/ ProcessBootNext \/ UninitializeFrontPage
  BY <1>13, LeaveKeeps
<1>14. CASE PowerOn
  BY <1>14, PowerOnKeeps
<1>15. CASE UNCHANGED frontPageVars
  BY <1>15, StutterKeeps
<1> QED
  BY <1>1, <1>2, <1>3, <1>4, <1>5, <1>6, <1>7, <1>8, <1>9, <1>10, <1>11, <1>12, <1>13, <1>14, <1>15
     DEF FrontPageNext

LEMMA SessionInvHolds == FrontPageSpec => []SessionInv
BY SessionInvInit, SessionInvStep, PTL DEF FrontPageSpec

-----------------------------------------------------------------------------
(***************************************************************************)
(* Every variable of the session has its type: the variable of the         *)
(* password never holds anything but a hash, the marker or a foreign       *)
(* record, and an index of the menu never leaves it.                       *)
(***************************************************************************)
THEOREM SessionTypeCorrect == FrontPageSpec => []FrontPageTypeOK
<1>1. SessionInv => FrontPageTypeOK
  BY DEF SessionInv
<1> QED
  BY <1>1, SessionInvHolds, PTL

(***************************************************************************)
(* The full menu, and with it the Security, boot order and HWH forms, is   *)
(* shown only in a session that holds a token that is published.           *)
(***************************************************************************)
THEOREM FullMenuWithToken == FrontPageSpec => []FullMenuHasToken
<1>1. SessionInv => FullMenuHasToken
  BY DEF SessionInv, TokenInv, MenuInv, FullMenuHasToken
<1> QED
  BY <1>1, SessionInvHolds, PTL

(***************************************************************************)
(* The cells of the menu are the forms that mFormMap still has, the last   *)
(* one is the way out, and a selected cell opens its own form.             *)
(***************************************************************************)
THEOREM CellsOpenTheirForms == FrontPageSpec => []MenuShowsForms
<1>1. SessionInv => MenuShowsForms
  BY DEF SessionInv, MenuInv, MenuShowsForms, Lists
<1> QED
  BY <1>1, SessionInvHolds, PTL

(***************************************************************************)
(* FrontPage boots nothing and does not return to BDS with VariablePolicy  *)
(* suspended.                                                              *)
(***************************************************************************)
THEOREM PolicyRestored == FrontPageSpec => []PolicyBackBeforeBoot
<1>1. SessionInv => PolicyBackBeforeBoot
  BY DEF SessionInv, SecurityInv, PolicyBackBeforeBoot
<1> QED
  BY <1>1, SessionInvHolds, PTL

(***************************************************************************)
(* The Security form names the keys in force, unless a change has failed   *)
(* after it deleted them and a reset is due.                               *)
(***************************************************************************)
THEOREM TextNamesKeys == FrontPageSpec => []StatusNamesKeys
<1>1. SessionInv => StatusNamesKeys
  BY DEF SessionInv, SecurityInv, StatusNamesKeys
<1> QED
  BY <1>1, SessionInvHolds, PTL

(***************************************************************************)
(* The keys change, and a change of the form ends, only in a step of       *)
(* SecureBootModeSet.                                                      *)
(***************************************************************************)
FormChangeEnds == keyStage # "idle" /\ keyStage' = "idle" /\ pc' = "changeKeys"

LEMMA KeyStepIsSet ==
  ASSUME SessionInv, [FrontPageNext]_frontPageVars, keys' # keys \/ (FormChangeEnds /\ keyStatus' = "success")
  PROVE  SecureBootModeSet
<1> USE DEF FormChangeEnds
<1>1. UNCHANGED keyVars => keys' = keys /\ keyStage' = keyStage
  BY DEF keyVars
<1>2. ~ApplyKeysRemotely /\ ~ChooseKeys
  BY DEF ApplyKeysRemotely, ChooseKeys, SetKeys, Call, Return
<1>3. ~UefiMain /\ ~PowerOn /\ ~ResetSystem
  BY DEF UefiMain, PowerOn, ResetSystem
<1>4. ~AnswerChallenge /\ ~TryWithoutPassword /\ ~CreateTopMenu /\ ~CallFrontPage
  BY <1>1 DEF AnswerChallenge, EnterPassword, CancelChallenge, TryWithoutPassword, CreateTopMenu,
              CallFrontPage
<1>5. ~PasswordStoreLibConstructor /\ ~MasterFrameNotifyCallback /\ ~CloseForm /\ ~CloseFormForReset
       /\ ~ExitFrontPage /\ ~HandleRebootToFrontPage /\ ~BootOptionNow
  BY <1>1 DEF PasswordStoreLibConstructor, MasterFrameNotifyCallback, CloseForm, CloseFormForReset,
              ExitFrontPage, HandleRebootToFrontPage, BootOptionNow
<1>6. ~OpenPasswordDialog /\ ~CancelPasswordDialog /\ ~SetSystemPassword /\ ~DeclineKeys
       /\ ~HandleSecureBootChange /\ ~ProcessBootNext /\ ~UninitializeFrontPage
  BY <1>1 DEF OpenPasswordDialog, CancelPasswordDialog, SetSystemPassword, DeclineKeys,
              HandleSecureBootChange, ProcessBootNext, UninitializeFrontPage
<1>7. ~UNCHANGED frontPageVars
  BY <1>1 DEF frontPageVars
<1> QED
  BY <1>2, <1>3, <1>4, <1>5, <1>6, <1>7 DEF FrontPageNext, RunKeyChange

(***************************************************************************)
(* The keys change only towards the ones asked for, or to none on the way, *)
(* and a change of the form that succeeds has reached them.                *)
(***************************************************************************)
LEMMA KeyStepFollowsRequest ==
  ASSUME SessionInv, [FrontPageNext]_frontPageVars
  PROVE  /\ keys' # keys => keys # request /\ keys' \in {request, MU_SB_CONFIG_NONE}
         /\ FormChangeEnds /\ keyStatus' = "success" => keys' = request
<1> SUFFICES ASSUME SecureBootModeSet
             PROVE  /\ keys' # keys => keys # request /\ keys' \in {request, MU_SB_CONFIG_NONE}
                    /\ FormChangeEnds /\ keyStatus' = "success" => keys' = request
  BY KeyStepIsSet
<1>1. CASE KeyStoreMissing \/ CustomKeys \/ AlreadySet \/ NoSuchKeys \/ StartChange
  BY <1>1 DEF KeyStoreMissing, CustomKeys, AlreadySet, NoSuchKeys, StartChange, Return, FormChangeEnds
<1>2. CASE DeleteSecureBootVariables
  BY <1>2 DEF DeleteSecureBootVariables, Return, SessionInv, KeyChangeInv, FormChangeEnds
<1>3. CASE SetSecureBootConfig
  BY <1>3 DEF SetSecureBootConfig, Return, SessionInv, KeyChangeInv
<1> QED
  BY <1>1, <1>2, <1>3 DEF SecureBootModeSet

THEOREM KeysOnlyAsAsked == FrontPageSpec => KeysFollowRequest
<1>1. SessionInv /\ [FrontPageNext]_frontPageVars
        => [ /\ keys' # keys => keys # request /\ keys' \in {request, MU_SB_CONFIG_NONE}
             /\ keyStage # "idle" /\ keyStage' = "idle" /\ pc' = "changeKeys" /\ keyStatus' = "success"
                => keys' = request ]_frontPageVars
  BY KeyStepFollowsRequest DEF FormChangeEnds
<1> QED
  BY <1>1, SessionInvHolds, PTL DEF FrontPageSpec, KeysFollowRequest

(***************************************************************************)
(* PasswordStoreLib touches a password only if it could not read it: the   *)
(* constructor's other reason to write, attributes that differ, makes the  *)
(* variable service refuse.                                                *)
(***************************************************************************)
Kept == password \in Passwords \cup {"otherVersion"} /\ password' # password

LEMMA IsPasswordSetKeeps ==
  ASSUME NEW set, PasswordStoreIsPasswordSet(set), Kept PROVE readFailed'
<1>1. PICK readable \in BOOLEAN :
        /\ ReadPassword(readable)
        /\ IF ~readable \/ password = "absent" THEN
             ~set /\ \E ok \in BOOLEAN : PasswordStoreSetPassword("deleted", ok)
           ELSE
             set = (password # "deleted") /\ UNCHANGED <<password, attributesMatch>>
  BY DEF PasswordStoreIsPasswordSet
<1>2. password # "absent"
  BY PasswordAssumption DEF Kept
<1>3. ~readable
  BY <1>1, <1>2 DEF Kept
<1> QED
  BY <1>1, <1>3 DEF ReadPassword

LEMMA InitializeKeeps == ASSUME PasswordStoreInitializeLib, Kept PROVE readFailed'
<1>1. PICK readable \in BOOLEAN :
        /\ ReadPassword(readable)
        /\ IF ~readable \/ password = "absent" \/ ~attributesMatch
           THEN \E ok \in BOOLEAN : PasswordStoreSetPassword("deleted", ok)
           ELSE UNCHANGED <<password, attributesMatch>>
  BY DEF PasswordStoreInitializeLib
<1>2. password # "absent"
  BY PasswordAssumption DEF Kept
<1>3. attributesMatch
  BY <1>1 DEF Kept, PasswordStoreSetPassword
<1>4. ~readable
  BY <1>1, <1>2, <1>3 DEF Kept
<1> QED
  BY <1>1, <1>4 DEF ReadPassword

LEMMA PasswordStep ==
  ASSUME [FrontPageNext]_frontPageVars, Kept PROVE pc = "setPassword" \/ readFailed'
<1>1. ~UNCHANGED passwordVars
  BY DEF Kept, passwordVars
<1>2. ASSUME NEW input, NEW result, GetAuthToken(input, result) PROVE readFailed'
  BY <1>1, <1>2, IsPasswordSetKeeps DEF GetAuthToken, PasswordStoreAuthenticatePassword
<1>3. CASE TryWithoutPassword \/ AnswerChallenge
  BY <1>1, <1>2, <1>3 DEF TryWithoutPassword, AnswerChallenge, EnterPassword, CancelChallenge
<1>4. CASE PasswordStoreLibConstructor
  BY <1>4, InitializeKeeps DEF PasswordStoreLibConstructor
<1>5. CASE SetSystemPassword
  BY <1>5 DEF SetSystemPassword
<1>6. CASE CreateTopMenu \/ PowerOn \/ ResetSystem
  BY <1>6 DEF Kept, CreateTopMenu, PowerOn, ResetSystem
<1>7. CASE \/ ApplyKeysRemotely \/ RunKeyChange \/ UefiMain \/ CallFrontPage
           \/ MasterFrameNotifyCallback \/ CloseForm \/ CloseFormForReset \/ ExitFrontPage
  BY <1>1, <1>7 DEF ApplyKeysRemotely, RunKeyChange, UefiMain, CallFrontPage,
                    MasterFrameNotifyCallback, CloseForm, CloseFormForReset, ExitFrontPage
<1>8. CASE \/ HandleRebootToFrontPage \/ BootOptionNow \/ OpenPasswordDialog
           \/ CancelPasswordDialog \/ DeclineKeys \/ ChooseKeys \/ HandleSecureBootChange
           \/ ProcessBootNext \/ UninitializeFrontPage \/ UNCHANGED frontPageVars
  BY <1>1, <1>8 DEF HandleRebootToFrontPage, BootOptionNow, OpenPasswordDialog,
                    CancelPasswordDialog, DeclineKeys, ChooseKeys, HandleSecureBootChange,
                    ProcessBootNext, UninitializeFrontPage, frontPageVars
<1> QED
  BY <1>3, <1>4, <1>5, <1>6, <1>7, <1>8 DEF FrontPageNext

(***************************************************************************)
(* A password is lost only in the dialog, or when the variable cannot be   *)
(* read.                                                                   *)
(***************************************************************************)
THEOREM PasswordSurvives == FrontPageSpec => PasswordKept
<1>1. [FrontPageNext]_frontPageVars
        => [(password \in Passwords \cup {"otherVersion"} /\ password' # password)
              => (pc = "setPassword" \/ readFailed')]_frontPageVars
  BY PasswordStep DEF Kept
<1> QED
  BY <1>1, PTL DEF FrontPageSpec, PasswordKept
=============================================================================
