------------------------ MODULE HardwareSignatureProofs ------------------------
(***************************************************************************)
(* The signature holds the stable ranges of the memory map, for every      *)
(* memory map and every layout of the buffer: compacting the map over      *)
(* itself overwrites no descriptor that is still to be read.  With the     *)
(* header in front of it, it is a function of the machine, and one that    *)
(* tells machines apart.                                                   *)
(***************************************************************************)
EXTENDS HardwareSignature, FiniteSetTheorems, SequenceTheorems, TLAPS

MachineOK ==
  /\ pci \in Devices /\ version \in Versions /\ settings \in Settings
  /\ memoryMap \in MemoryMaps
  /\ MemoryMapSize \in Nat

(***************************************************************************)
(* Until the map has been compacted the buffer has room for it.            *)
(***************************************************************************)
HasRoom ==
  pc \in {"pci", "settings", "map", "compact"} =>
    \A w \in IndexPart4..(IndexPart4 + MemoryMapSize - 1) : w \in DOMAIN Buffer

(***************************************************************************)
(* The words of the descriptors not read yet are as they were fetched, and *)
(* the ranges of those that were read are where the signature has them.    *)
(***************************************************************************)
Intact(n) ==
  \A o \in {0, 2, 3, 6, 7} : Buffer[EntryAt(n - 1) + o] = Word(memoryMap[n], o)

Compacted ==
  pc = "compact" =>
    /\ fetched
    /\ MemoryMapSize = DescriptorSize * Len(memoryMap)
    /\ entry \in 0..Len(memoryMap)
    /\ MapState = IndexPart4 + 4 * Cardinality(Stable(entry))
    /\ \A n \in (entry + 1)..Len(memoryMap) : Intact(n)
    /\ \A n \in Stable(entry) : Holds(Buffer, n)

Finished ==
  pc = "crc" =>
    IF ~fetched THEN MapState = IndexPart4
    ELSE /\ MapState = IndexPart4 + 4 * Cardinality(Stable(Len(memoryMap)))
         /\ \A n \in Stable(Len(memoryMap)) : Holds(Buffer, n)

NotSigned == pc # "end" => HardwareSignature = Unsigned

SignatureInv ==
  /\ MachineOK /\ HasRoom /\ Compacted /\ Finished /\ NotSigned /\ SignatureHoldsRanges

-----------------------------------------------------------------------------
(***************************************************************************)
(* The parts have natural indices, and a memory map is a sequence.         *)
(***************************************************************************)
LEMMA LayoutOK ==
  ASSUME MachineOK
  PROVE  /\ Len(pci) \in Nat /\ Len(settings) \in Nat /\ Len(memoryMap) \in Nat
         /\ IndexPart2 \in Nat /\ IndexPart3 \in Nat /\ IndexPart4 \in Nat
         /\ BufferCount \in Nat /\ BufferCount >= IndexPart4 + MemoryMapSize
         /\ memoryMap \in Seq(Descriptors)
<1>1. pci \in Seq(UINT32) /\ settings \in Seq(UINT32)
  BY SignatureAssumption DEF MachineOK
<1>2. memoryMap \in Seq(Descriptors)
  BY IsASeq, SignatureAssumption DEF MachineOK, MemoryMaps
<1>3. Len(pci) \in Nat /\ Len(settings) \in Nat /\ Len(memoryMap) \in Nat
  BY <1>1, <1>2
<1>4. IndexPart2 \in Nat
  BY <1>3 DEF IndexPart2, Aligned
<1>5. IndexPart3 \in Nat
  BY <1>4 DEF IndexPart3, Aligned
<1>6. IndexPart4 \in Nat
  BY <1>3, <1>5 DEF IndexPart4, Aligned
<1>7. BufferCount \in Nat /\ BufferCount >= IndexPart4 + MemoryMapSize
  BY <1>6 DEF BufferCount, Aligned, MachineOK
<1>8. QED
  BY <1>2, <1>3, <1>4, <1>5, <1>6, <1>7

(***************************************************************************)
(* Stable(n) grows by n exactly when descriptor n is stable.               *)
(***************************************************************************)
LEMMA StableCount ==
  ASSUME NEW n \in Nat
  PROVE  /\ IsFiniteSet(Stable(n)) /\ Cardinality(Stable(n)) \in 0..n
         /\ \A i \in Stable(n) : Cardinality(Stable(i)) \in 1..Cardinality(Stable(n))
<1>1. ASSUME NEW i \in Nat
      PROVE  IsFiniteSet(Stable(i)) /\ Cardinality(Stable(i)) \in 0..i
  <2>1. IsFiniteSet(1..i) /\ Cardinality(1..i) = i
    BY FS_Interval
  <2>2. Stable(i) \in SUBSET (1..i)
    BY DEF Stable
  <2>3. IsFiniteSet(Stable(i)) /\ Cardinality(Stable(i)) <= i
    BY <2>1, <2>2, FS_Subset
  <2>4. QED
    BY <2>3, FS_CardinalityType
<1>2. ASSUME NEW i \in Stable(n) PROVE Cardinality(Stable(i)) \in 1..Cardinality(Stable(n))
  <2>1. i \in Nat /\ i <= n /\ i \in Stable(i)
    BY DEF Stable
  <2>2. Stable(i) \in SUBSET Stable(n)
    BY <2>1 DEF Stable
  <2>3. Cardinality(Stable(i)) <= Cardinality(Stable(n))
    BY <1>1, <2>2, FS_Subset
  <2>4. Cardinality(Stable(i)) # 0
    BY <1>1, <2>1, FS_EmptySet
  <2>5. QED
    BY <1>1, <2>1, <2>3, <2>4
<1>3. QED
  BY <1>1, <1>2

LEMMA StableStep ==
  ASSUME NEW n \in Nat
  PROVE  /\ memoryMap[n + 1].type \in StableTypes =>
              /\ Stable(n + 1) = Stable(n) \cup {n + 1}
              /\ Cardinality(Stable(n + 1)) = Cardinality(Stable(n)) + 1
         /\ memoryMap[n + 1].type \notin StableTypes => Stable(n + 1) = Stable(n)
<1>1. \A i \in 1..(n + 1) : i \in 1..n \/ i = n + 1
  OBVIOUS
<1>2. 1..n \subseteq 1..(n + 1) /\ n + 1 \in 1..(n + 1) /\ n + 1 \notin 1..n
  OBVIOUS
<1>3. memoryMap[n + 1].type \in StableTypes => Stable(n + 1) = Stable(n) \cup {n + 1}
  BY <1>1, <1>2 DEF Stable
<1>4. n + 1 \notin Stable(n)
  BY <1>2 DEF Stable
<1>5. QED
  <2>1. Cardinality(Stable(n) \cup {n + 1}) = Cardinality(Stable(n)) + 1
    BY <1>4, StableCount, FS_AddElement
  <2>2. memoryMap[n + 1].type \notin StableTypes => Stable(n + 1) = Stable(n)
    BY <1>1, <1>2 DEF Stable
  <2>3. QED
    BY <1>3, <2>1, <2>2

(***************************************************************************)
(* Where word o of descriptor n is in the buffer, and which word of which  *)
(* descriptor is there.                                                    *)
(***************************************************************************)
LEMMA WordOfEntry ==
  ASSUME IndexPart4 \in Nat, NEW count \in Nat, NEW n \in 1..count, NEW o \in {0, 2, 3, 6, 7}
  PROVE  LET w    == EntryAt(n - 1) + o
             size == DescriptorSize * count
         IN  /\ w \in IndexPart4..(IndexPart4 + size - 1)
             /\ w - IndexPart4 \in 0..(size - 1)
             /\ (w - IndexPart4) \div DescriptorSize + 1 = n
             /\ (w - IndexPart4) % DescriptorSize = o
<1> DEFINE r == EntryAt(n - 1) + o - IndexPart4
<1>1. r = 12 * (n - 1) + o /\ r \in 0..(12 * count - 1)
  BY DEF EntryAt, DescriptorSize
<1>2. r \div 12 = n - 1 /\ r % 12 = o
  BY <1>1
<1>3. QED
  BY <1>1, <1>2 DEF EntryAt, DescriptorSize

(***************************************************************************)
(* A later descriptor is not before the next one.                          *)
(***************************************************************************)
LEMMA LaterEntry ==
  ASSUME IndexPart4 \in Nat, NEW e \in Nat, NEW n \in Nat, n >= e + 2,
         NEW o \in {0, 2, 3, 6, 7}, NEW m \in Nat, m + 3 < EntryAt(e + 1)
  PROVE  EntryAt(n - 1) + o \notin m..(m + 3)
BY DEF EntryAt, DescriptorSize

-----------------------------------------------------------------------------
LEMMA SignatureInvInit == SignatureInit => SignatureInv
BY DEF SignatureInit, SignatureInv, MachineOK, HasRoom, Compacted, Finished, NotSigned,
       SignatureHoldsRanges

(***************************************************************************)
(* While the machine is the same, the layout is and the signature stays    *)
(* what it should be.                                                      *)
(***************************************************************************)
LEMMA SameMachine ==
  ASSUME SignatureInv, UNCHANGED <<machineVars, memoryMap>>, MemoryMapSize' \in Nat
  PROVE  /\ MachineOK' /\ IndexPart2' = IndexPart2 /\ IndexPart3' = IndexPart3
         /\ IndexPart4' = IndexPart4
         /\ \A n : Stable(n)' = Stable(n) /\ RangeAt(n)' = RangeAt(n)
         /\ UNCHANGED <<fetched, HardwareSignature>> => SignatureHoldsRanges'
<1> USE DEF SignatureInv, machineVars
<1>1. MachineOK'
  BY DEF MachineOK
<1>2. IndexPart2' = IndexPart2 /\ IndexPart3' = IndexPart3 /\ IndexPart4' = IndexPart4
  BY DEF IndexPart4, IndexPart3, IndexPart2
<1>3. \A n : Stable(n)' = Stable(n) /\ RangeAt(n)' = RangeAt(n)
  BY <1>2 DEF Stable, RangeAt
<1>4. UNCHANGED <<fetched, HardwareSignature>> => SignatureHoldsRanges'
  BY <1>2, <1>3 DEF SignatureHoldsRanges, Holds
<1>5. QED
  BY <1>1, <1>2, <1>3, <1>4

(***************************************************************************)
(* One range is stored over four words of the buffer.                      *)
(***************************************************************************)
LEMMA StoreRange ==
  ASSUME NEW b, NEW m \in Nat, NEW v0, NEW v1, NEW v2, NEW v3,
         \A k \in m..(m + 3) : k \in DOMAIN b
  PROVE  LET c == [b EXCEPT ![m] = v0, ![m + 1] = v1, ![m + 2] = v2, ![m + 3] = v3]
         IN  /\ DOMAIN c = DOMAIN b
             /\ c[m] = v0 /\ c[m + 1] = v1 /\ c[m + 2] = v2 /\ c[m + 3] = v3
             /\ \A w \in DOMAIN b : w \notin m..(m + 3) => c[w] = b[w]
<1>1. m \in DOMAIN b /\ m + 1 \in DOMAIN b /\ m + 2 \in DOMAIN b /\ m + 3 \in DOMAIN b
  OBVIOUS
<1>2. m # m + 1 /\ m # m + 2 /\ m # m + 3 /\ m + 1 # m + 2 /\ m + 1 # m + 3 /\ m + 2 # m + 3
  OBVIOUS
<1>3. \A w : w \notin m..(m + 3) => w # m /\ w # m + 1 /\ w # m + 2 /\ w # m + 3
  OBVIOUS
<1>4. QED
  BY <1>1, <1>2, <1>3

(***************************************************************************)
(* The descriptor the compaction is at has not been overwritten, and what  *)
(* it is about to overwrite lies before the next one.                      *)
(***************************************************************************)
LEMMA RoomBehindEntry ==
  ASSUME SignatureInv, Compacting
  PROVE  /\ entry \in Nat /\ entry + 1 \in 1..Len(memoryMap)
         /\ MapState \in Nat /\ MapState >= IndexPart4
         /\ MapState + 3 < EntryAt(entry + 1)
         /\ \A k \in MapState..(MapState + 3) : k \in DOMAIN Buffer
         /\ Buffer[EntryAt(entry)] = memoryMap[entry + 1].type
         /\ Buffer[EntryAt(entry) + 2] = memoryMap[entry + 1].start[1]
         /\ Buffer[EntryAt(entry) + 3] = memoryMap[entry + 1].start[2]
         /\ Buffer[EntryAt(entry) + 6] = memoryMap[entry + 1].pages[1]
         /\ Buffer[EntryAt(entry) + 7] = memoryMap[entry + 1].pages[2]
<1> USE DEF SignatureInv
<1>1. Len(memoryMap) \in Nat /\ IndexPart4 \in Nat
  BY LayoutOK
<1>2. MemoryMapSize = 12 * Len(memoryMap) /\ entry \in 0..Len(memoryMap)
  BY DEF Compacting, Compacted, DescriptorSize
<1>3. entry < Len(memoryMap)
  BY <1>1, <1>2 DEF Compacting, DescriptorSize
<1>4. Cardinality(Stable(entry)) \in 0..entry
  BY <1>2, StableCount
<1>5. MapState = IndexPart4 + 4 * Cardinality(Stable(entry))
  BY DEF Compacting, Compacted
<1>6. MapState \in Nat /\ MapState >= IndexPart4 /\ MapState + 3 < EntryAt(entry + 1)
  BY <1>1, <1>2, <1>4, <1>5 DEF EntryAt, DescriptorSize
<1>7. EntryAt(entry + 1) <= IndexPart4 + MemoryMapSize
  BY <1>1, <1>2, <1>3 DEF EntryAt, DescriptorSize
<1>8. \A k \in MapState..(MapState + 3) : k \in IndexPart4..(IndexPart4 + MemoryMapSize - 1)
  BY <1>1, <1>2, <1>6, <1>7 DEF EntryAt, DescriptorSize
<1>9. \A k \in MapState..(MapState + 3) : k \in DOMAIN Buffer
  BY <1>8 DEF HasRoom, Compacting
<1>10. entry + 1 \in (entry + 1)..Len(memoryMap) /\ (entry + 1) - 1 = entry
  BY <1>1, <1>2, <1>3
<1>11. Intact(entry + 1)
  BY <1>10 DEF Compacted, Compacting
<1>12. \A o \in {0, 2, 3, 6, 7} : Buffer[EntryAt(entry) + o] = Word(memoryMap[entry + 1], o)
  BY <1>10, <1>11 DEF Intact
<1>13. EntryAt(entry) \in Nat /\ EntryAt(entry) + 0 = EntryAt(entry)
  BY <1>1, <1>2 DEF EntryAt, DescriptorSize
<1>14. QED
  BY <1>1, <1>2, <1>3, <1>6, <1>9, <1>12, <1>13 DEF Word

-----------------------------------------------------------------------------
(***************************************************************************)
(* One step of the code preserves the invariant.                           *)
(***************************************************************************)
LEMMA SignatureInvNext == SignatureInv /\ [SignatureNext]_signatureVars => SignatureInv'
<1> SUFFICES ASSUME SignatureInv, [SignatureNext]_signatureVars PROVE SignatureInv'
  OBVIOUS
<1> USE DEF SignatureInv
<1>0. /\ Len(memoryMap) \in Nat /\ IndexPart4 \in Nat
      /\ BufferCount \in Nat /\ BufferCount >= IndexPart4 + MemoryMapSize
      /\ MemoryMapSize \in Nat
  BY LayoutOK DEF MachineOK
<1>1. CASE UNCHANGED signatureVars
  <2> USE <1>1 DEF signatureVars
  <2>1. /\ MachineOK' /\ IndexPart4' = IndexPart4 /\ SignatureHoldsRanges'
        /\ \A n : Stable(n)' = Stable(n) /\ RangeAt(n)' = RangeAt(n)
    BY <1>0, SameMachine
  <2>2. HasRoom' /\ Finished' /\ NotSigned'
    BY <2>1 DEF HasRoom, Finished, NotSigned, Holds
  <2>3. Compacted'
    BY <2>1 DEF Compacted, Holds, Intact, EntryAt
  <2>4. QED
    BY <2>1, <2>2, <2>3
<1>2. ASSUME Fail PROVE SignatureInv'
  <2>1. MachineOK' /\ SignatureHoldsRanges'
    BY <1>0, <1>2, SameMachine DEF Fail
  <2>2. QED
    BY <1>2, <2>1 DEF Fail, HasRoom, Compacted, Finished, NotSigned
<1>3. CASE Measure
  <2>1. CASE /\ MemoryMapSize' = DescriptorSize * Len(memoryMap)
             /\ pc' = "allocate"
             /\ UNCHANGED <<machineVars, memoryMap, Buffer, entry, MapState, fetched,
                            HardwareSignature, last>>
    <3>1. MachineOK' /\ SignatureHoldsRanges'
      BY <1>0, <2>1, SameMachine DEF DescriptorSize
    <3>2. QED
      BY <1>3, <2>1, <3>1 DEF Measure, HasRoom, Compacted, Finished, NotSigned
  <2>2. QED
    BY <1>2, <1>3, <2>1 DEF Measure
<1>4. CASE AllocateBuffer
  <2>1. CASE /\ Buffer' = [w \in 0..(BufferCount - 1) |-> 0]
             /\ memoryMap' \in AfterAllocation(memoryMap)
             /\ pc' = "pci"
             /\ UNCHANGED <<machineVars, MemoryMapSize, entry, MapState, fetched,
                            HardwareSignature, last>>
    <3>1. memoryMap' \in MemoryMaps
      BY <2>1 DEF AfterAllocation
    <3>2. MachineOK'
      BY <2>1, <3>1 DEF MachineOK, machineVars
    <3>3. IndexPart4' = IndexPart4
      BY <2>1 DEF IndexPart4, IndexPart3, IndexPart2, machineVars
    <3>4. HasRoom'
      BY <1>0, <2>1, <3>3 DEF HasRoom
    <3>5. NotSigned' /\ SignatureHoldsRanges'
      BY <1>4, <2>1 DEF AllocateBuffer, NotSigned, SignatureHoldsRanges
    <3>6. QED
      BY <2>1, <3>2, <3>4, <3>5 DEF Compacted, Finished
  <2>2. QED
    BY <1>2, <1>4, <2>1 DEF AllocateBuffer
<1>5. ASSUME pc \in {"pci", "settings"}, pc' \in {"settings", "map", "end"},
             DOMAIN Buffer' = DOMAIN Buffer,
             UNCHANGED <<machineVars, memoryMap, MemoryMapSize, entry, MapState, fetched,
                         HardwareSignature, last>>
      PROVE  SignatureInv'
  <2>1. MachineOK' /\ SignatureHoldsRanges' /\ IndexPart4' = IndexPart4
    BY <1>0, <1>5, SameMachine
  <2>2. HasRoom'
    BY <1>5, <2>1 DEF HasRoom
  <2>3. QED
    BY <1>5, <2>1, <2>2 DEF Compacted, Finished, NotSigned
<1>6. CASE FillPciIds
  BY <1>5, <1>6 DEF FillPciIds
<1>7. CASE FillVersionAndSettings
  BY <1>2, <1>5, <1>7 DEF FillVersionAndSettings
<1>8. CASE FetchMemoryMap
  <2> DEFINE size == DescriptorSize * Len(memoryMap)
  <2>1. /\ pc = "map" /\ pc' = IF fetched' THEN "compact" ELSE "crc"
        /\ MapState' = IndexPart4 /\ entry' = 0 /\ MemoryMapSize' = size
        /\ UNCHANGED <<machineVars, memoryMap, HardwareSignature>>
        /\ DOMAIN Buffer' = DOMAIN Buffer
    BY <1>8 DEF FetchMemoryMap
  <2>2. size \in Nat
    BY <1>0 DEF DescriptorSize
  <2>3. fetched' => size <= MemoryMapSize
    BY <1>8 DEF FetchMemoryMap
  <2>4. /\ MachineOK' /\ IndexPart4' = IndexPart4
        /\ \A n : Stable(n)' = Stable(n) /\ RangeAt(n)' = RangeAt(n)
    BY <2>1, <2>2, SameMachine
  <2>5. NotSigned' /\ SignatureHoldsRanges'
    BY <2>1 DEF NotSigned, SignatureHoldsRanges
  <2>6. fetched' => \A w \in IndexPart4..(IndexPart4 + size - 1) : w \in DOMAIN Buffer
    <3>1. \A w \in IndexPart4..(IndexPart4 + MemoryMapSize - 1) : w \in DOMAIN Buffer
      BY <2>1 DEF HasRoom
    <3>2. QED
      BY ONLY <1>0, <2>2, <2>3, <3>1
  <2>7. HasRoom' /\ Finished'
    BY <2>1, <2>4, <2>6 DEF HasRoom, Finished
  <2>8. CASE fetched'
    <3>1. Stable(0) = {} /\ Cardinality(Stable(0)) = 0
      BY FS_EmptySet DEF Stable
    <3>2. ASSUME NEW n \in 1..Len(memoryMap), NEW o \in {0, 2, 3, 6, 7}
          PROVE  Buffer'[EntryAt(n - 1) + o] = Word(memoryMap[n], o)
      <4> DEFINE w == EntryAt(n - 1) + o
      <4>1. /\ w \in IndexPart4..(IndexPart4 + size - 1) /\ w - IndexPart4 \in 0..(size - 1)
            /\ (w - IndexPart4) \div DescriptorSize + 1 = n
            /\ (w - IndexPart4) % DescriptorSize = o
        BY <1>0, WordOfEntry
      <4>2. w \in DOMAIN Buffer
        BY <2>6, <2>8, <4>1
      <4>3. \A v \in DOMAIN Buffer : v - IndexPart4 \in 0..(size - 1) =>
              Buffer'[v] = Word(memoryMap[(v - IndexPart4) \div DescriptorSize + 1],
                                (v - IndexPart4) % DescriptorSize)
        BY <1>8, <2>8 DEF FetchMemoryMap
      <4>4. QED
        BY <4>1, <4>2, <4>3
    <3>3. \A n \in (entry' + 1)..Len(memoryMap') : n \in 1..Len(memoryMap)
      BY <2>1
    <3>4. \A n \in (entry' + 1)..Len(memoryMap') : Intact(n)'
      BY <2>1, <2>4, <3>2, <3>3 DEF Intact, EntryAt
    <3>5. Stable(entry)' = {}
      BY <2>1, <2>4, <3>1 DEF Stable
    <3>6. MapState' = IndexPart4' + 4 * Cardinality(Stable(entry)')
      BY <1>0, <2>1, <2>4, <3>1, <3>5
    <3>7. Compacted'
      BY <1>0, <2>1, <2>8, <3>4, <3>5, <3>6 DEF Compacted
    <3>8. QED
      BY <2>4, <2>5, <2>7, <3>7
  <2>9. CASE ~fetched'
    BY <2>1, <2>4, <2>5, <2>7, <2>9 DEF Compacted
  <2>10. QED
    BY <2>8, <2>9
<1>9. CASE KeepDescriptor
  <2> DEFINE d == EntryAt(entry)
  <2>0. /\ Compacting /\ Buffer[d] \in StableTypes
        /\ MapState' = MapState + 4 /\ entry' = entry + 1
        /\ UNCHANGED <<machineVars, memoryMap, pc, MemoryMapSize, fetched, HardwareSignature>>
    BY <1>9 DEF KeepDescriptor
  <2>1. /\ entry \in Nat /\ entry + 1 \in 1..Len(memoryMap)
        /\ MapState \in Nat /\ MapState >= IndexPart4 /\ MapState + 3 < EntryAt(entry + 1)
        /\ \A k \in MapState..(MapState + 3) : k \in DOMAIN Buffer
        /\ memoryMap[entry + 1].type \in StableTypes
    BY <2>0, RoomBehindEntry
  <2>2. /\ DOMAIN Buffer' = DOMAIN Buffer
        /\ Buffer'[MapState] = memoryMap[entry + 1].start[1]
        /\ Buffer'[MapState + 1] = memoryMap[entry + 1].start[2]
        /\ Buffer'[MapState + 2] = memoryMap[entry + 1].pages[1]
        /\ Buffer'[MapState + 3] = memoryMap[entry + 1].pages[2]
        /\ \A w \in DOMAIN Buffer : w \notin MapState..(MapState + 3) => Buffer'[w] = Buffer[w]
    <3>1. Buffer' = [Buffer EXCEPT ![MapState] = Buffer[d + 2], ![MapState + 1] = Buffer[d + 3],
                                   ![MapState + 2] = Buffer[d + 6], ![MapState + 3] = Buffer[d + 7]]
      BY <1>9 DEF KeepDescriptor
    <3>2. /\ DOMAIN Buffer' = DOMAIN Buffer
          /\ Buffer'[MapState] = Buffer[d + 2] /\ Buffer'[MapState + 1] = Buffer[d + 3]
          /\ Buffer'[MapState + 2] = Buffer[d + 6] /\ Buffer'[MapState + 3] = Buffer[d + 7]
          /\ \A w \in DOMAIN Buffer : w \notin MapState..(MapState + 3) => Buffer'[w] = Buffer[w]
      BY ONLY <2>1, <3>1, StoreRange
    <3>3. QED
      BY <2>0, <3>2, RoomBehindEntry
  <2>3. /\ MachineOK' /\ IndexPart4' = IndexPart4
        /\ \A n : Stable(n)' = Stable(n) /\ RangeAt(n)' = RangeAt(n)
        /\ SignatureHoldsRanges'
    BY <1>0, <2>0, SameMachine
  <2>4. HasRoom' /\ Finished' /\ NotSigned'
    BY <2>0, <2>2, <2>3 DEF HasRoom, Finished, NotSigned, Compacting
  <2>5. /\ Stable(entry + 1) = Stable(entry) \cup {entry + 1}
        /\ Cardinality(Stable(entry + 1)) = Cardinality(Stable(entry)) + 1
        /\ Cardinality(Stable(entry)) \in Nat
    <3>1. entry \in Nat /\ memoryMap[entry + 1].type \in StableTypes
      BY <2>1
    <3>2. Cardinality(Stable(entry)) \in Nat
      BY ONLY <3>1, StableCount
    <3>3. QED
      BY ONLY <3>1, <3>2, StableStep
  <2>6. MapState = IndexPart4 + 4 * Cardinality(Stable(entry))
    BY <2>0 DEF Compacting, Compacted
  <2>7. MapState' = IndexPart4 + 4 * Cardinality(Stable(entry + 1))
    BY ONLY <1>0, <2>0, <2>5, <2>6
  <2>8. ASSUME NEW n \in (entry + 2)..Len(memoryMap) PROVE Intact(n)'
    <3>1. n \in (entry + 1)..Len(memoryMap) /\ n \in 1..Len(memoryMap) /\ n \in Nat /\ n >= entry + 2
      BY <1>0, <2>1
    <3>2. Intact(n)
      BY <2>0, <3>1 DEF Compacted, Compacting
    <3>3. ASSUME NEW o \in {0, 2, 3, 6, 7}
          PROVE  Buffer'[EntryAt(n - 1) + o] = Buffer[EntryAt(n - 1) + o]
      <4>1. MemoryMapSize = DescriptorSize * Len(memoryMap)
        BY <2>0 DEF Compacted, Compacting
      <4>2. EntryAt(n - 1) + o \in IndexPart4..(IndexPart4 + MemoryMapSize - 1)
        BY <1>0, <3>1, <4>1, WordOfEntry
      <4>3. EntryAt(n - 1) + o \in DOMAIN Buffer
        BY <2>0, <4>2 DEF HasRoom, Compacting
      <4>4. EntryAt(n - 1) + o \notin MapState..(MapState + 3)
        BY <1>0, <2>1, <3>1, LaterEntry
      <4>5. QED
        BY <2>2, <4>3, <4>4
    <3>4. EntryAt(n - 1)' = EntryAt(n - 1) /\ memoryMap' = memoryMap
      BY <2>0, <2>3 DEF EntryAt
    <3>5. QED
      BY <3>2, <3>3, <3>4 DEF Intact
  <2>9. ASSUME NEW n \in Stable(entry) PROVE Holds(Buffer', n)
    <3>1. Holds(Buffer, n)
      BY <2>0 DEF Compacted, Compacting
    <3>2. Cardinality(Stable(n)) \in 1..Cardinality(Stable(entry))
      BY <2>1, StableCount
    <3>3. RangeAt(n) \in Nat /\ RangeAt(n) >= IndexPart4 /\ RangeAt(n) + 3 < MapState
      BY ONLY <1>0, <2>5, <2>6, <3>2 DEF RangeAt
    <3>4. ASSUME NEW k \in {RangeAt(n), RangeAt(n) + 1, RangeAt(n) + 2, RangeAt(n) + 3}
          PROVE  Buffer'[k] = Buffer[k]
      <4>1. k \in IndexPart4..(MapState - 1)
        BY <1>0, <2>1, <3>3
      <4>2. MemoryMapSize = 12 * Len(memoryMap)
        BY <2>0 DEF Compacted, Compacting, DescriptorSize
      <4>3. MapState <= IndexPart4 + MemoryMapSize
        BY <1>0, <2>1, <4>2 DEF EntryAt, DescriptorSize
      <4>4. k \in DOMAIN Buffer
        BY <1>0, <2>0, <2>1, <4>1, <4>3 DEF HasRoom, Compacting
      <4>5. k \notin MapState..(MapState + 3)
        BY <1>0, <2>1, <4>1
      <4>6. QED
        BY <2>2, <4>4, <4>5
    <3>5. QED
      BY <3>1, <3>4 DEF Holds
  <2>10. Holds(Buffer', entry + 1)
    <3>1. RangeAt(entry + 1) = MapState
      BY <1>0, <2>5, <2>6 DEF RangeAt
    <3>2. QED
      BY <2>2, <3>1 DEF Holds
  <2>11. \A n \in Stable(entry') : Holds(Buffer', n)
    BY <2>0, <2>5, <2>9, <2>10
  <2>12. \A n \in Stable(entry)' : Holds(Buffer, n)'
    BY <2>0, <2>3, <2>11 DEF Holds, Stable
  <2>13. Compacted'
    <3>1. \A n \in (entry' + 1)..Len(memoryMap) : n \in (entry + 2)..Len(memoryMap)
      BY <1>0, <2>0, <2>1
    <3>2. \A n \in (entry' + 1)..Len(memoryMap') : Intact(n)'
      BY <2>0, <2>8, <3>1
    <3>3. MapState' = IndexPart4' + 4 * Cardinality(Stable(entry)')
      BY <2>0, <2>3, <2>7 DEF Stable
    <3>4. entry' \in 0..Len(memoryMap') /\ fetched'
            /\ MemoryMapSize' = DescriptorSize * Len(memoryMap')
      BY <1>0, <2>0, <2>1 DEF Compacted, Compacting
    <3>5. QED
      BY <2>12, <3>2, <3>3, <3>4 DEF Compacted
  <2>14. QED
    BY <2>3, <2>4, <2>13
<1>10. CASE SkipDescriptor
  <2> USE <1>10 DEF SkipDescriptor
  <2>1. /\ entry \in Nat /\ entry + 1 \in 1..Len(memoryMap)
        /\ memoryMap[entry + 1].type \notin StableTypes
    BY RoomBehindEntry
  <2>2. /\ MachineOK' /\ IndexPart4' = IndexPart4
        /\ \A n : Stable(n)' = Stable(n) /\ RangeAt(n)' = RangeAt(n)
        /\ SignatureHoldsRanges'
    BY <1>0, SameMachine
  <2>3. HasRoom' /\ Finished' /\ NotSigned'
    BY <2>2 DEF HasRoom, Finished, NotSigned, Compacting
  <2>4. Stable(entry + 1) = Stable(entry)
    BY <2>1, StableStep
  <2>5. Stable(entry)' = Stable(entry)
    BY <2>4 DEF Stable
  <2>6. \A n \in (entry' + 1)..Len(memoryMap) : n \in (entry + 1)..Len(memoryMap)
    BY <1>0, <2>1
  <2>7. Compacted'
    <3>1. \A n \in (entry' + 1)..Len(memoryMap') : Intact(n)'
      BY <2>2, <2>6 DEF Compacted, Compacting, Intact, EntryAt
    <3>2. \A n \in Stable(entry)' : Holds(Buffer, n)'
      BY <2>2, <2>5 DEF Compacted, Compacting, Holds
    <3>3. entry' \in 0..Len(memoryMap') /\ fetched'
            /\ MemoryMapSize' = DescriptorSize * Len(memoryMap')
      BY <1>0, <2>1 DEF Compacted, Compacting
    <3>4. MapState' = IndexPart4' + 4 * Cardinality(Stable(entry)')
      BY <2>2, <2>5 DEF Compacted, Compacting
    <3>5. QED
      BY <3>1, <3>2, <3>3, <3>4 DEF Compacted
  <2>8. QED
    BY <2>2, <2>3, <2>7
<1>11. CASE FinishCompaction
  <2> USE <1>11 DEF FinishCompaction
  <2>1. /\ MachineOK' /\ IndexPart4' = IndexPart4
        /\ \A n : Stable(n)' = Stable(n) /\ RangeAt(n)' = RangeAt(n)
        /\ SignatureHoldsRanges'
    BY <1>0, SameMachine
  <2>2. entry = Len(memoryMap)
    <3>1. MemoryMapSize = 12 * Len(memoryMap) /\ entry \in 0..Len(memoryMap)
      BY DEF Compacted, DescriptorSize
    <3>2. QED
      BY <1>0, <3>1 DEF Compacting, DescriptorSize
  <2>3. Finished'
    BY <2>1, <2>2 DEF Finished, Compacted, Holds
  <2>4. QED
    BY <2>1, <2>3 DEF HasRoom, Compacted, NotSigned
<1>12. CASE CalculateCrc32
  <2> USE <1>12 DEF CalculateCrc32
  <2>1. /\ MachineOK' /\ IndexPart4' = IndexPart4
        /\ \A n : Stable(n)' = Stable(n) /\ RangeAt(n)' = RangeAt(n)
    BY <1>0, SameMachine
  <2>2. HasRoom' /\ Compacted' /\ Finished' /\ NotSigned'
    BY DEF HasRoom, Compacted, Finished, NotSigned
  <2>3. CASE ~fetched
    BY <2>1, <2>2, <2>3 DEF SignatureHoldsRanges, Finished
  <2>4. CASE fetched
    <3> DEFINE count == Cardinality(Stable(Len(memoryMap)))
    <3>1. MapState = IndexPart4 + 4 * count /\ count \in Nat
      BY <1>0, <2>4, StableCount DEF Finished
    <3>2. ASSUME NEW n \in Stable(Len(memoryMap)) PROVE Holds(HardwareSignature', n)
      <4>1. Holds(Buffer, n)
        BY <2>4 DEF Finished
      <4>2. Cardinality(Stable(n)) \in 1..count
        BY <1>0, StableCount
      <4>3. \A k \in RangeAt(n)..(RangeAt(n) + 3) : k \in 0..(MapState - 1)
        BY <1>0, <3>1, <4>2 DEF RangeAt
      <4>4. RangeAt(n) \in Int
        BY <1>0, <3>1, <4>2 DEF RangeAt
      <4>5. \A k \in 0..(MapState - 1) : HardwareSignature'[k] = Buffer[k]
        OBVIOUS
      <4>6. \A k \in RangeAt(n)..(RangeAt(n) + 3) : HardwareSignature'[k] = Buffer[k]
        BY ONLY <4>3, <4>5
      <4>7. /\ RangeAt(n) \in RangeAt(n)..(RangeAt(n) + 3)
            /\ RangeAt(n) + 1 \in RangeAt(n)..(RangeAt(n) + 3)
            /\ RangeAt(n) + 2 \in RangeAt(n)..(RangeAt(n) + 3)
            /\ RangeAt(n) + 3 \in RangeAt(n)..(RangeAt(n) + 3)
        BY ONLY <4>4
      <4>8. QED
        BY ONLY <4>1, <4>6, <4>7 DEF Holds
    <3>3. DOMAIN HardwareSignature' = 0..(IndexPart4 + 4 * count - 1)
      <4>1. DOMAIN HardwareSignature' = 0..(MapState - 1)
        OBVIOUS
      <4>2. MapState - 1 = IndexPart4 + 4 * count - 1
        BY ONLY <1>0, <3>1
      <4>3. QED
        BY ONLY <4>1, <4>2
    <3>4. \A n \in Stable(Len(memoryMap))' : Holds(HardwareSignature, n)'
      BY <2>1, <3>2 DEF Holds
    <3>5. SignatureHoldsRanges'
      BY <2>1, <2>4, <3>3, <3>4 DEF SignatureHoldsRanges
    <3>6. QED
      BY <2>1, <2>2, <3>5
  <2>5. QED
    BY <2>3, <2>4
<1>13. CASE NextBoot
  BY <1>13 DEF NextBoot, MachineOK, HasRoom, Compacted, Finished, NotSigned,
               SignatureHoldsRanges
<1>14. QED
  BY <1>1, <1>3, <1>4, <1>6, <1>7, <1>8, <1>9, <1>10, <1>11, <1>12, <1>13 DEF SignatureNext

(***************************************************************************)
(* Every signature computed from a fetched memory map holds exactly its    *)
(* stable ranges, whatever the map and whatever precedes it in the buffer. *)
(***************************************************************************)
THEOREM RangesAreSigned == SignatureSpec => []SignatureHoldsRanges
<1>1. SignatureInv => SignatureHoldsRanges
  BY DEF SignatureInv
<1>2. QED
  BY SignatureInvInit, SignatureInvNext, <1>1, PTL DEF SignatureSpec

------------------------------------------------------------------------------
(***************************************************************************)
(* The signature as a function of the machine.  The header is everything   *)
(* before the memory map, its padding included; p, v and s are the device  *)
(* ids, the version and the settings.                                      *)
(***************************************************************************)
Part2(p)    == Aligned(Len(p)) + 2
Part3(p)    == Aligned(Part2(p) + 1)
Part4(p, s) == Aligned(Part3(p) + Len(s))

IdWord(p, w) ==
  IF w < Len(p) THEN p[w + 1] ELSE IF w < Len(p) + 2 THEN XDsdt[w - Len(p) + 1] ELSE 0

HeaderWord(p, v, s, w) ==
  IF w = Part2(p) THEN v
  ELSE IF w - Part3(p) \in 0..(Len(s) - 1) THEN s[w - Part3(p) + 1] ELSE IdWord(p, w)

Identities == Devices \X Versions \X Settings \X Seq(UINT64 \X UINT64)

Start(id)  == Part4(id[1], id[3])
Length(id) == Start(id) + 4 * Len(id[4])

HasRange(sig, k, range) ==
  /\ sig[k]     = range[1][1]
  /\ sig[k + 1] = range[1][2]
  /\ sig[k + 2] = range[2][1]
  /\ sig[k + 3] = range[2][2]

Signs(sig, id) ==
  /\ sig = [w \in 0..(Length(id) - 1) |-> sig[w]]
  /\ \A w \in 0..(Start(id) - 1) : sig[w] = HeaderWord(id[1], id[2], id[3], w)
  /\ \A i \in 1..Len(id[4]) : HasRange(sig, Start(id) + 4 * (i - 1), id[4][i])

(***************************************************************************)
(* The parts of the header follow one another.                             *)
(***************************************************************************)
LEMMA PartsInOrder ==
  ASSUME NEW p, NEW s, Len(p) \in Nat, Len(s) \in Nat
  PROVE  /\ Part2(p) \in Nat /\ Part3(p) \in Nat /\ Part4(p, s) \in Nat
         /\ Part2(p) >= Len(p) + 2 /\ Part3(p) >= Part2(p) + 1
         /\ Part4(p, s) >= Part3(p) + Len(s)
<1>1. Part2(p) \in Nat /\ Part2(p) >= Len(p) + 2
  BY DEF Part2, Aligned
<1>2. Part3(p) \in Nat /\ Part3(p) >= Part2(p) + 1
  BY <1>1 DEF Part3, Aligned
<1>3. Part4(p, s) \in Nat /\ Part4(p, s) >= Part3(p) + Len(s)
  BY <1>2 DEF Part4, Aligned
<1>4. QED
  BY <1>1, <1>2, <1>3

LEMMA IdentityShape ==
  ASSUME NEW id \in Identities
  PROVE  /\ id[1] \in Seq(UINT32) /\ id[3] \in Seq(UINT32)
         /\ id[4] \in Seq(UINT64 \X UINT64)
         /\ Len(id[1]) \in Nat /\ Len(id[3]) \in Nat /\ Len(id[4]) \in Nat
         /\ Start(id) \in Nat /\ Length(id) \in Nat
         /\ id = <<id[1], id[2], id[3], id[4]>>
<1>1. /\ id[1] \in Seq(UINT32) /\ id[3] \in Seq(UINT32)
      /\ id[4] \in Seq(UINT64 \X UINT64) /\ id = <<id[1], id[2], id[3], id[4]>>
  BY SignatureAssumption DEF Identities
<1>2. Len(id[1]) \in Nat /\ Len(id[3]) \in Nat /\ Len(id[4]) \in Nat
  BY <1>1
<1>3. Start(id) \in Nat
  BY <1>2, PartsInOrder DEF Start
<1>4. QED
  BY <1>1, <1>2, <1>3 DEF Length

(***************************************************************************)
(* A word behind the header belongs to one of the ranges.                  *)
(***************************************************************************)
LEMMA RangeOfWord ==
  ASSUME NEW start \in Nat, NEW count \in Nat, NEW w \in start..(start + 4 * count - 1)
  PROVE  \E i \in 1..count, o \in 0..3 : w = start + 4 * (i - 1) + o
<1> DEFINE d == w - start
<1>1. d \in Nat /\ d < 4 * count /\ w = start + d
  OBVIOUS
<1> HIDE DEF d
<1>2. d \div 4 \in Nat /\ d % 4 \in 0..3 /\ d = 4 * (d \div 4) + (d % 4)
  BY <1>1
<1>3. d \div 4 < count
  BY <1>1, <1>2
<1>4. (d \div 4) + 1 \in 1..count /\ w = start + 4 * (((d \div 4) + 1) - 1) + (d % 4)
  BY <1>1, <1>2, <1>3
<1>5. QED
  BY <1>2, <1>4

(***************************************************************************)
(* There is one signature of a machine, and it tells it from the others of *)
(* the same layout.                                                        *)
(***************************************************************************)
LEMMA OneSignature ==
  ASSUME NEW id \in Identities, NEW a, NEW b, Signs(a, id), Signs(b, id)
  PROVE  a = b
<1>0. Start(id) \in Nat /\ Len(id[4]) \in Nat /\ Length(id) = Start(id) + 4 * Len(id[4])
  BY IdentityShape DEF Length
<1>1. ASSUME NEW w \in 0..(Length(id) - 1) PROVE a[w] = b[w]
  <2>1. CASE w < Start(id)
    <3>1. w \in 0..(Start(id) - 1)
      BY <1>0, <2>1
    <3>2. QED
      BY <3>1 DEF Signs
  <2>2. CASE ~(w < Start(id))
    <3>1. w \in Start(id)..(Start(id) + 4 * Len(id[4]) - 1)
      BY <1>0, <2>2
    <3>2. PICK i \in 1..Len(id[4]), o \in 0..3 : w = Start(id) + 4 * (i - 1) + o
      BY <1>0, <3>1, RangeOfWord
    <3> DEFINE k == Start(id) + 4 * (i - 1)
    <3>3. HasRange(a, k, id[4][i]) /\ HasRange(b, k, id[4][i])
      BY DEF Signs
    <3>4. k \in Nat /\ w \in {k, k + 1, k + 2, k + 3}
      BY <1>0, <3>2
    <3>5. QED
      BY <3>3, <3>4 DEF HasRange
  <2>3. QED
    BY <2>1, <2>2
<1>2. a = [w \in 0..(Length(id) - 1) |-> a[w]] /\ b = [w \in 0..(Length(id) - 1) |-> b[w]]
  BY DEF Signs
<1>3. QED
  BY <1>1, <1>2

LEMMA SignatureTells ==
  ASSUME NEW a \in Identities, NEW b \in Identities, SameLayout(a, b),
         NEW sig, Signs(sig, a), Signs(sig, b)
  PROVE  a = b
<1>0. /\ Len(a[1]) \in Nat /\ Len(a[3]) \in Nat /\ Len(a[4]) \in Nat
      /\ Len(b[1]) = Len(a[1]) /\ Len(b[3]) = Len(a[3]) /\ Len(b[4]) \in Nat
  BY IdentityShape DEF SameLayout
<1>1. Part2(b[1]) = Part2(a[1]) /\ Part3(b[1]) = Part3(a[1]) /\ Start(b) = Start(a)
  BY <1>0 DEF Part2, Part3, Part4, Start
<1>2. /\ Part2(a[1]) \in Nat /\ Part3(a[1]) \in Nat /\ Start(a) \in Nat
      /\ Part2(a[1]) >= Len(a[1]) + 2 /\ Part3(a[1]) >= Part2(a[1]) + 1
      /\ Start(a) >= Part3(a[1]) + Len(a[3])
  BY <1>0, PartsInOrder DEF Start
<1>3. \A w \in 0..(Start(a) - 1) :
        HeaderWord(a[1], a[2], a[3], w) = HeaderWord(b[1], b[2], b[3], w)
  BY <1>1 DEF Signs
<1>4. a[1] = b[1]
  <2>1. ASSUME NEW i \in 1..Len(a[1]) PROVE a[1][i] = b[1][i]
    <3>1. /\ i - 1 \in 0..(Start(a) - 1) /\ i - 1 # Part2(a[1])
          /\ i - 1 - Part3(a[1]) \notin 0..(Len(a[3]) - 1) /\ i - 1 < Len(a[1])
          /\ (i - 1) + 1 = i
      BY <1>0, <1>2, SMTT(30)
    <3>2. HeaderWord(a[1], a[2], a[3], i - 1) = a[1][i]
      BY <3>1 DEF HeaderWord, IdWord
    <3>3. HeaderWord(b[1], b[2], b[3], i - 1) = b[1][i]
      BY <1>0, <1>1, <3>1 DEF HeaderWord, IdWord
    <3>4. QED
      BY <1>3, <3>1, <3>2, <3>3
  <2>2. QED
    BY <1>0, <2>1, IdentityShape, SeqEqual
<1>5. a[2] = b[2]
  <2>1. Part2(a[1]) \in 0..(Start(a) - 1)
    BY <1>0, <1>2
  <2>2. HeaderWord(a[1], a[2], a[3], Part2(a[1])) = a[2]
    BY DEF HeaderWord
  <2>3. HeaderWord(b[1], b[2], b[3], Part2(a[1])) = b[2]
    BY <1>1 DEF HeaderWord
  <2>4. QED
    BY <1>3, <2>1, <2>2, <2>3
<1>6. a[3] = b[3]
  <2>1. ASSUME NEW i \in 1..Len(a[3]) PROVE a[3][i] = b[3][i]
    <3> DEFINE w == Part3(a[1]) + i - 1
    <3>1. /\ w \in 0..(Start(a) - 1) /\ w # Part2(a[1])
          /\ w - Part3(a[1]) \in 0..(Len(a[3]) - 1) /\ w - Part3(a[1]) + 1 = i
      <4>1. PICK p3 \in Nat : p3 = Part3(a[1])
        BY <1>2
      <4>2. p3 >= Part2(a[1]) + 1 /\ Start(a) >= p3 + Len(a[3]) /\ w = p3 + i - 1
        BY <1>2, <4>1
      <4> HIDE DEF w
      <4>3. /\ w \in 0..(Start(a) - 1) /\ w # Part2(a[1])
            /\ w - p3 \in 0..(Len(a[3]) - 1) /\ w - p3 + 1 = i
        BY <1>0, <1>2, <4>2, SMTT(30)
      <4>4. QED
        BY <4>1, <4>3
    <3> HIDE DEF w
    <3>2. HeaderWord(a[1], a[2], a[3], w) = a[3][i]
      BY <3>1 DEF HeaderWord
    <3>3. HeaderWord(b[1], b[2], b[3], w) = b[3][i]
      BY <1>0, <1>1, <3>1 DEF HeaderWord
    <3>4. QED
      BY <1>3, <3>1, <3>2, <3>3
  <2>2. QED
    BY <1>0, <2>1, IdentityShape, SeqEqual
<1>7. a[4] = b[4]
  <2>1. Len(a[4]) = Len(b[4])
    <3>1. DOMAIN sig = 0..(Length(a) - 1) /\ DOMAIN sig = 0..(Length(b) - 1)
      BY DEF Signs
    <3>2. Length(a) = Start(a) + 4 * Len(a[4]) /\ Length(b) = Start(a) + 4 * Len(b[4])
      BY <1>1 DEF Length
    <3>3. Length(a) \in Nat /\ Length(b) \in Nat
      BY IdentityShape
    <3>4. Length(a) = Length(b)
      <4>1. Length(a) - 1 \in DOMAIN sig \/ Length(a) = 0
        BY <3>1, <3>3
      <4>2. Length(b) - 1 \in DOMAIN sig \/ Length(b) = 0
        BY <3>1, <3>3
      <4>3. QED
        BY <3>1, <3>3, <4>1, <4>2
    <3>5. QED
      BY <1>0, <1>2, <3>2, <3>4
  <2>2. ASSUME NEW i \in 1..Len(a[4]) PROVE a[4][i] = b[4][i]
    <3> DEFINE k == Start(a) + 4 * (i - 1)
    <3>1. HasRange(sig, k, a[4][i]) /\ HasRange(sig, k, b[4][i])
      BY <1>1, <2>1 DEF Signs
    <3>2. a[4][i] \in UINT64 \X UINT64 /\ b[4][i] \in UINT64 \X UINT64
      BY <2>1, IdentityShape, ElementOfSeq
    <3>3. ASSUME NEW r \in UINT64 \X UINT64
          PROVE  r = <<<<r[1][1], r[1][2]>>, <<r[2][1], r[2][2]>>>>
      BY DEF UINT64
    <3>4. /\ a[4][i][1][1] = b[4][i][1][1] /\ a[4][i][1][2] = b[4][i][1][2]
          /\ a[4][i][2][1] = b[4][i][2][1] /\ a[4][i][2][2] = b[4][i][2][2]
      BY <3>1 DEF HasRange
    <3>5. QED
      BY <3>2, <3>3, <3>4
  <2>3. QED
    BY <1>0, <2>1, <2>2, IdentityShape, SeqEqual
<1>8. QED
  BY <1>4, <1>5, <1>6, <1>7, IdentityShape

------------------------------------------------------------------------------
(***************************************************************************)
(* The stable descriptors are numbered without a gap: each place among the *)
(* ranges is that of one of them.                                          *)
(***************************************************************************)
LEMMA StableRank ==
  ASSUME NEW n \in Nat
  PROVE  \A i \in 1..Cardinality(Stable(n)) : \E m \in Stable(n) : Cardinality(Stable(m)) = i
<1> DEFINE K == Cardinality(Stable(n))
<1>1. /\ IsFiniteSet(Stable(n)) /\ K \in Nat
      /\ \A m \in Stable(n) : Cardinality(Stable(m)) \in 1..K
  BY StableCount
<1>2. ASSUME NEW j \in Stable(n), NEW m \in Stable(n), j < m
      PROVE  Cardinality(Stable(j)) < Cardinality(Stable(m))
  <2>1. /\ j \in Nat /\ m \in Nat
        /\ Stable(j) \subseteq Stable(m) /\ m \in Stable(m) /\ m \notin Stable(j)
    BY <1>2 DEF Stable
  <2>2. /\ IsFiniteSet(Stable(j)) /\ Cardinality(Stable(j)) \in Nat
        /\ IsFiniteSet(Stable(m)) /\ Cardinality(Stable(m)) \in Nat
    BY <2>1, StableCount
  <2>3. Stable(j) \cup {m} \in SUBSET Stable(m)
    BY <2>1
  <2>4. Cardinality(Stable(j) \cup {m}) = Cardinality(Stable(j)) + 1
    BY <2>1, <2>2, FS_AddElement
  <2>5. Cardinality(Stable(j) \cup {m}) <= Cardinality(Stable(m))
    BY <2>2, <2>3, FS_Subset
  <2>6. QED
    BY <2>2, <2>4, <2>5
<1>3. SUFFICES ASSUME NEW i \in 1..K, \A m \in Stable(n) : Cardinality(Stable(m)) # i
               PROVE  FALSE
  OBVIOUS
<1> DEFINE f == [m \in Stable(n) |-> Cardinality(Stable(m))]
<1>4. f \in [Stable(n) -> (1..K) \ {i}]
  BY <1>1, <1>3
<1>5. IsFiniteSet((1..K) \ {i}) /\ Cardinality((1..K) \ {i}) < K
  <2>1. IsFiniteSet(1..K) /\ Cardinality(1..K) = K
    BY <1>1, FS_Interval
  <2> HIDE DEF K
  <2>2. /\ IsFiniteSet((1..K) \ {i})
        /\ Cardinality((1..K) \ {i})
             = IF i \in 1..K THEN Cardinality(1..K) - 1 ELSE Cardinality(1..K)
    BY <2>1, FS_RemoveElement
  <2>3. QED
    BY <1>1, <1>3, <2>1, <2>2
<1>6. PICK j \in Stable(n), m \in Stable(n) : j # m /\ f[j] = f[m]
  <2> HIDE DEF f
  <2>1. QED
    BY <1>1, <1>4, <1>5, FS_PigeonHole
<1>7. Cardinality(Stable(j)) = Cardinality(Stable(m)) /\ Cardinality(Stable(j)) \in Nat
  BY <1>1, <1>6
<1>8. j < m \/ m < j
  BY <1>6 DEF Stable
<1>9. QED
  BY <1>2, <1>7, <1>8

(***************************************************************************)
(* Range i of the identity is that of the descriptor at place i.           *)
(***************************************************************************)
LEMMA RangesShape ==
  ASSUME MachineOK
  PROVE  /\ Ranges \in Seq(UINT64 \X UINT64)
         /\ Len(Ranges) = Cardinality(Stable(Len(memoryMap)))
         /\ \A i \in 1..Len(Ranges) : \E n \in Stable(Len(memoryMap)) :
              Cardinality(Stable(n)) = i /\ Ranges[i] = RangeOf(memoryMap[n])
<1> DEFINE N == Len(memoryMap)
           K == Cardinality(Stable(N))
           at(i) == CHOOSE n \in Stable(N) : Cardinality(Stable(n)) = i
<1>0. N \in Nat /\ K \in Nat /\ memoryMap \in Seq(Descriptors)
  BY LayoutOK, StableCount
<1>1. \A i \in 1..K : at(i) \in Stable(N) /\ Cardinality(Stable(at(i))) = i
  BY <1>0, StableRank
<1>2. \A n \in Stable(N) : RangeOf(memoryMap[n]) \in UINT64 \X UINT64
  <2>1. ASSUME NEW n \in Stable(N) PROVE RangeOf(memoryMap[n]) \in UINT64 \X UINT64
    <3>1. n \in 1..N
      BY DEF Stable
    <3>2. memoryMap[n] \in Descriptors
      BY <1>0, <3>1, ElementOfSeq
    <3>3. memoryMap[n] \in [type : UINT32, start : UINT64, pages : UINT64]
      BY <3>2, SignatureAssumption
    <3>4. QED
      BY <3>3 DEF RangeOf
  <2>2. QED
    BY <2>1
<1>3. Ranges = [i \in 1..K |-> RangeOf(memoryMap[at(i)])]
  BY DEF Ranges
<1> HIDE DEF at
<1>4. \A i \in 1..K : RangeOf(memoryMap[at(i)]) \in UINT64 \X UINT64
  BY <1>1, <1>2
<1>5. Ranges \in [1..K -> UINT64 \X UINT64]
  BY <1>3, <1>4
<1>6. Ranges \in Seq(UINT64 \X UINT64) /\ Len(Ranges) = K
  BY <1>0, <1>5
<1>7. ASSUME NEW i \in 1..Len(Ranges)
      PROVE  \E n \in Stable(N) : Cardinality(Stable(n)) = i /\ Ranges[i] = RangeOf(memoryMap[n])
  <2>1. i \in 1..K /\ Ranges[i] = RangeOf(memoryMap[at(i)])
    BY <1>3, <1>6
  <2>2. QED
    BY <1>1, <2>1
<1>8. QED
  BY <1>6, <1>7

(***************************************************************************)
(* The header as the code fills it, and the signature of the boot before.  *)
(***************************************************************************)
HeaderInv ==
  /\ pc \in {"pci", "settings", "map", "compact", "crc"} =>
       \A w \in 0..(IndexPart4 - 1) :
         /\ w \in DOMAIN Buffer
         /\ Buffer[w] = CASE pc = "pci" -> 0
                          [] pc = "settings" -> IdWord(pci, w)
                          [] OTHER -> HeaderWord(pci, version, settings, w)
  /\ HardwareSignature # Unsigned =>
       /\ HardwareSignature = [w \in DOMAIN HardwareSignature |-> HardwareSignature[w]]
       /\ \A w \in 0..(IndexPart4 - 1) :
            HardwareSignature[w] = HeaderWord(pci, version, settings, w)

LastInv ==
  last # NoBoot =>
    (last.fetched => last.identity \in Identities /\ Signs(last.signature, last.identity))

TellInv == SignatureInv /\ HeaderInv /\ LastInv

LEMMA PartsAreIndexes ==
  /\ IndexPart2 = Part2(pci) /\ IndexPart3 = Part3(pci) /\ IndexPart4 = Part4(pci, settings)
BY DEF IndexPart2, IndexPart3, IndexPart4, Part2, Part3, Part4

(***************************************************************************)
(* What CalculateCrc32 signs is the machine.                               *)
(***************************************************************************)
LEMMA SignedIdentity ==
  ASSUME TellInv, HardwareSignature # Unsigned, fetched
  PROVE  Identity \in Identities /\ Signs(HardwareSignature, Identity)
<1> DEFINE sig == HardwareSignature
           K   == Cardinality(Stable(Len(memoryMap)))
<1>0. /\ MachineOK /\ Len(memoryMap) \in Nat /\ IndexPart4 \in Nat /\ K \in Nat
      /\ Start(Identity) = IndexPart4
  <2>1. MachineOK
    BY DEF TellInv, SignatureInv
  <2>2. Start(Identity) = IndexPart4
    BY PartsAreIndexes DEF Identity, Start
  <2>3. QED
    BY <2>1, <2>2, LayoutOK, StableCount
<1>1. Identity \in Identities
  BY <1>0, RangesShape DEF Identity, Identities, MachineOK
<1>2. Len(Identity[4]) = K /\ Identity[4] = Ranges
  BY <1>0, RangesShape DEF Identity
<1>3. sig = [w \in 0..(Length(Identity) - 1) |-> sig[w]]
  <2>1. DOMAIN sig = 0..(IndexPart4 + 4 * K - 1)
    BY DEF TellInv, SignatureInv, SignatureHoldsRanges
  <2>2. Length(Identity) = IndexPart4 + 4 * K
    BY <1>0, <1>2 DEF Length
  <2>3. sig = [w \in DOMAIN sig |-> sig[w]]
    BY DEF TellInv, HeaderInv
  <2> HIDE DEF sig, K
  <2>4. DOMAIN sig = 0..(Length(Identity) - 1)
    BY <1>0, <2>1, <2>2
  <2>5. QED
    BY <2>3, <2>4, Zenon
<1>4. \A w \in 0..(Start(Identity) - 1) :
        sig[w] = HeaderWord(Identity[1], Identity[2], Identity[3], w)
  BY <1>0 DEF TellInv, HeaderInv, Identity
<1>5. ASSUME NEW i \in 1..Len(Identity[4])
      PROVE  HasRange(sig, Start(Identity) + 4 * (i - 1), Identity[4][i])
  <2>1. PICK n \in Stable(Len(memoryMap)) :
          Cardinality(Stable(n)) = i /\ Ranges[i] = RangeOf(memoryMap[n])
    BY <1>0, <1>2, RangesShape
  <2>2. Holds(sig, n)
    BY DEF TellInv, SignatureInv, SignatureHoldsRanges
  <2>3. RangeAt(n) = Start(Identity) + 4 * (i - 1)
    BY <1>0, <2>1 DEF RangeAt
  <2>4. Identity[4][i] = <<memoryMap[n].start, memoryMap[n].pages>>
    BY <1>2, <2>1 DEF RangeOf
  <2>5. QED
    BY <2>2, <2>3, <2>4 DEF Holds, HasRange
<1>6. QED
  BY <1>1, <1>3, <1>4, <1>5 DEF Signs

LEMMA TellInvInit == SignatureInit => TellInv
<1> SUFFICES ASSUME SignatureInit PROVE TellInv
  OBVIOUS
<1>1. SignatureInv
  BY SignatureInvInit
<1>2. HeaderInv /\ LastInv
  BY DEF SignatureInit, HeaderInv, LastInv
<1>3. QED
  BY <1>1, <1>2 DEF TellInv

(***************************************************************************)
(* While the machine is the same: a step that neither fills nor signs      *)
(* keeps the header.                                                       *)
(***************************************************************************)
LEMMA HeaderStays ==
  ASSUME TellInv, UNCHANGED <<machineVars, HardwareSignature, last>>,
         \/ pc' \in {"allocate", "end"}
         \/ /\ pc \in {"map", "compact", "crc"} /\ pc' \in {"map", "compact", "crc"}
            /\ DOMAIN Buffer' = DOMAIN Buffer
            /\ \A w \in 0..(IndexPart4 - 1) : Buffer'[w] = Buffer[w]
  PROVE  HeaderInv' /\ LastInv'
<1>1. IndexPart4' = IndexPart4 /\ pci' = pci /\ version' = version /\ settings' = settings
  BY DEF machineVars, IndexPart4, IndexPart3, IndexPart2
<1>2. LastInv'
  BY DEF TellInv, LastInv
<1>3. HeaderInv'
  <2>1. HardwareSignature' # Unsigned =>
          /\ HardwareSignature' = [w \in DOMAIN HardwareSignature' |-> HardwareSignature'[w]]
          /\ \A w \in 0..(IndexPart4' - 1) :
               HardwareSignature'[w] = HeaderWord(pci', version', settings', w)
    BY <1>1 DEF TellInv, HeaderInv
  <2>2. CASE pc' \in {"allocate", "end"}
    BY <2>1, <2>2 DEF HeaderInv
  <2>3. CASE /\ pc \in {"map", "compact", "crc"} /\ pc' \in {"map", "compact", "crc"}
             /\ DOMAIN Buffer' = DOMAIN Buffer
             /\ \A w \in 0..(IndexPart4 - 1) : Buffer'[w] = Buffer[w]
    <3>1. \A w \in 0..(IndexPart4 - 1) :
            w \in DOMAIN Buffer /\ Buffer[w] = HeaderWord(pci, version, settings, w)
      BY <2>3 DEF TellInv, HeaderInv
    <3>2. \A w \in 0..(IndexPart4' - 1) :
            w \in DOMAIN Buffer' /\ Buffer'[w] = HeaderWord(pci', version', settings', w)
      BY <1>1, <2>3, <3>1
    <3>3. QED
      BY <2>1, <2>3, <3>2 DEF HeaderInv
  <2>4. QED
    BY <2>2, <2>3
<1>4. QED
  BY <1>2, <1>3

(***************************************************************************)
(* The three steps that fill the header.                                   *)
(***************************************************************************)
LEMMA HeaderFilled ==
  ASSUME TellInv, UNCHANGED <<machineVars, HardwareSignature, last>>,
         pc \in {"allocate", "pci", "settings"}, pc' \in {"pci", "settings", "map"},
         \A w \in 0..(IndexPart4 - 1) :
           /\ w \in DOMAIN Buffer'
           /\ Buffer'[w] = CASE pc' = "pci" -> 0
                             [] pc' = "settings" -> IdWord(pci, w)
                             [] OTHER -> HeaderWord(pci, version, settings, w)
  PROVE  HeaderInv' /\ LastInv'
<1>1. IndexPart4' = IndexPart4 /\ pci' = pci /\ version' = version /\ settings' = settings
  BY DEF machineVars, IndexPart4, IndexPart3, IndexPart2
<1>2. LastInv'
  BY DEF TellInv, LastInv
<1>3. HardwareSignature' = Unsigned
  BY DEF TellInv, SignatureInv, NotSigned
<1>4. HeaderInv'
  BY <1>1, <1>3 DEF HeaderInv
<1>5. QED
  BY <1>2, <1>4

LEMMA TellInvStep == TellInv /\ [SignatureNext]_signatureVars => TellInv'
<1> SUFFICES ASSUME TellInv, [SignatureNext]_signatureVars PROVE HeaderInv' /\ LastInv'
  BY SignatureInvNext DEF TellInv
<1>0. /\ MachineOK /\ SignatureInv
      /\ Len(pci) \in Nat /\ Len(settings) \in Nat
      /\ IndexPart2 \in Nat /\ IndexPart3 \in Nat /\ IndexPart4 \in Nat
      /\ BufferCount \in Nat /\ BufferCount >= IndexPart4
      /\ IndexPart2 >= Len(pci) + 2 /\ IndexPart3 >= IndexPart2 + 1
  <2>1. MachineOK /\ SignatureInv /\ MemoryMapSize \in Nat
    BY DEF TellInv, SignatureInv, MachineOK
  <2>2. /\ Len(pci) \in Nat /\ Len(settings) \in Nat /\ IndexPart4 \in Nat
        /\ BufferCount \in Nat /\ BufferCount >= IndexPart4 + MemoryMapSize
    BY <2>1, LayoutOK
  <2>3. /\ IndexPart2 \in Nat /\ IndexPart3 \in Nat
        /\ IndexPart2 >= Len(pci) + 2 /\ IndexPart3 >= IndexPart2 + 1
    BY <2>2, PartsInOrder, PartsAreIndexes
  <2>4. QED
    BY <2>1, <2>2, <2>3
<1>1. CASE UNCHANGED signatureVars
  <2>1. IndexPart4' = IndexPart4
    BY <1>1 DEF signatureVars, machineVars, IndexPart4, IndexPart3, IndexPart2
  <2>2. QED
    BY <1>1, <2>1 DEF signatureVars, machineVars, TellInv, HeaderInv, LastInv
<1>2. CASE Measure
  BY <1>2, HeaderStays DEF Measure, Fail
<1>3. CASE AllocateBuffer
  <2>1. CASE Fail
    BY <2>1, HeaderStays DEF Fail
  <2>2. CASE /\ Buffer' = [w \in 0..(BufferCount - 1) |-> 0]
             /\ pc' = "pci"
             /\ UNCHANGED <<machineVars, HardwareSignature, last>>
    <3>1. \A w \in 0..(IndexPart4 - 1) : w \in 0..(BufferCount - 1)
      BY <1>0
    <3>2. \A w \in 0..(IndexPart4 - 1) : w \in DOMAIN Buffer' /\ Buffer'[w] = 0
      BY <2>2, <3>1
    <3>3. QED
      BY <1>3, <2>2, <3>2, HeaderFilled DEF AllocateBuffer
  <2>3. QED
    BY <1>3, <2>1, <2>2 DEF AllocateBuffer
<1>4. CASE FillPciIds
  <2>1. /\ pc = "pci" /\ pc' \in {"settings", "end"}
        /\ Buffer' = [w \in DOMAIN Buffer |->
                       IF w < Len(pci) THEN pci[w + 1]
                       ELSE IF w < Len(pci) + 2 THEN XDsdt[w - Len(pci) + 1] ELSE Buffer[w]]
        /\ UNCHANGED <<machineVars, HardwareSignature, last>>
    BY <1>4 DEF FillPciIds
  <2>2. \A w \in 0..(IndexPart4 - 1) : w \in DOMAIN Buffer /\ Buffer[w] = 0
    BY <2>1 DEF TellInv, HeaderInv
  <2>3. \A w \in 0..(IndexPart4 - 1) : w \in DOMAIN Buffer' /\ Buffer'[w] = IdWord(pci, w)
    BY <2>1, <2>2 DEF IdWord
  <2>4. CASE pc' = "end"
    BY <2>1, <2>4, HeaderStays
  <2>5. CASE pc' = "settings"
    BY <2>1, <2>3, <2>5, HeaderFilled
  <2>6. QED
    BY <2>1, <2>4, <2>5
<1>5. CASE FillVersionAndSettings
  <2>1. CASE Fail
    BY <2>1, HeaderStays DEF Fail
  <2>2. CASE /\ Buffer' = [w \in DOMAIN Buffer |->
                            CASE w = IndexPart2 -> version
                              [] w - IndexPart3 \in 0..(Len(settings) - 1) ->
                                   settings[w - IndexPart3 + 1]
                              [] OTHER -> Buffer[w]]
             /\ pc' = "map"
             /\ UNCHANGED <<machineVars, HardwareSignature, last>>
    <3>1. \A w \in 0..(IndexPart4 - 1) : w \in DOMAIN Buffer /\ Buffer[w] = IdWord(pci, w)
      BY <1>5 DEF FillVersionAndSettings, TellInv, HeaderInv
    <3>2. IndexPart2 - IndexPart3 \notin 0..(Len(settings) - 1)
      BY <1>0
    <3>3. ASSUME NEW w \in 0..(IndexPart4 - 1)
          PROVE  w \in DOMAIN Buffer' /\ Buffer'[w] = HeaderWord(pci, version, settings, w)
      <4>1. /\ w \in DOMAIN Buffer'
            /\ w = IndexPart2 => Buffer'[w] = version
            /\ w # IndexPart2 /\ w - IndexPart3 \in 0..(Len(settings) - 1)
                 => Buffer'[w] = settings[w - IndexPart3 + 1]
            /\ w # IndexPart2 /\ w - IndexPart3 \notin 0..(Len(settings) - 1)
                 => Buffer'[w] = Buffer[w]
        BY <2>2, <3>1, <3>2
      <4>2. QED
        BY <3>1, <4>1, PartsAreIndexes DEF HeaderWord
    <3>4. QED
      BY <1>5, <2>2, <3>3, HeaderFilled DEF FillVersionAndSettings
  <2>3. QED
    BY <1>5, <2>1, <2>2 DEF FillVersionAndSettings
<1>6. CASE FetchMemoryMap
  <2>1. /\ pc = "map" /\ pc' \in {"compact", "crc"} /\ DOMAIN Buffer' = DOMAIN Buffer
        /\ UNCHANGED <<machineVars, HardwareSignature, last>>
    BY <1>6 DEF FetchMemoryMap
  <2>2. ASSUME NEW w \in 0..(IndexPart4 - 1) PROVE Buffer'[w] = Buffer[w]
    <3>1. w \in DOMAIN Buffer
      BY <2>1 DEF TellInv, HeaderInv
    <3>2. \A size : w - IndexPart4 \notin 0..(size - 1)
      BY <1>0
    <3>3. QED
      BY <1>6, <3>1, <3>2 DEF FetchMemoryMap
  <2>3. QED
    BY <2>1, <2>2, HeaderStays
<1>7. CASE KeepDescriptor
  <2> DEFINE d == EntryAt(entry)
  <2>1. /\ Compacting /\ pc = "compact" /\ pc' = pc
        /\ UNCHANGED <<machineVars, HardwareSignature, last>>
        /\ Buffer' = [Buffer EXCEPT ![MapState] = Buffer[d + 2], ![MapState + 1] = Buffer[d + 3],
                                    ![MapState + 2] = Buffer[d + 6], ![MapState + 3] = Buffer[d + 7]]
    BY <1>7 DEF KeepDescriptor, Compacting
  <2>2. /\ MapState \in Nat /\ MapState >= IndexPart4
        /\ \A k \in MapState..(MapState + 3) : k \in DOMAIN Buffer
    BY <1>0, <2>1, RoomBehindEntry
  <2>3. /\ DOMAIN Buffer' = DOMAIN Buffer
        /\ \A w \in DOMAIN Buffer : w \notin MapState..(MapState + 3) => Buffer'[w] = Buffer[w]
    BY ONLY <2>1, <2>2, StoreRange
  <2>4. ASSUME NEW w \in 0..(IndexPart4 - 1) PROVE Buffer'[w] = Buffer[w]
    <3>1. w \in DOMAIN Buffer
      BY <2>1 DEF TellInv, HeaderInv
    <3>2. w \notin MapState..(MapState + 3)
      BY <1>0, <2>2
    <3>3. QED
      BY <2>3, <3>1, <3>2
  <2>5. QED
    BY <2>1, <2>3, <2>4, HeaderStays
<1>8. CASE SkipDescriptor
  BY <1>8, HeaderStays DEF SkipDescriptor, Compacting
<1>9. CASE FinishCompaction
  BY <1>9, HeaderStays DEF FinishCompaction
<1>10. CASE CalculateCrc32
  <2>1. /\ pc = "crc" /\ pc' = "end" /\ UNCHANGED <<machineVars, last>>
        /\ HardwareSignature' = [w \in 0..(MapState - 1) |-> Buffer[w]]
    BY <1>10 DEF CalculateCrc32
  <2>2. MapState \in Nat /\ MapState >= IndexPart4
    <3>1. Len(memoryMap) \in Nat
      BY <1>0, LayoutOK
    <3>2. Cardinality(Stable(Len(memoryMap))) \in Nat
      BY <3>1, StableCount
    <3>3. QED
      BY <1>0, <2>1, <3>2 DEF SignatureInv, Finished
  <2>3. IndexPart4' = IndexPart4 /\ pci' = pci /\ version' = version /\ settings' = settings
    BY <2>1 DEF machineVars, IndexPart4, IndexPart3, IndexPart2
  <2>4. ASSUME NEW w \in 0..(IndexPart4 - 1)
        PROVE  HardwareSignature'[w] = HeaderWord(pci, version, settings, w)
    <3>1. Buffer[w] = HeaderWord(pci, version, settings, w)
      BY <2>1 DEF TellInv, HeaderInv
    <3>2. w \in 0..(MapState - 1)
      BY <1>0, <2>2
    <3>3. QED
      BY <2>1, <3>1, <3>2
  <2>5. HardwareSignature' = [w \in DOMAIN HardwareSignature' |-> HardwareSignature'[w]]
    BY <2>1
  <2>6. HeaderInv'
    BY <2>1, <2>3, <2>4, <2>5 DEF HeaderInv
  <2>7. LastInv'
    BY <2>1 DEF TellInv, LastInv
  <2>8. QED
    BY <2>6, <2>7
<1>11. CASE NextBoot
  <2>1. /\ pc' = "measure" /\ HardwareSignature' = Unsigned
        /\ last' = IF HardwareSignature = Unsigned THEN last
                   ELSE [signature |-> HardwareSignature, identity |-> Identity,
                         fetched |-> fetched]
    BY <1>11 DEF NextBoot
  <2>2. HeaderInv'
    BY <2>1 DEF HeaderInv
  <2>3. CASE HardwareSignature = Unsigned
    BY <2>1, <2>2, <2>3 DEF TellInv, LastInv
  <2>4. CASE HardwareSignature # Unsigned
    <3>1. fetched => Identity \in Identities /\ Signs(HardwareSignature, Identity)
      BY <2>4, SignedIdentity
    <3>2. /\ last'.signature = HardwareSignature /\ last'.identity = Identity
          /\ last'.fetched = fetched
      BY <2>1, <2>4
    <3>3. QED
      BY <2>2, <3>1, <3>2 DEF LastInv
  <2>5. QED
    BY <2>3, <2>4
<1>12. QED
  BY <1>1, <1>2, <1>3, <1>4, <1>5, <1>6, <1>7, <1>8, <1>9, <1>10, <1>11 DEF SignatureNext

(***************************************************************************)
(* One machine has one signature, boot after boot, and a device, version,  *)
(* setting or stable range that differs shows.                             *)
(***************************************************************************)
THEOREM MachinesAreTold == SignatureSpec => []SignatureTellsMachines
<1>1. TellInv => SignatureTellsMachines
  <2> SUFFICES ASSUME TellInv, HardwareSignature # Unsigned, fetched, last # NoBoot, last.fetched
               PROVE  /\ Identity = last.identity => HardwareSignature = last.signature
                      /\ SameLayout(Identity, last.identity)
                           /\ HardwareSignature = last.signature => Identity = last.identity
    BY DEF SignatureTellsMachines
  <2>1. Identity \in Identities /\ Signs(HardwareSignature, Identity)
    BY SignedIdentity
  <2>2. last.identity \in Identities /\ Signs(last.signature, last.identity)
    BY DEF TellInv, LastInv
  <2>3. Identity = last.identity => HardwareSignature = last.signature
    BY <2>1, <2>2, OneSignature
  <2>4. SameLayout(Identity, last.identity) /\ HardwareSignature = last.signature
          => Identity = last.identity
    BY <2>1, <2>2, SignatureTells
  <2>5. QED
    BY <2>3, <2>4
<1>2. QED
  BY TellInvInit, TellInvStep, <1>1, PTL DEF SignatureSpec
=============================================================================
