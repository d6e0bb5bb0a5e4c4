--------------------------- MODULE HardwareSignature ---------------------------
(***************************************************************************)
(* UpdateFacsHardwareSignatureLib: before the first boot option starts, a  *)
(* buffer is filled with what identifies the machine, and its CRC becomes  *)
(* the HardwareSignature of the FACS, by which an operating system that    *)
(* wakes from hibernation knows the machine it went to sleep on.           *)
(*                                                                         *)
(* The buffer is an array of UINT32 of a size computed before it is        *)
(* allocated; the memory map is fetched into it and then compacted in      *)
(* place.  The CRC is taken to tell any two contents apart.                *)
(***************************************************************************)
EXTENDS Integers, FiniteSets, Sequences

CONSTANTS
  UINT32,        \* the values of a word that occur
  Devices,       \* the values of PciHandleBuffer: for each handle the id read from it
  Versions,      \* values of PcdUefiVersionNumber
  Settings,      \* values of the settings variable, in words
  XDsdt,         \* the two words of FadtPtr->XDsdt
  Descriptors,   \* memory descriptors
  MaxMap         \* bound: descriptors in the memory map

UINT64 == UINT32 \X UINT32   \* low word, high word
MemoryMaps == UNION {[1..n -> Descriptors] : n \in 0..MaxMap}

ASSUME SignatureAssumption ==
  /\ UINT32 \subseteq Nat /\ 0 \in UINT32
  /\ Devices \subseteq Seq(UINT32)      \* 0 where HandleProtocol or Pci.Read fails
  /\ Versions \subseteq UINT32
  /\ Settings \subseteq Seq(UINT32)
  /\ XDsdt \in UINT64
  /\ Descriptors \subseteq [type : UINT32, start : UINT64, pages : UINT64]
  /\ MaxMap \in Nat

VARIABLES
  \* The machine.
  pci, version, settings, memoryMap,
  \* UpdateFacsHardwareSignature.
  pc,
  MemoryMapSize,   \* in words
  Buffer,
  entry,           \* i of the loop over the memory map: Entry is at that descriptor
  MapState,        \* the word of Buffer it points to
  fetched,         \* Status of the second GetMemoryMap
  HardwareSignature,
  \* The latest boot that computed a signature.
  last

machineVars   == <<pci, version, settings>>
signatureVars == <<machineVars, memoryMap, pc, MemoryMapSize, Buffer, entry, MapState, fetched,
                   HardwareSignature, last>>

DescriptorSize == 12   \* "The MemoryMap buffer is an array of 48 byte entries."
Unsigned       == <<>>
NoBoot         == [signature |-> Unsigned]

-----------------------------------------------------------------------------
(***************************************************************************)
(* The layout of the buffer; every part starts at an even word.            *)
(***************************************************************************)
Aligned(n) == n + (n % 2)

IndexPart2  == Aligned(Len(pci)) + 2
IndexPart3  == Aligned(IndexPart2 + 1)
IndexPart4  == Aligned(IndexPart3 + Len(settings))
BufferCount == Aligned(IndexPart4 + MemoryMapSize)

(***************************************************************************)
(* The types of memory that must be where they were: runtime services code *)
(* and data, reserved, and the two of ACPI.                                *)
(***************************************************************************)
StableTypes == {0, 5, 6, 9, 10}

StableOf(map) == SelectSeq(map, LAMBDA d : d.type \in StableTypes)

(***************************************************************************)
(* Word o of an EFI_MEMORY_DESCRIPTOR; the virtual start, the attributes   *)
(* and the padding do not matter.                                          *)
(***************************************************************************)
Word(d, o) ==
  CASE o = 0 -> d.type
    [] o = 2 -> d.start[1]
    [] o = 3 -> d.start[2]
    [] o = 6 -> d.pages[1]
    [] o = 7 -> d.pages[2]
    [] OTHER -> 0

-----------------------------------------------------------------------------
SignatureInit ==
  /\ pci \in Devices /\ version \in Versions /\ settings \in Settings
  /\ memoryMap \in MemoryMaps \ {<<>>}
  /\ pc = "measure"
  /\ MemoryMapSize = 0 /\ Buffer = <<>> /\ entry = 0 /\ MapState = 0
  /\ fetched = FALSE
  /\ HardwareSignature = Unsigned
  /\ last = NoBoot

Fail ==
  /\ pc' = "end"
  /\ UNCHANGED <<machineVars, memoryMap, MemoryMapSize, Buffer, entry, MapState, fetched,
                 HardwareSignature, last>>

(***************************************************************************)
(* The FACS, the PCI handles, the settings and the memory map are looked   *)
(* for; each may be missing.                                               *)
(***************************************************************************)
Measure ==
  /\ pc = "measure"
  /\ \/ /\ MemoryMapSize' = DescriptorSize * Len(memoryMap)
        /\ pc' = "allocate"
        /\ UNCHANGED <<machineVars, memoryMap, Buffer, entry, MapState, fetched,
                       HardwareSignature, last>>
     \/ Fail

(***************************************************************************)
(* Taking memory for the buffer may change the memory map: a range is      *)
(* split and a descriptor more describes it, or ranges merge.              *)
(***************************************************************************)
AfterAllocation(map) ==
  {m \in MemoryMaps \ {<<>>} : /\ Len(m) \in (Len(map) - 1)..(Len(map) + 1)
                              /\ StableOf(m) = StableOf(map)}

AllocateUncleared ==  \* mutant: AllocatePool instead of AllocateZeroPool
  /\ pc = "allocate"
  /\ \/ /\ \E garbage \in {0, 1} : Buffer' = [w \in 0..(BufferCount - 1) |-> garbage]
        /\ memoryMap' \in AfterAllocation(memoryMap)
        /\ pc' = "pci"
        /\ UNCHANGED <<machineVars, MemoryMapSize, entry, MapState, fetched,
                       HardwareSignature, last>>
     \/ Fail

AllocateBuffer ==
  /\ pc = "allocate"
  /\ \/ /\ Buffer' = [w \in 0..(BufferCount - 1) |-> 0]
        /\ memoryMap' \in AfterAllocation(memoryMap)
        /\ pc' = "pci"
        /\ UNCHANGED <<machineVars, MemoryMapSize, entry, MapState, fetched,
                       HardwareSignature, last>>
     \/ Fail

(***************************************************************************)
(* The ids, then XDsdt behind the last of them.                            *)
(***************************************************************************)
FillPciIds ==
  /\ pc = "pci"
  /\ LET i == Len(pci)
     IN  /\ Buffer' = [w \in DOMAIN Buffer |->
                         IF w < i THEN pci[w + 1]
                         ELSE IF w < i + 2 THEN XDsdt[w - i + 1] ELSE Buffer[w]]
         /\ pc' = IF i + 2 > IndexPart2 THEN "end" ELSE "settings"
  /\ UNCHANGED <<machineVars, memoryMap, MemoryMapSize, entry, MapState, fetched,
                 HardwareSignature, last>>

FillVersionAndSettings ==
  /\ pc = "settings"
  /\ \/ /\ Buffer' = [w \in DOMAIN Buffer |->
                        CASE w = IndexPart2 -> version
                          [] w - IndexPart3 \in 0..(Len(settings) - 1) ->
                               settings[w - IndexPart3 + 1]
                          [] OTHER -> Buffer[w]]
        /\ pc' = "map"
        /\ UNCHANGED <<machineVars, memoryMap, MemoryMapSize, entry, MapState, fetched,
                       HardwareSignature, last>>
     \/ Fail

(***************************************************************************)
(* A map that no longer fits is not fetched, and that is no error.         *)
(***************************************************************************)
FetchMemoryMap ==
  /\ pc = "map"
  /\ MapState' = IndexPart4
  /\ LET size == DescriptorSize * Len(memoryMap)
     IN  /\ fetched' = (size <= MemoryMapSize)
         /\ MemoryMapSize' = size
         /\ Buffer' =
              IF ~fetched' THEN Buffer
              ELSE [w \in DOMAIN Buffer |->
                      IF w - IndexPart4 \in 0..(size - 1)
                      THEN Word(memoryMap[(w - IndexPart4) \div DescriptorSize + 1],
                                (w - IndexPart4) % DescriptorSize)
                      ELSE Buffer[w]]
  /\ entry' = 0
  /\ pc' = IF fetched' THEN "compact" ELSE "crc"
  /\ UNCHANGED <<machineVars, memoryMap, HardwareSignature, last>>

-----------------------------------------------------------------------------
(***************************************************************************)
(* The compaction: 16 bytes for each stable descriptor, written over the   *)
(* array they are read from.                                               *)
(***************************************************************************)
EntryAtSizeof(i) == IndexPart4 + i * 10  \* mutant: steps of sizeof (EFI_MEMORY_DESCRIPTOR)

EntryAt(i) == IndexPart4 + i * DescriptorSize

Compacting == pc = "compact" /\ entry < MemoryMapSize \div DescriptorSize

KeepDescriptor ==
  /\ Compacting
  /\ LET d == EntryAt(entry)
     IN  /\ Buffer[d] \in StableTypes
         /\ Buffer' = [Buffer EXCEPT ![MapState]     = Buffer[d + 2],
                                     ![MapState + 1] = Buffer[d + 3],
                                     ![MapState + 2] = Buffer[d + 6],
                                     ![MapState + 3] = Buffer[d + 7]]
  /\ MapState' = MapState + 4
  /\ entry' = entry + 1
  /\ UNCHANGED <<machineVars, memoryMap, pc, MemoryMapSize, fetched, HardwareSignature, last>>

SkipDescriptor ==
  /\ Compacting
  /\ Buffer[EntryAt(entry)] \notin StableTypes
  /\ entry' = entry + 1
  /\ UNCHANGED <<machineVars, memoryMap, pc, MemoryMapSize, Buffer, MapState, fetched,
                 HardwareSignature, last>>

FinishCompaction ==
  /\ pc = "compact" /\ ~Compacting
  /\ pc' = "crc"
  /\ UNCHANGED <<machineVars, memoryMap, MemoryMapSize, Buffer, entry, MapState, fetched,
                 HardwareSignature, last>>

CalculateCrc32 ==
  /\ pc = "crc"
  /\ HardwareSignature' = [w \in 0..(MapState - 1) |-> Buffer[w]]
  /\ pc' = "end"
  /\ UNCHANGED <<machineVars, memoryMap, MemoryMapSize, Buffer, entry, MapState, fetched, last>>

-----------------------------------------------------------------------------
(***************************************************************************)
(* What makes a machine the same one to a sleeping operating system: among *)
(* its memory, the ranges of the stable descriptors in the map's order.    *)
(* Stable(n) are those among the first n descriptors.                      *)
(***************************************************************************)
Stable(n) == {i \in 1..n : memoryMap[i].type \in StableTypes}

RangeOf(d) == <<d.start, d.pages>>

Ranges ==
  [i \in 1..Cardinality(Stable(Len(memoryMap))) |->
     RangeOf(memoryMap[CHOOSE n \in Stable(Len(memoryMap)) : Cardinality(Stable(n)) = i])]

Identity == <<pci, version, settings, Ranges>>

NextBoot ==
  /\ pc = "end"
  /\ last' = IF HardwareSignature = Unsigned THEN last
             ELSE [signature |-> HardwareSignature, identity |-> Identity, fetched |-> fetched]
  /\ pci' \in Devices /\ version' \in Versions /\ settings' \in Settings
  /\ memoryMap' \in MemoryMaps \ {<<>>}
  /\ pc' = "measure"
  /\ MemoryMapSize' = 0 /\ Buffer' = <<>> /\ entry' = 0 /\ MapState' = 0
  /\ fetched' = FALSE
  /\ HardwareSignature' = Unsigned

SignatureNext ==
  \/ Measure \/ AllocateBuffer \/ FillPciIds \/ FillVersionAndSettings \/ FetchMemoryMap
  \/ KeepDescriptor \/ SkipDescriptor \/ FinishCompaction \/ CalculateCrc32
  \/ NextBoot

SignatureSpec == SignatureInit /\ [][SignatureNext]_signatureVars

-----------------------------------------------------------------------------
(***************************************************************************)
(* The words hold the range of descriptor n at its place among the stable  *)
(* ones.                                                                   *)
(***************************************************************************)
RangeAt(n) == IndexPart4 + 4 * (Cardinality(Stable(n)) - 1)

Holds(words, n) ==
  /\ words[RangeAt(n)]     = memoryMap[n].start[1]
  /\ words[RangeAt(n) + 1] = memoryMap[n].start[2]
  /\ words[RangeAt(n) + 2] = memoryMap[n].pages[1]
  /\ words[RangeAt(n) + 3] = memoryMap[n].pages[2]

(***************************************************************************)
(* When the memory map was fetched, the signature ends with the start and  *)
(* the size of every stable range, in the order of the map, and with       *)
(* nothing else of the array that was compacted: no descriptor is          *)
(* overwritten before it is read.  When it was not, nothing of it is in.   *)
(***************************************************************************)
SignatureHoldsRanges ==
  HardwareSignature # Unsigned =>
    IF ~fetched THEN DOMAIN HardwareSignature = 0..(IndexPart4 - 1)
    ELSE /\ DOMAIN HardwareSignature
              = 0..(IndexPart4 + 4 * Cardinality(Stable(Len(memoryMap))) - 1)
         /\ \A n \in Stable(Len(memoryMap)) : Holds(HardwareSignature, n)

(***************************************************************************)
(* Two boots of one machine that both fetched the map have the same        *)
(* signature, and a device, version, setting or stable range that differs  *)
(* shows.  (A part that is longer may look like a shorter one with its     *)
(* padding, so this is said of machines with parts of the same lengths.)   *)
(***************************************************************************)
SameLayout(a, b) == Len(a[1]) = Len(b[1]) /\ Len(a[3]) = Len(b[3])

SignatureTellsMachines ==
  HardwareSignature # Unsigned /\ fetched /\ last # NoBoot =>
    (last.fetched =>
      /\ Identity = last.identity => HardwareSignature = last.signature
      /\ SameLayout(Identity, last.identity) /\ HardwareSignature = last.signature
           => Identity = last.identity)

(***************************************************************************)
(* The memory map makes up part of every signature, as the comment at the  *)
(* head of the function lists it (UpdateFacsHardwareSignatureLib.c:145).   *)
(***************************************************************************)
MapIsPartOfSignature == HardwareSignature # Unsigned => fetched
=============================================================================
