-------------------------------- MODULE Boot --------------------------------
(***************************************************************************)
(* From the bootloader to Memory::init: stage 1 builds a page directory    *)
(* (stivale2.c), stage 2 and kernelEntry read the tags (Handoff.cpp), and  *)
(* Physical::Manager::initialize and Memory::init derive from the memory   *)
(* map which frames are free.  Addresses are page numbers; stivale2 gives  *)
(* page-aligned, disjoint entries.                                         *)
(***************************************************************************)
EXTENDS Integers, Sequences

BX == INSTANCE SequencesExt

CONSTANTS
  Entries,                   \* ARCH_PAGE_TABLE_ENTRIES
  SpacePages,                \* pages of the 32 bit address space
  EarlyStart, EarlyEnd,      \* EARLY_KERNEL_START, EARLY_KERNEL_END
  LinkBase,                  \* KERNEL_BASE
  LinkStart, LinkEnd,        \* KERNEL_START, KERNEL_END
  MaxSections,               \* MemoryMap::m_max_sections
  MemoryMaps,                \* memory maps a bootloader may give
  Nothing

TableName == {"low", "kernel0", "kernel1", "boot"}

(* The linker script puts the kernel behind the early kernel, which begins   *)
(* at 1 MB: its first page is in the first table above KERNEL_BASE.  It      *)
(* asserts that KERNEL_SIZE is below 7 MB, where a table maps 4 MB.          *)
ASSUME BootAssumption ==
  /\ Entries \in Nat \ {0} /\ SpacePages \in Nat /\ LinkBase \in Nat
  /\ SpacePages % (2 * Entries) = 0 /\ LinkBase % (2 * Entries) = 0
  /\ EarlyEnd \in Nat /\ EarlyStart \in 1..EarlyEnd /\ EarlyEnd <= Entries
  /\ LinkEnd \in Nat /\ LinkStart \in (LinkBase + 1)..LinkEnd /\ LinkStart < LinkBase + Entries
  /\ 4 * (LinkEnd - LinkStart) < 7 * Entries /\ LinkEnd <= SpacePages
  /\ MemoryMaps \subseteq Seq([base : Nat, length : Nat, type : STRING])
  /\ Nothing \notin TableName

VARIABLES
  boot,        \* the next step, or how it ended
  info,        \* what the bootloader left: address of the tags, the list of
               \* tags with the memory map's address, the memory map
  directory,   \* stage 1 pageDirectory: the table of a present entry
  pageTables,  \* the four tables of stage 1
  todo,        \* the tags not yet parsed
  memoryMap,   \* Handoff::m_memoryMap, its sections
  handled,     \* arguments whose callback ran
  reserved     \* Physical::Manager: the frames in use

bootVars == <<boot, info, directory, pageTables, todo, memoryMap, handled, reserved>>

AllPages == 0..(SpacePages - 1)

BootInit ==
  /\ boot = "off" /\ info = Nothing
  /\ directory = [d \in 0..(SpacePages \div Entries - 1) |-> Nothing]
  /\ pageTables = [t \in TableName |-> [e \in 0..(Entries - 1) |-> Nothing]]
  /\ todo = <<>> /\ memoryMap = <<>> /\ handled = {} /\ reserved = AllPages

(* External: the bootloader loads the kernel and enters stage 1, with or     *)
(* without information.                                                     *)
Load(map, tags, memmapAt, order) ==
  /\ info' = [map |-> map, tags |-> tags, memmapAt |-> memmapAt]
  /\ todo' = order
  /\ boot' = IF order = <<>> THEN "earlyPanic" ELSE "low"
  /\ UNCHANGED <<directory, pageTables, memoryMap, handled, reserved>>

Stage1(from, to) ==
  /\ boot = from /\ boot' = to
  /\ UNCHANGED <<info, todo, memoryMap, handled, reserved>>

(* A table after a loop that writes frame[v] to entry[v] in the round of     *)
(* page v: the last round wins.                                             *)
Filled(old, entry, frame) ==
  [e \in DOMAIN old |->
     LET rounds == {v \in DOMAIN entry : entry[v] = e}
     IN IF rounds = {} THEN old[e]
        ELSE frame[CHOOSE v \in rounds : \A w \in rounds : w <= v]]
Same(pages) == [v \in pages |-> v]
Masked10(pages) == [v \in pages |-> v % Entries]   \* & ARCH_PAGE_TABLE_ENTRY_MASK

Stage1MapLowMemory ==
  /\ Stage1("low", "high")
  /\ directory' = [directory EXCEPT ![0] = "low"]
  /\ pageTables' = [pageTables EXCEPT
       !["low"] = Filled(@, Masked10(1..(EarlyEnd - 1)), Same(1..(EarlyEnd - 1)))]

(* Fault: the entry index is masked to one table.                           *)
KernelEntryOneTable(v) == v % Entries
(* kernelPageTable[0].entries[idx & 0x7ff] runs into kernelPageTable[1].     *)
KernelEntry(v) == v % (2 * Entries)

Stage1MapHighMemory ==
  LET d == LinkStart \div Entries
      pages == LinkStart..(LinkEnd - 1)
      physical == [v \in pages |-> v - LinkBase]
  IN /\ Stage1("high", "boot")
     /\ directory' = [directory EXCEPT ![d] = "kernel0", ![d + 1] = "kernel1"]
     /\ pageTables' = [pageTables EXCEPT
          !["kernel0"] = Filled(@, [v \in pages |-> KernelEntry(v)], physical),
          !["kernel1"] = Filled(@, [v \in pages |-> KernelEntry(v) - Entries], physical)]

(* stage1GetBootInfoAddr: the length of a reclaimable entry that starts at   *)
(* the memory map's tag.                                                    *)
InfoEntries ==
  {i \in DOMAIN info.map : info.map[i].type = "bootloader"
                           /\ info.map[i].base % SpacePages = info.memmapAt}
InfoLength == info.map[CHOOSE i \in InfoEntries : \A j \in InfoEntries : i <= j].length

(* From stivale2Info->tags to stivale2InfoEnd, which is 32 bits wide.        *)
MappedInfo == info.tags..(((info.tags + InfoLength) % SpacePages) - 1)

Stage1MapBootloader ==
  LET d == info.tags \div Entries
      t == IF directory[d] = Nothing THEN "boot" ELSE directory[d]
  IN \/ /\ Stage1("boot", "stage2")
        /\ InfoEntries # {}
        /\ directory' = [directory EXCEPT ![d] = t]
        /\ pageTables' = [pageTables EXCEPT ![t] = Filled(@, Masked10(MappedInfo), Same(MappedInfo))]
     \/ /\ Stage1("boot", "earlyPanic")
        /\ InfoEntries = {}
        /\ directory' = [directory EXCEPT ![d] = t]
        /\ UNCHANGED pageTables

(* stage1EnablePaging, stage1JumpToStage2, stage2Entry, kernelEntry up to    *)
(* the handoff.                                                             *)
EnterKernel ==
  /\ Stage1("stage2", "parse")
  /\ UNCHANGED <<directory, pageTables>>

(***************************************************************************)
(* Handoff::parseStivale2, one tag at a time                               *)
(***************************************************************************)
(* The frame that the tables of stage 1 give for a page.                    *)
Walk(v) ==
  LET t == directory[v \div Entries]
  IN IF t = Nothing THEN Nothing ELSE pageTables[t][v % Entries]

(* Where a tag is: the list begins at tags, the memory map has its own place. *)
TagPage(tag) == IF tag = "memmap" THEN info.memmapAt ELSE info.tags

Readable(tag) == Walk(TagPage(tag)) = TagPage(tag)

Parse(tag) ==
  /\ boot = "parse" /\ todo # <<>> /\ Head(todo) = tag
  /\ Readable(tag)
  /\ todo' = Tail(todo)
  /\ UNCHANGED <<info, directory, pageTables, reserved>>

(* Memory::Section(entry.base, entry.length): 64 bits become 32.             *)
Section(entry) ==
  [base |-> entry.base % SpacePages, length |-> entry.length % SpacePages, type |-> entry.type]

(* The next tag is on a page that is not mapped to it.                       *)
ParseFaults ==
  /\ boot = "parse" /\ todo # <<>> /\ ~Readable(Head(todo))
  /\ boot' = "fault"
  /\ UNCHANGED <<info, directory, pageTables, todo, memoryMap, handled, reserved>>

TooMany == Len(info.map) > MaxSections

ParseMemoryMap ==
  /\ Parse("memmap")
  /\ \/ /\ TooMany /\ boot' = "panic" /\ UNCHANGED memoryMap
     \/ /\ ~TooMany /\ UNCHANGED boot
        /\ memoryMap' = [i \in DOMAIN info.map |-> Section(info.map[i])]
  /\ UNCHANGED handled

(* parseCommandLine: strstr only answers for a needle that ends the line.    *)
ParseCommandLine(words) ==
  /\ Parse("cmdline")
  /\ handled' = handled \cup {BX!Last(words)}
  /\ UNCHANGED <<boot, memoryMap>>

(* The framebuffer and unknown tags leave memory alone.                      *)
ParseOther ==
  /\ Parse("framebuffer")
  /\ UNCHANGED <<boot, memoryMap, handled>>

(***************************************************************************)
(* Physical::Manager::initialize and Memory::init                          *)
(***************************************************************************)
(* Section::initialized: no section starts at address 0.                     *)
Initialized(s) == s.base # 0 /\ s.length # 0
FramesOf(s) == {f % SpacePages : f \in s.base..(s.base + s.length - 1)}

InitializePhysical ==
  /\ boot = "parse" /\ todo = <<>>
  /\ reserved' = reserved \
       UNION {FramesOf(s) : s \in {s \in BX!ToSet(memoryMap) :
                                  Initialized(s) /\ s.type = "usable"}}
  /\ boot' = "memory"
  /\ UNCHANGED <<info, directory, pageTables, todo, memoryMap, handled>>

(* mapEarlyMem and mapKernel: the frames that mapKernelPage sets used.       *)
MapKernel == {v - LinkBase : v \in LinkStart..(LinkEnd - 1)}
MapEarlyMem == 0..(EarlyStart - 1)

InitializeMemory ==
  /\ boot = "memory" /\ boot' = "up"
  /\ reserved' = reserved \cup MapEarlyMem \cup MapKernel
  /\ UNCHANGED <<info, directory, pageTables, todo, memoryMap, handled>>

BootNext ==
  \/ boot = "off" /\ \E map \in MemoryMaps : \E i \in DOMAIN map :
       LET memmapAt == map[i].base % SpacePages
       IN \/ \E order \in {<<>>, <<"memmap", "cmdline">>} : Load(map, memmapAt, memmapAt, order)
          \/ \E tags \in (memmapAt..(memmapAt + map[i].length - 1)) \cap AllPages :
               Load(map, tags, memmapAt, <<"cmdline", "framebuffer", "memmap">>)
  \/ Stage1MapLowMemory \/ Stage1MapHighMemory \/ Stage1MapBootloader \/ EnterKernel
  \/ ParseFaults \/ ParseMemoryMap \/ ParseCommandLine(<<"a", "b">>) \/ ParseOther
  \/ InitializePhysical \/ InitializeMemory

BootSpec == BootInit /\ [][BootNext]_bootVars

(***************************************************************************)
(* Properties.                                                             *)
(***************************************************************************)
(* The pages of the boot information, the whole reclaimable entry, do not    *)
(* leave the page table they begin in, which is below the kernel.            *)
InfoArea == info.memmapAt..(info.memmapAt + InfoLength - 1)
InfoInOneTable ==
  info.memmapAt < LinkBase /\ \A p, q \in InfoArea : p \div Entries = q \div Entries

(* When stage 2 starts to run in the higher half, the pages of the kernel    *)
(* that two tables reach are mapped to their frames, wherever below them the *)
(* boot information lies.  If the tags begin where their entry begins and    *)
(* stay in one table, so are all of the entry and the early kernel, and      *)
(* address 0 is not.                                                        *)
KernelMapped ==
  boot \in {"stage2", "parse"} =>
    /\ info.tags < LinkBase =>
         \A v \in LinkStart..(LinkEnd - 1) : v < LinkBase + 2 * Entries => Walk(v) = v - LinkBase
    /\ (info.tags = info.memmapAt /\ InfoInOneTable) =>
         /\ \A v \in InfoArea \cup (1..(EarlyEnd - 1)) : Walk(v) = v
         /\ 0 \notin InfoArea => Walk(0) = Nothing

(* linker.ld asserts a kernel below 7 MB, for larger ones "boot.s must be    *)
(* updated": every page of a kernel that passes is mapped in stage 2.        *)
KernelReachable ==
  (boot \in {"stage2", "parse"} /\ info.tags < LinkBase) =>
    \A v \in LinkStart..(LinkEnd - 1) : Walk(v) = v - LinkBase

(* stage1MapBootloader: "Map in the entire bootloader information linked     *)
(* list": the kernel can read every tag that it has yet to parse.            *)
TagsMapped ==
  (boot = "parse" /\ info.tags < LinkBase) => \A tag \in BX!ToSet(todo) : Readable(tag)

Below4G == \A i \in DOMAIN info.map : info.map[i].base + info.map[i].length <= SpacePages

(* When the kernel begins to allocate, a frame is on offer exactly if the    *)
(* bootloader called it usable and neither early memory nor the kernel is in *)
(* it: no frame is offered twice or lost.  Of a usable entry at address 0    *)
(* nothing is offered.  Maps with entries above 4 GB are out: see           *)
(* OfferedIsUsable.                                                         *)
OffersUsableMemory ==
  (boot = "up" /\ Below4G) =>
    AllPages \ reserved =
      {f \in AllPages :
         /\ \E i \in DOMAIN info.map :
              /\ info.map[i].type = "usable" /\ info.map[i].base # 0
              /\ f \in info.map[i].base..(info.map[i].base + info.map[i].length - 1)
         /\ f >= EarlyStart /\ f \notin (LinkStart - LinkBase)..(LinkEnd - LinkBase - 1)}

(* MemoryMap.hpp: its sections "describe the physical memory layout": what   *)
(* is on offer is in a usable entry, also when others begin above 4 GB.      *)
OfferedIsUsable ==
  boot = "up" => \A f \in AllPages \ reserved :
    \E i \in DOMAIN info.map :
      /\ info.map[i].type = "usable"
      /\ f \in info.map[i].base..(info.map[i].base + info.map[i].length - 1)

(* From stage 1 to the first allocation the kernel can reach itself and its  *)
(* boot information, and then offers the memory it was given.                *)
BootKeepsMemory == KernelMapped /\ OffersUsableMemory
=============================================================================
