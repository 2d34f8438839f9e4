------------------------------ MODULE Virtual ------------------------------
(***************************************************************************)
(* Memory/Virtual.cpp: Virtual::Manager::map over the physical frames of    *)
(* Physical::Manager::getPage.  The kernel builds managers and does not     *)
(* call map yet: this is the class as it stands.  m_lock is never taken,    *)
(* so a call is one action.  Addresses are bytes; unmap is empty.           *)
(***************************************************************************)
EXTENDS Integers

CONSTANTS
  PageBytes,            \* ARCH_PAGE_SIZE
  TablePages,           \* ARCH_PAGE_TABLE_ENTRIES
  VirtualPages,         \* pages of the address space
  FirstPage, EndPage,   \* the range of the manager, as pages; the end of one that
                        \* reaches the end of the space is 0, which VirtualInit has
  PhysicalPages,        \* frames that can be had
  MaxPages,             \* bound: pages asked for in one call
  NoFrame, OldFrame     \* no frame; one mapped before the manager was built

ASSUME VirtualAssumption ==
  /\ TablePages \in Nat \ {0} /\ PageBytes \in Nat \ {0}
  /\ VirtualPages \in Nat \ {0} /\ VirtualPages % TablePages = 0
  /\ EndPage \in 0..(VirtualPages - 1) /\ FirstPage \in 0..EndPage
  /\ PhysicalPages \in Nat /\ MaxPages \in Nat

VARIABLES
  rangeEnd,     \* m_rangeEnd, as a page
  present,      \* directory entries: frame of the table, or NoFrame
  entry,        \* table entries: frame of the page, or NoFrame
  framesUsed,   \* frames given out by getPage
  vpanic,       \* panic reached: none, inUse or memory
  lastMap       \* history: the last call and its result, lost once a search failed or
                \* a range was let through that wraps around the address space

virtualVars == <<rangeEnd, present, entry, framesUsed, vpanic, lastMap>>

SpaceBytes == VirtualPages * PageBytes   \* 2^32: addresses are uintptr_t
nullptr == 0
VPage == 0..(VirtualPages - 1)
DirectoryIndex == 0..(VirtualPages \div TablePages - 1)
TableOf(v) == v \div TablePages

(* The constructor with a lock name does not set m_rangeEnd: both managers   *)
(* of the kernel are static objects, so it is 0.  The directory may have     *)
(* pages mapped already, as Memory::init does.                              *)
VirtualInit ==
  /\ rangeEnd \in {EndPage, 0}
  /\ \E old \in SUBSET (FirstPage..(EndPage - 1)) :
       /\ entry = [v \in VPage |-> IF v \in old THEN OldFrame ELSE NoFrame]
       /\ present = [d \in DirectoryIndex |->
                       IF \E v \in old : TableOf(v) = d THEN OldFrame ELSE NoFrame]
  /\ framesUsed = 0 /\ vpanic = "none"
  /\ lastMap = [kind |-> "none", at |-> 0, pages |-> 0, result |-> nullptr, free |-> {},
                lost |-> FALSE]

(* Entries of a table that is not present are not looked at.                *)
Free(v) == present[TableOf(v)] = NoFrame \/ entry[v] = NoFrame

(***************************************************************************)
(* findFirstFreePageRange                                                  *)
(***************************************************************************)
ScanInit == [run |-> 0, at |-> 0, found |-> FALSE]

(* n more free pages from v on.                                             *)
Longer(acc, v, n, range) ==
  [run |-> acc.run + n, at |-> IF acc.run = 0 THEN v ELSE acc.at,
   found |-> acc.run + n >= range]

(* Fault: a used page does not end the run of free ones.                    *)
ScanEntryGoesOn(acc, v, range) ==
  IF acc.found \/ entry[v] # NoFrame THEN acc ELSE Longer(acc, v, 1, range)
ScanEntry(acc, v, range) ==
  IF acc.found THEN acc
  ELSE IF entry[v] = NoFrame THEN Longer(acc, v, 1, range)
  ELSE [acc EXCEPT !.run = 0]

ScanTable(acc, d, range) ==
  LET first == IF d = TableOf(FirstPage) THEN FirstPage ELSE d * TablePages
      scanned[v \in first..((d + 1) * TablePages)] ==   \* before page v is looked at
        IF v = first THEN acc ELSE ScanEntry(scanned[v - 1], v - 1, range)
  IN IF acc.found THEN acc
     ELSE IF present[d] = NoFrame THEN Longer(acc, d * TablePages, TablePages, range)
     ELSE scanned[(d + 1) * TablePages]

(* npos is the last byte of the address space.                              *)
Npos == VirtualPages - 1
findFirstFreePageRange(range) ==
  LET first == TableOf(FirstPage)
      end == TableOf(rangeEnd)
      scanned[d \in first..end] ==
        IF d = first THEN ScanInit ELSE ScanTable(scanned[d - 1], d - 1, range)
  IN IF first < end THEN scanned[end] ELSE ScanInit

(***************************************************************************)
(* mapPhysicalToVirtual.  The frame of the page is taken before the one of  *)
(* a missing table; getPage panics when there is none.                      *)
(***************************************************************************)
Mapping == [present |-> present, entry |-> entry, used |-> framesUsed, panic |-> "none"]

MapPage(m, v) ==
  LET d == TableOf(v)
      newTable == m.present[d] = NoFrame
      used == m.used + (IF newTable THEN 2 ELSE 1)
      cleared == [w \in VPage |-> IF newTable /\ TableOf(w) = d THEN NoFrame ELSE m.entry[w]]
  IN IF m.panic # "none" THEN m
     ELSE IF used > PhysicalPages THEN [m EXCEPT !.panic = "memory"]
     ELSE [present |-> [m.present EXCEPT ![d] = IF newTable THEN m.used + 1 ELSE @],
           entry |-> IF cleared[v] = NoFrame THEN [cleared EXCEPT ![v] = m.used] ELSE cleared,
           used |-> used,
           panic |-> IF cleared[v] = NoFrame THEN "none" ELSE "inUse"]

(* The pages of the loop in map; the address wraps.                         *)
MapPages(v, n) ==
  LET mapped[i \in 0..n] ==
        IF i = 0 THEN Mapping ELSE MapPage(mapped[i - 1], (v + i - 1) % VirtualPages)
      m == mapped[n]
  IN /\ present' = m.present /\ entry' = m.entry /\ framesUsed' = m.used
     /\ vpanic' = m.panic

FreeNow == {v \in VPage : Free(v)}

(* What map returns: vaddr as the loop has left it, n pages on.              *)
PastRange(addr, n) == (addr + n * PageBytes) % SpaceBytes

(* map(npos, ...): without a free range the loop maps at npos.               *)
MapAnywhere(n) ==
  LET found == findFirstFreePageRange(n)
      v == IF found.found THEN found.at ELSE Npos
      addr == IF found.found THEN v * PageBytes ELSE SpaceBytes - 1
  IN /\ vpanic = "none"
     /\ MapPages(v, n)
     /\ lastMap' = [kind |-> IF found.found THEN "found" ELSE "npos", at |-> v,
                    pages |-> n, result |-> PastRange(addr, n),
                    free |-> FreeNow, lost |-> lastMap.lost \/ ~found.found]
     /\ UNCHANGED rangeEnd

(* isPageFree says whether the page is mapped; isPageRangeFree takes the     *)
(* number of pages for bytes and rounds it up to pages.  The end of its loop *)
(* wraps, and then it looks at no page.                                     *)
isPageFree(v) == ~Free(v)
TestedPages(n) == (n + PageBytes - 1) \div PageBytes
isPageRangeFree(v, n) ==
  \A w \in v..(((v + TestedPages(n)) % VirtualPages) - 1) : isPageFree(w)

(* The sum is of bytes and pages, and wraps as well.                         *)
Allowed(addr, n) ==
  /\ addr >= FirstPage * PageBytes /\ (addr + n) % SpaceBytes <= rangeEnd * PageBytes
  /\ isPageRangeFree(addr \div PageBytes, n)

Wraps(addr, n) == addr \div PageBytes + TestedPages(n) >= VirtualPages

(* map(addr, ...) at an address of the caller's choice.                      *)
MapAt(addr, n) ==
  /\ vpanic = "none"
  /\ \/ Allowed(addr, n) /\ MapPages(addr \div PageBytes, n)
     \/ ~Allowed(addr, n) /\ UNCHANGED <<present, entry, framesUsed, vpanic>>
  /\ lastMap' = [kind |-> IF Allowed(addr, n) THEN "at" ELSE "refused",
                 at |-> addr \div PageBytes, pages |-> n,
                 result |-> IF Allowed(addr, n) THEN PastRange(addr, n) ELSE nullptr,
                 free |-> FreeNow, lost |-> lastMap.lost \/ (Allowed(addr, n) /\ Wraps(addr, n))]
  /\ UNCHANGED rangeEnd

VirtualNext ==
  \E n \in 1..MaxPages :
    MapAnywhere(n) \/ \E addr \in 0..(SpaceBytes - 2) : MapAt(addr, n)

VirtualSpec == VirtualInit /\ [][VirtualNext]_virtualVars

(***************************************************************************)
(* Properties.                                                             *)
(***************************************************************************)
(* A search that succeeds gives the lowest range of free pages in the tables *)
(* of the manager's range, so that mapping it cannot panic over a used page. *)
FindsFirstFit ==
  lastMap.kind = "found" =>
    LET fits(v) == /\ v >= (FirstPage \div TablePages) * TablePages
                   /\ v..(v + lastMap.pages - 1) \subseteq lastMap.free
    IN /\ fits(lastMap.at)
       /\ \A v \in FirstPage..(lastMap.at - 1) : ~fits(v)
       /\ vpanic # "inUse"

(* As long as every search has succeeded and no range was let through that   *)
(* wraps, what map mapped lies in the tables of the range; with the          *)
(* constructor that forgets the end no search succeeds.                     *)
MappedInRange ==
  ~lastMap.lost => \A v \in VPage : entry[v] \notin {NoFrame, OldFrame} =>
    v \in (FirstPage \div TablePages) * TablePages .. (rangeEnd - 1)

(* Whatever was mapped before, map finds the first free range of its own     *)
(* tables and maps nothing outside them.                                    *)
MapsOnlyFreeRanges == FindsFirstFit /\ MappedInRange

(* "Attempt to map at the requested location": a call for an address maps    *)
(* the pages there, or refuses when they are not all free or not all in the  *)
(* range.  The code does the reverse: isPageFree is true of mapped pages, so  *)
(* free ones are refused and used ones panic; and a range that wraps around   *)
(* the address space passes both tests and is mapped outside the range.      *)
RequestHonoured ==
  LET asked == lastMap.at .. (lastMap.at + lastMap.pages - 1)
      good == asked \subseteq lastMap.free /\ asked \subseteq FirstPage..(rangeEnd - 1)
  IN /\ lastMap.kind = "at" => good /\ vpanic # "inUse"
     /\ lastMap.kind = "refused" => ~good

(* "Automatically find the next available location": the location found is   *)
(* the one the caller is given.  The loop has moved vaddr behind the range   *)
(* when map returns it.                                                     *)
LocationReturned == lastMap.kind = "found" => lastMap.result = lastMap.at * PageBytes
=============================================================================
