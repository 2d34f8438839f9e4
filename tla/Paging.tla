------------------------------- MODULE Paging -------------------------------
(***************************************************************************)
(* Kernel/Memory/paging.cpp and Physical.hpp: the page tables, the bitmap  *)
(* of virtual pages and the bitmap of physical frames, changed by newPage  *)
(* and freePage.  Both hold pagingLock from their first to their last step *)
(* and may be preempted between any two; the lock is abstracted to its     *)
(* holder (module Mutex has the code).                                     *)
(*                                                                         *)
(* The 1024 tables of 1024 entries are one function on page indices: entry *)
(* (pde, pte) is page pde * TableEntries + pte.                            *)
(***************************************************************************)
EXTENDS Bitset

CONSTANTS
  Caller,        \* the tasks that allocate
  Pages,         \* the number of virtual pages
  Frames,        \* the number of physical frames
  TableEntries,  \* ARCH_PAGE_TABLE_ENTRIES
  PageSize,      \* ARCH_PAGE_SIZE
  Available,     \* the frames of the Available sections of the memory map
  EarlyPages,    \* pages below EARLY_KERNEL_START, mapped to themselves
  KernelStart,   \* KERNEL_START, as a page index
  KernelEnd,     \* KERNEL_END, as a page index
  KernelBase,    \* KERNEL_BASE, as a page index
  MaxCount,      \* bound: pages asked for in one request
  None

Page == 0..(Pages - 1)
Frame == 0..(Frames - 1)

ASSUME MemoryAssumption ==
  /\ TableEntries \in Nat \ {0} /\ PageSize \in Nat \ {0}
  /\ {Pages, Frames, EarlyPages, KernelBase} \subseteq Nat
  /\ Available \subseteq Frame
  /\ EarlyPages <= KernelStart /\ KernelStart \in Page /\ KernelBase <= KernelStart
  /\ KernelEnd \in KernelStart..Pages /\ KernelEnd - KernelBase <= Frames
  /\ EarlyPages <= KernelStart - KernelBase
  /\ MaxCount \in 1..(Pages - 1)
  /\ None \notin Caller \cup Frame /\ NPOS \notin Page \cup Frame

VARIABLES
  tables,                \* pageTables: the frame of a present entry, or None
  virtualMemoryBitset,   \* the pages in use
  m_memory,              \* Physical::Manager: the frames in use
  pagingLock,            \* the holder, or None
  request,               \* the locals of a newPage or freePage under way
  live,                  \* the ranges newPage returned and nobody has freed
  freed,                 \* history: the tables of the pages given to freePage
  wide,                  \* history: was a range of a word or more ever asked for?
  panicked               \* has mapKernelPage panicked?

pagingVars == <<tables, virtualMemoryBitset, m_memory, pagingLock, request, live,
          freed, wide, panicked>>
mapVars == <<tables, virtualMemoryBitset, m_memory>>

Range(base, count) == base..(base + count - 1)
Ranges == [base : Page, count : 1..MaxCount]
Requests == [op : {"new", "free"}, base : Page, count : 1..MaxCount, i : 0..Pages]

PagingTypeOK ==
  /\ tables \in [Page -> Frame \cup {None}]
  /\ virtualMemoryBitset \subseteq Page
  /\ m_memory \subseteq Frame
  /\ pagingLock \in Caller \cup {None}
  /\ \A t \in Caller : request[t] = None \/ request[t] \in Requests
  /\ live \subseteq Ranges
  /\ freed \subseteq 0..(Pages \div TableEntries)
  /\ wide \in BOOLEAN /\ panicked \in BOOLEAN

(* Memory::init: the identity map of early memory, then the kernel.         *)
BootTables ==
  [v \in Page |-> IF v < EarlyPages THEN v
                  ELSE IF v \in KernelStart..(KernelEnd - 1)
                       THEN v - KernelBase ELSE None]

Mapped(tab) == {v \in Page : tab[v] # None}

(* Physical::Manager::initialize frees what the map says is available; the  *)
(* frames that Memory::init maps are set used again.                        *)
PagingInit ==
  /\ tables = BootTables
  /\ virtualMemoryBitset = Mapped(BootTables)
  /\ m_memory = (Frame \ Available) \cup {BootTables[v] : v \in Mapped(BootTables)}
  /\ pagingLock = None
  /\ request = [t \in Caller |-> None]
  /\ live = {}
  /\ freed = {} /\ wide = FALSE /\ panicked = FALSE

(***************************************************************************)
(* Helpers.                                                                *)
(***************************************************************************)
MapKernelPage(v, p) ==
  \/ tables[v] = p /\ UNCHANGED <<mapVars, panicked>>
  \/ /\ tables[v] \notin {p, None}
     /\ panicked' = TRUE
     /\ UNCHANGED mapVars
  \/ /\ tables[v] = None
     /\ tables' = [tables EXCEPT ![v] = p]
     /\ m_memory' = Set(m_memory, p)
     /\ virtualMemoryBitset' = Set(virtualMemoryBitset, v)
     /\ UNCHANGED panicked

(* RAIIMutex lock(pagingLock).  Fault: no lock.                             *)
LockedAlways == TRUE
Locked == pagingLock = None

Runs(t) == ~panicked /\ request[t] # None
Unlock(t) ==
  /\ pagingLock' = None
  /\ request' = [request EXCEPT ![t] = None]
AdvanceRequest(t) ==
  /\ request' = [request EXCEPT ![t].i = @ + 1]
  /\ UNCHANGED pagingLock

(***************************************************************************)
(* newPage                                                                 *)
(***************************************************************************)
(* Take the lock and look for a range of free pages; without one, NULL is   *)
(* returned and nothing has changed.                                        *)
NewPage(t, count) ==
  LET free_idx == FindFirstRange(virtualMemoryBitset, Pages, count, FALSE)
  IN  /\ ~panicked /\ request[t] = None
      /\ Locked
      /\ free_idx # NPOS
      /\ pagingLock' = t
      /\ request' = [request EXCEPT ![t] = [op |-> "new", base |-> free_idx,
                                            count |-> count, i |-> free_idx]]
      /\ wide' = (wide \/ count >= WordBits)
      /\ UNCHANGED <<mapVars, live, freed, panicked>>

Done(t) == request[t].i = request[t].base + request[t].count

(* findNextFreePhysicalAddress                                              *)
NextFrame == FindFirstBit(m_memory, Frames, FALSE)

MapNext(t) ==
  /\ Runs(t) /\ request[t].op = "new" /\ ~Done(t)
  /\ NextFrame # NPOS
  /\ MapKernelPage(request[t].i, NextFrame)
  /\ AdvanceRequest(t)
  /\ UNCHANGED <<live, freed, wide>>

(* No frame is left: NULL is returned, what was mapped stays mapped.        *)
OutOfFrames(t) ==
  /\ Runs(t) /\ request[t].op = "new" /\ ~Done(t)
  /\ NextFrame = NPOS
  /\ Unlock(t)
  /\ UNCHANGED <<mapVars, live, freed, wide, panicked>>

(* A caller can use what it got unless it is NULL, the address of page 0.   *)
NewPageReturns(t) ==
  /\ Runs(t) /\ request[t].op = "new" /\ Done(t)
  /\ live' = live \cup {r \in Ranges : r.base = request[t].base /\ r.base # 0
                                      /\ r.count = request[t].count}
  /\ Unlock(t)
  /\ UNCHANGED <<mapVars, freed, wide, panicked>>

(***************************************************************************)
(* freePage                                                                *)
(***************************************************************************)
(* addr.virtualAddress().tableIndex                                         *)
TableIndex(v) == v % TableEntries

FreePage(t, range) ==
  /\ ~panicked /\ request[t] = None
  /\ Locked
  /\ range \in live
  /\ live' = live \ {range}
  /\ freed' = freed \cup {range.base \div TableEntries}
  /\ pagingLock' = t
  /\ request' = [request EXCEPT ![t] = [op |-> "free", base |-> TableIndex(range.base),
                                        count |-> range.count,
                                        i |-> TableIndex(range.base)]]
  /\ UNCHANGED <<mapVars, wide, panicked>>

(* setFree(pte->pageAddr): a frame index, taken for an address.             *)
FrameFreed(v) == (IF tables[v] = None THEN 0 ELSE tables[v]) \div PageSize

(* Fault: the page table entry stays.                                       *)
UnmapBitOnly(t) ==
  /\ Runs(t) /\ request[t].op = "free" /\ ~Done(t)
  /\ virtualMemoryBitset' = Clear(virtualMemoryBitset, request[t].i)
  /\ m_memory' = Clear(m_memory, FrameFreed(request[t].i))
  /\ AdvanceRequest(t)
  /\ UNCHANGED <<tables, live, freed, wide, panicked>>
UnmapNext(t) ==
  /\ Runs(t) /\ request[t].op = "free" /\ ~Done(t)
  /\ virtualMemoryBitset' = Clear(virtualMemoryBitset, request[t].i)
  /\ m_memory' = Clear(m_memory, FrameFreed(request[t].i))
  /\ tables' = [tables EXCEPT ![request[t].i] = None]
  /\ AdvanceRequest(t)
  /\ UNCHANGED <<live, freed, wide, panicked>>

FreePageReturns(t) ==
  /\ Runs(t) /\ request[t].op = "free" /\ Done(t)
  /\ Unlock(t)
  /\ UNCHANGED <<mapVars, live, freed, wide, panicked>>

(* panic() halts the processor.                                             *)
Halted == panicked /\ UNCHANGED pagingVars

-----------------------------------------------------------------------------
PagingNext ==
  \/ Halted
  \/ \E t \in Caller :
       \/ \E count \in 1..MaxCount : NewPage(t, count)
       \/ MapNext(t) \/ OutOfFrames(t) \/ NewPageReturns(t)
       \/ \E range \in live : FreePage(t, range)
       \/ UnmapNext(t) \/ FreePageReturns(t)

PagingSpec == PagingInit /\ [][PagingNext]_pagingVars

(***************************************************************************)
(* Properties.                                                             *)
(***************************************************************************)
(* Between two steps of newPage or freePage the bitmap and the page tables  *)
(* agree on which pages are mapped: nobody can be handed a mapped page or   *)
(* be refused an unmapped one.                                              *)
BitmapMatchesTables == PagingTypeOK /\ virtualMemoryBitset = Mapped(tables)

(* mapKernelPage finds a page of a range that newPage chose mapped already  *)
(* only once a range of a whole word of the bitmap or more has been asked    *)
(* for, whatever other tasks allocated and freed before.                    *)
PanicNeedsWideRequest == panicked => wide

(* FindFirstRange: "Finds a range of `count` clear bits and returns the      *)
(* starting position": the pages that newPage is about to map are free.     *)
FoundRangeClear ==
  \A t \in Caller :
    (request[t] # None /\ request[t].op = "new" /\ request[t].i = request[t].base) =>
      Range(request[t].base, request[t].count) \cap virtualMemoryBitset = {}

(* newPage: "Returns a new page in memory for use".  No two pages are       *)
(* backed by the same frame.                                                *)
FramesPrivate ==
  \A v, w \in Mapped(tables) : tables[v] = tables[w] => v = w

(* Every page of a live allocation is mapped and belongs to no other one.   *)
RangesApart ==
  \A r \in live :
    /\ Range(r.base, r.count) \subseteq Mapped(tables)
    /\ \A s \in live : s # r => Range(r.base, r.count) \cap Range(s.base, s.count) = {}

(* As long as nothing has been freed, newPage hands out no page and no frame *)
(* twice: a request of a whole word or more, whose search looks at too few   *)
(* bits, panics before it takes a page from another allocation.  With only   *)
(* shorter requests and only pages of the first table freed (freePage takes  *)
(* the table index for the page index), live allocations stay mapped and     *)
(* apart, and no request under way touches them.                             *)
LivePagesKept ==
  /\ freed = {} =>
       RangesApart /\ FramesPrivate /\ \A v \in Mapped(tables) : tables[v] \in m_memory
  /\ (freed \subseteq {0} /\ ~wide) =>
       /\ RangesApart
       /\ \A r \in live, t \in Caller : request[t] # None =>
            Range(r.base, r.count) \cap Range(request[t].base, request[t].count) = {}
=============================================================================
