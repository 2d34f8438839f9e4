---------------------------- MODULE PagingProofs ----------------------------
(***************************************************************************)
(* Memory.  Paging for any number of tasks, pages, frames and tables: the  *)
(* lock makes a request the only one under way; the invariants say what it  *)
(* has done so far and what it has left to do.  Then what the boot stages    *)
(* map and offer before, and the search of the virtual address manager.      *)
(***************************************************************************)
EXTENDS Paging, Boot, WellFoundedInduction, TLAPS

LEMMA Sizes ==
  /\ Pages \in Nat /\ Frames \in Nat /\ MaxCount \in Nat /\ MaxCount < Pages
  /\ EarlyPages \in Nat /\ KernelBase \in Nat /\ KernelStart \in Nat /\ KernelEnd \in Nat
  /\ None \notin Frame /\ None \notin Caller
  BY MemoryAssumption DEF Page

(* A set of natural numbers that is not empty has a least element.          *)
LEMMA LeastNumber ==
  ASSUME NEW F, F \subseteq Nat, F # {}
  PROVE  \E i \in F : \A j \in F : i <= j
<1> DEFINE R == OpToRel(<, Nat)
<1>1. IsWellFoundedOn(R, Nat)
  BY NatLessThanWellFounded
<1>2. \A i, j \in Nat : <<j, i>> \in R <=> j < i
  BY DEF OpToRel
<1> HIDE DEF R
<1>3. PICK i \in F : \A j \in F : ~(<<j, i>> \in R)
  BY <1>1, WFMin
<1>4. ASSUME NEW j \in F PROVE i <= j
  <2>1. i \in Nat /\ j \in Nat /\ ~(<<j, i>> \in R)
    BY <1>3
  <2>2. ~(j < i)
    BY <1>2, <2>1
  <2> QED
    BY <2>1, <2>2, SMT
<1> QED
  BY <1>4

(* What the searches of Bitset.hpp find is one of the positions they look    *)
(* for, or npos when there is none.                                         *)
LEMMA FirstFound ==
  ASSUME NEW F, F \subseteq Nat, First(F) # NPOS
  PROVE  First(F) \in F
<1>1. F # {} /\ First(F) = CHOOSE i \in F : \A j \in F : i <= j
  BY DEF First
<1>2. \E i \in F : \A j \in F : i <= j
  BY <1>1, LeastNumber
<1> QED
  BY <1>1, <1>2, Zenon

(* findNextFreePhysicalAddress returns a frame that is not in use.          *)
LEMMA NextFrameFree ==
  ASSUME NextFrame # NPOS
  PROVE  NextFrame \in Frame /\ NextFrame \notin m_memory
<1> DEFINE F == {i \in 0..(Frames - 1) : Test(m_memory, i) = FALSE}
<1>1. NextFrame = First(F)
  BY DEF NextFrame, FindFirstBit
<1>2. F \subseteq Nat
  BY MemoryAssumption
<1>3. NextFrame \in F
  BY <1>1, <1>2, FirstFound
<1> QED
  BY <1>3 DEF Test, Frame

(* FindFirstRange stays inside the bitmap whatever it is asked for ...      *)
LEMMA RangeInside ==
  ASSUME NEW bits, NEW count \in 1..MaxCount,
         FindFirstRange(bits, Pages, count, FALSE) # NPOS
  PROVE  /\ FindFirstRange(bits, Pages, count, FALSE) \in 0..(Pages - count - 1)
         /\ Masked(bits, FindFirstRange(bits, Pages, count, FALSE), count) = {}
<1> DEFINE F == {i \in 0..(Pages - count - 1) : WindowMatches(bits, i, count, FALSE)}
<1>1. FindFirstRange(bits, Pages, count, FALSE) = First(F)
  BY DEF FindFirstRange
<1>2. F \subseteq Nat
  <2>1. 0..(Pages - count - 1) \subseteq Nat
    BY Sizes
  <2> QED
    BY <2>1
<1>3. FindFirstRange(bits, Pages, count, FALSE) \in F
  BY <1>1, <1>2, FirstFound
<1> QED
  BY <1>3 DEF WindowMatches

(* ... and for fewer bits than a word has, it finds free ones only: then the *)
(* mask covers the whole window.                                            *)
LEMMA WindowCovers ==
  ASSUME NEW bits, NEW count \in 1..MaxCount, count < WordBits, NEW base \in Nat,
         Masked(bits, base, count) = {}
  PROVE  \A v \in base..(base + count - 1) : v \notin bits
<1>1. count % WordBits = count
  <2>1. count \in Nat /\ count < WordBits
    BY Sizes, WordAssumption
  <2> QED
    BY <2>1, WordAssumption, SMT
<1>2. ASSUME NEW v \in base..(base + count - 1) PROVE v \notin bits
  <2>1. count \in Nat
    BY Sizes
  <2>2. v - base \in 0..(count - 1) /\ base + (v - base) = v
    BY <2>1
  <2> QED
    BY <1>1, <2>2 DEF Masked, MaskBits, Test
<1> QED
  BY <1>2

(* tableIndex of a page is at most the page, and is the page in table 0.    *)
LEMMA TableIndexBound ==
  ASSUME NEW v \in Nat
  PROVE  /\ TableIndex(v) \in 0..v
         /\ v \div TableEntries = 0 => TableIndex(v) = v
         /\ v \div TableEntries \in Nat
  BY MemoryAssumption, SMT DEF TableIndex

LEMMA TableNumberBound ==
  ASSUME NEW v \in Nat, NEW w \in Nat, v <= w
  PROVE  v \div TableEntries <= w \div TableEntries
  BY MemoryAssumption, SMT

(***************************************************************************)
(* The bitmap and the tables.                                              *)
(***************************************************************************)
(* A request under way holds the lock and is within its range.              *)
RequestOK(t) ==
  LET q == request[t]
  IN  /\ q \in Requests /\ pagingLock = t
      /\ q.base + q.count <= Pages
      /\ q.base <= q.i /\ q.i <= q.base + q.count

MapsOK ==
  /\ tables \in [Page -> Frame \cup {None}]
  /\ virtualMemoryBitset = Mapped(tables)
  /\ m_memory \subseteq Frame

RequestsOK ==
  /\ pagingLock \in Caller \cup {None}
  /\ request \in [Caller -> Requests \cup {None}]
  /\ \A t \in Caller : request[t] # None => RequestOK(t)

HistoryOK ==
  /\ live \subseteq Ranges
  /\ \A r \in live : r.base + r.count <= Pages
  /\ freed \subseteq 0..(Pages \div TableEntries)
  /\ wide \in BOOLEAN /\ panicked \in BOOLEAN

BaseInv == MapsOK /\ RequestsOK /\ HistoryOK

LEMMA BaseInit ==
  ASSUME PagingInit
  PROVE  BaseInv
<1> USE MemoryAssumption, Sizes
<1>1. BootTables \in [Page -> Frame \cup {None}]
  BY DEF BootTables, Page, Frame
<1>2. m_memory \subseteq Frame
  BY <1>1 DEF PagingInit, Mapped
<1>3. MapsOK
  BY <1>1, <1>2 DEF PagingInit, MapsOK
<1>4. RequestsOK
  BY DEF PagingInit, RequestsOK
<1>5. HistoryOK
  BY DEF PagingInit, HistoryOK
<1> QED
  BY <1>3, <1>4, <1>5 DEF BaseInv

(* Only the holder of the lock has a request.                               *)
LEMMA OneRequest ==
  ASSUME RequestsOK, NEW t \in Caller, request[t] # None \/ pagingLock = None
  PROVE  \A u \in Caller \ {t} : request[u] = None
  BY Sizes DEF RequestsOK, RequestOK

(* newPage and freePage enter with a range inside the address space.        *)
LEMMA EnterKeepsRequests ==
  ASSUME RequestsOK, NEW t \in Caller, NEW q \in Requests,
         pagingLock = None, pagingLock' = t, request' = [request EXCEPT ![t] = q],
         q.base + q.count <= Pages, q.i = q.base
  PROVE  RequestsOK'
<1>1. \A u \in Caller : request[u] = None
  BY Sizes DEF RequestsOK, RequestOK
<1>2. request'[t] = q /\ \A u \in Caller \ {t} : request'[u] = None
  BY <1>1 DEF RequestsOK
<1>3. q.base \in Int /\ q.count \in Int /\ q.count >= 1
  BY Sizes DEF Requests, Page
<1>4. RequestOK(t)'
  BY <1>2, <1>3 DEF RequestOK
<1> QED
  BY <1>2, <1>4 DEF RequestsOK

(* Leaving releases the lock and forgets the request.                       *)
LEMMA UnlockKeepsRequests ==
  ASSUME RequestsOK, NEW t \in Caller, request[t] # None, Unlock(t)
  PROVE  RequestsOK' /\ \A u \in Caller : request'[u] = None
<1>1. \A u \in Caller \ {t} : request[u] = None
  BY OneRequest
<1>2. \A u \in Caller : request'[u] = None
  BY <1>1 DEF Unlock, RequestsOK
<1> QED
  BY <1>2 DEF Unlock, RequestsOK

(* A step inside the range moves on to the next page.                       *)
LEMMA AdvanceKeepsRequests ==
  ASSUME RequestsOK, NEW t \in Caller, request[t] # None, ~Done(t), AdvanceRequest(t)
  PROVE  /\ RequestsOK'
         /\ request[t] \in Requests /\ request[t].i \in Page
         /\ request'[t] = [request[t] EXCEPT !.i = request[t].i + 1]
         /\ \A u \in Caller \ {t} : request'[u] = None /\ request[u] = None
<1> DEFINE q == request[t]
           p == [q EXCEPT !.i = q.i + 1]
<1>1. /\ q \in Requests /\ pagingLock = t /\ q.base + q.count <= Pages
      /\ q.base <= q.i /\ q.i <= q.base + q.count
  BY DEF RequestsOK, RequestOK
<1>2. /\ q.base \in Page /\ q.count \in 1..MaxCount /\ q.i \in 0..Pages
      /\ q.i # q.base + q.count
  BY <1>1 DEF Requests, Done
<1>3. q.i + 1 \in 0..Pages /\ q.i \in Page /\ q.base <= q.i + 1 /\ q.i + 1 <= q.base + q.count
  BY <1>1, <1>2, Sizes DEF Page
<1>4. p \in Requests /\ p.base = q.base /\ p.count = q.count /\ p.i = q.i + 1
  BY <1>1, <1>3 DEF Requests
<1>5. request' = [request EXCEPT ![t] = p] /\ pagingLock' = pagingLock
  BY DEF AdvanceRequest, RequestsOK
<1>6. \A u \in Caller \ {t} : request[u] = None
  BY OneRequest
<1> HIDE DEF p
<1>7. /\ request'[t] = p /\ \A u \in Caller \ {t} : request'[u] = None
      /\ request' \in [Caller -> Requests \cup {None}]
  BY <1>4, <1>5, <1>6 DEF RequestsOK
<1>8. RequestOK(t)'
  BY <1>1, <1>3, <1>4, <1>5, <1>7 DEF RequestOK
<1>9. RequestsOK'
  BY <1>5, <1>7, <1>8 DEF RequestsOK
<1> QED
  BY <1>1, <1>3, <1>6, <1>7, <1>9 DEF p

(* mapKernelPage and the loop of freePage change the bit and the entry of    *)
(* the same page.                                                           *)
LEMMA MapKernelPageKeepsMaps ==
  ASSUME MapsOK, NEW v \in Page, NEW p \in Frame, MapKernelPage(v, p)
  PROVE  MapsOK'
<1>1. CASE UNCHANGED mapVars
  BY <1>1 DEF mapVars, MapsOK, Mapped
<1>2. CASE /\ tables' = [tables EXCEPT ![v] = p]
           /\ m_memory' = Set(m_memory, p)
           /\ virtualMemoryBitset' = Set(virtualMemoryBitset, v)
  BY <1>2, Sizes DEF MapsOK, Mapped, Set
<1> QED
  BY <1>1, <1>2 DEF MapKernelPage

LEMMA UnmapKeepsMaps ==
  ASSUME MapsOK, NEW v \in Page, NEW f,
         virtualMemoryBitset' = Clear(virtualMemoryBitset, v),
         m_memory' = Clear(m_memory, f),
         tables' = [tables EXCEPT ![v] = None]
  PROVE  MapsOK'
  BY DEF MapsOK, Mapped, Clear

LEMMA NewPageKeepsBase ==
  ASSUME BaseInv, NEW t \in Caller, NEW count \in 1..MaxCount, NewPage(t, count)
  PROVE  BaseInv'
<1> DEFINE base == FindFirstRange(virtualMemoryBitset, Pages, count, FALSE)
           q == [op |-> "new", base |-> base, count |-> count, i |-> base]
<1>1. /\ base # NPOS /\ pagingLock = None /\ pagingLock' = t
      /\ request' = [request EXCEPT ![t] = q]
      /\ wide' = (wide \/ count >= WordBits)
      /\ UNCHANGED <<tables, virtualMemoryBitset, m_memory, live, freed, panicked>>
  BY DEF NewPage, Locked, mapVars
<1>2. base \in 0..(Pages - count - 1)
  BY <1>1, RangeInside
<1> HIDE DEF base
<1>3. base \in Page /\ base \in 0..Pages /\ base + count <= Pages
  BY <1>2, Sizes DEF Page
<1>4. q \in Requests /\ q.base + q.count <= Pages /\ q.i = q.base
  BY <1>3 DEF Requests
<1>5. RequestsOK'
  BY <1>1, <1>4, EnterKeepsRequests DEF BaseInv
<1>6. wide' \in BOOLEAN
  BY <1>1 DEF BaseInv, HistoryOK
<1> QED
  BY <1>1, <1>5, <1>6 DEF BaseInv, MapsOK, Mapped, HistoryOK

LEMMA MapNextKeepsBase ==
  ASSUME BaseInv, NEW t \in Caller, MapNext(t)
  PROVE  BaseInv'
<1>1. /\ request[t] # None /\ ~Done(t) /\ AdvanceRequest(t) /\ NextFrame # NPOS
      /\ MapKernelPage(request[t].i, NextFrame) /\ UNCHANGED <<live, freed, wide>>
  BY DEF MapNext, Runs
<1>2. RequestsOK' /\ request[t].i \in Page
  BY <1>1, AdvanceKeepsRequests DEF BaseInv
<1>3. MapsOK'
  BY <1>1, <1>2, NextFrameFree, MapKernelPageKeepsMaps DEF BaseInv
<1>4. panicked' \in BOOLEAN
  BY <1>1 DEF MapKernelPage, BaseInv, HistoryOK
<1>5. HistoryOK'
  BY <1>1, <1>4 DEF BaseInv, HistoryOK
<1> QED
  BY <1>2, <1>3, <1>5 DEF BaseInv

LEMMA NewPageReturnsKeepsBase ==
  ASSUME BaseInv, NEW t \in Caller, NewPageReturns(t)
  PROVE  BaseInv'
<1>1. /\ request[t] # None /\ Unlock(t)
      /\ live' = live \cup {r \in Ranges : r.base = request[t].base /\ r.base # 0
                                          /\ r.count = request[t].count}
      /\ UNCHANGED <<tables, virtualMemoryBitset, m_memory, freed, wide, panicked>>
  BY DEF NewPageReturns, Runs, mapVars
<1>2. RequestsOK'
  BY <1>1, UnlockKeepsRequests DEF BaseInv
<1>3. request[t].base + request[t].count <= Pages
  BY <1>1 DEF BaseInv, RequestsOK, RequestOK
<1>4. HistoryOK'
  BY <1>1, <1>3 DEF BaseInv, HistoryOK
<1> QED
  BY <1>1, <1>2, <1>4 DEF BaseInv, MapsOK, Mapped

LEMMA FreePageKeepsBase ==
  ASSUME BaseInv, NEW t \in Caller, NEW range \in live, FreePage(t, range)
  PROVE  BaseInv'
<1> DEFINE idx == TableIndex(range.base)
           q == [op |-> "free", base |-> idx, count |-> range.count, i |-> idx]
<1>1. /\ pagingLock = None /\ pagingLock' = t
      /\ request' = [request EXCEPT ![t] = q]
      /\ live' = live \ {range} /\ freed' = freed \cup {range.base \div TableEntries}
      /\ UNCHANGED <<tables, virtualMemoryBitset, m_memory, wide, panicked>>
  BY DEF FreePage, Locked, mapVars
<1>2. range \in Ranges /\ range.base + range.count <= Pages
  BY DEF BaseInv, HistoryOK
<1>3. range.base \in Page /\ range.count \in 1..MaxCount /\ range.base \in Nat
  BY <1>2, Sizes DEF Ranges, Page
<1>4. idx \in 0..range.base
  BY <1>3, TableIndexBound
<1>5. range.base \div TableEntries \in 0..(Pages \div TableEntries)
  <2>1. range.base \div TableEntries \in Nat /\ Pages \div TableEntries \in Nat
    BY <1>3, Sizes, TableIndexBound
  <2>2. range.base \div TableEntries <= Pages \div TableEntries
    BY <1>3, Sizes, TableNumberBound DEF Page
  <2> QED
    BY <2>1, <2>2
<1> HIDE DEF idx
<1>6. idx \in Page /\ idx \in 0..Pages /\ idx + range.count <= Pages
  BY <1>2, <1>3, <1>4, Sizes DEF Page
<1>7. q \in Requests /\ q.base + q.count <= Pages /\ q.i = q.base
  BY <1>3, <1>6 DEF Requests
<1>8. RequestsOK'
  BY <1>1, <1>7, EnterKeepsRequests DEF BaseInv
<1>9. HistoryOK'
  BY <1>1, <1>5 DEF BaseInv, HistoryOK
<1> QED
  BY <1>1, <1>8, <1>9 DEF BaseInv, MapsOK, Mapped

LEMMA UnmapNextKeepsBase ==
  ASSUME BaseInv, NEW t \in Caller, UnmapNext(t)
  PROVE  BaseInv'
<1>1. /\ request[t] # None /\ ~Done(t) /\ AdvanceRequest(t)
      /\ virtualMemoryBitset' = Clear(virtualMemoryBitset, request[t].i)
      /\ m_memory' = Clear(m_memory, FrameFreed(request[t].i))
      /\ tables' = [tables EXCEPT ![request[t].i] = None]
      /\ UNCHANGED <<live, freed, wide, panicked>>
  BY DEF UnmapNext, Runs
<1>2. RequestsOK' /\ request[t].i \in Page
  BY <1>1, AdvanceKeepsRequests DEF BaseInv
<1>3. MapsOK'
  BY <1>1, <1>2, UnmapKeepsMaps DEF BaseInv
<1> QED
  BY <1>1, <1>2, <1>3 DEF BaseInv, HistoryOK

LEMMA GivesUpKeepsBase ==
  ASSUME BaseInv, NEW t \in Caller, OutOfFrames(t) \/ FreePageReturns(t)
  PROVE  BaseInv'
<1>1. /\ request[t] # None /\ Unlock(t)
      /\ UNCHANGED <<tables, virtualMemoryBitset, m_memory, live, freed, wide, panicked>>
  BY DEF OutOfFrames, FreePageReturns, Runs, mapVars
<1>2. RequestsOK'
  BY <1>1, UnlockKeepsRequests DEF BaseInv
<1> QED
  BY <1>1, <1>2 DEF BaseInv, MapsOK, Mapped, HistoryOK

LEMMA BaseStep ==
  ASSUME BaseInv, [PagingNext]_pagingVars
  PROVE  BaseInv'
<1>1. CASE UNCHANGED pagingVars
  BY <1>1 DEF pagingVars, BaseInv, MapsOK, Mapped, RequestsOK, RequestOK, HistoryOK
<1>2. CASE PagingNext
  BY <1>1, <1>2, NewPageKeepsBase, MapNextKeepsBase, NewPageReturnsKeepsBase, FreePageKeepsBase,
     UnmapNextKeepsBase, GivesUpKeepsBase DEF PagingNext, Halted
<1> QED
  BY <1>1, <1>2

(* Whatever is asked for, and wherever a request is interrupted: the bitmap  *)
(* of virtual pages says what the page tables say.                          *)
THEOREM BitmapIsTables == PagingSpec => []BitmapMatchesTables
<1>1. PagingInit => BaseInv
  BY BaseInit
<1>2. BaseInv /\ [PagingNext]_pagingVars => BaseInv'
  BY BaseStep
<1>3. BaseInv => BitmapMatchesTables
  BY DEF BaseInv, MapsOK, RequestsOK, HistoryOK, BitmapMatchesTables, PagingTypeOK, Mapped
<1> QED
  BY <1>1, <1>2, <1>3, PTL DEF PagingSpec

(***************************************************************************)
(* What newPage handed out.                                                *)
(***************************************************************************)
(* newPage has mapped the pages behind it and finds the ones before it free; *)
(* freePage runs only after something was freed.                            *)
Progress ==
  \A t \in Caller : request[t] # None =>
    LET q == request[t]
    IN  /\ q.op = "new" => \A v \in Range(q.base, q.count) : tables[v] = None <=> q.i <= v
        /\ q.op = "free" => freed # {}

LiveKept ==
  freed \subseteq {0} => \A r \in live :
    /\ Range(r.base, r.count) \subseteq Mapped(tables)
    /\ \A s \in live : s # r => Range(r.base, r.count) \cap Range(s.base, s.count) = {}
    /\ \A t \in Caller : request[t] # None =>
         Range(r.base, r.count) \cap Range(request[t].base, request[t].count) = {}

(* As long as every request is shorter than a word of the bitmap ...        *)
Narrow == BaseInv /\ ~panicked /\ Progress /\ LiveKept

(* ... and, for requests of any size, as long as nothing has been freed: the *)
(* pages that a request has mapped so far are in nobody's range.            *)
TakenAlone ==
  \A t \in Caller : request[t] # None =>
    /\ request[t].op = "new"
    /\ ~panicked => \A v \in Range(request[t].base, request[t].i - request[t].base) :
         v \in Mapped(tables) /\ \A r \in live : v \notin Range(r.base, r.count)

FramesKept == FramesPrivate /\ \A v \in Mapped(tables) : tables[v] \in m_memory

Unfreed == BaseInv /\ TakenAlone /\ RangesApart /\ FramesKept

FullInv == BaseInv /\ (~wide => Narrow) /\ (freed = {} => Unfreed)

(* The boot mappings: the early pages and the kernel share no frame.        *)
LEMMA FullInit ==
  ASSUME PagingInit
  PROVE  FullInv
<1>1. BaseInv
  BY BaseInit
<1>2. Narrow /\ TakenAlone /\ RangesApart
  BY <1>1 DEF PagingInit, Narrow, Progress, LiveKept, TakenAlone, RangesApart
<1>3. ASSUME NEW v \in Mapped(BootTables), NEW w \in Mapped(BootTables),
             BootTables[v] = BootTables[w]
      PROVE  v = w
  <2>1. /\ v \in Page /\ v \in Int /\ BootTables[v] # None
        /\ w \in Page /\ w \in Int /\ BootTables[w] # None
    BY Sizes DEF Mapped, Page
  <2>2. /\ EarlyPages \in Int /\ KernelStart \in Int /\ KernelBase \in Int
        /\ EarlyPages <= KernelStart /\ EarlyPages <= KernelStart - KernelBase
    BY Sizes, MemoryAssumption DEF Page
  <2>3. ASSUME NEW x \in Page, BootTables[x] # None
        PROVE  \/ x < EarlyPages /\ BootTables[x] = x
               \/ x >= KernelStart /\ BootTables[x] = x - KernelBase
    BY <2>3 DEF BootTables
  <2>4. \/ v < EarlyPages /\ BootTables[v] = v
        \/ v >= KernelStart /\ BootTables[v] = v - KernelBase
    BY <2>1, <2>3
  <2>5. \/ w < EarlyPages /\ BootTables[w] = w
        \/ w >= KernelStart /\ BootTables[w] = w - KernelBase
    BY <2>1, <2>3
  <2> QED
    BY <1>3, <2>1, <2>2, <2>4, <2>5
<1>4. FramesKept
  BY <1>3 DEF PagingInit, FramesKept, FramesPrivate
<1> QED
  BY <1>1, <1>2, <1>4 DEF FullInv, Unfreed

LEMMA NewPageKeepsNarrow ==
  ASSUME Narrow, NEW t \in Caller, NEW count \in 1..MaxCount,
         count < WordBits, NewPage(t, count)
  PROVE  ~panicked' /\ Progress' /\ LiveKept'
<1> DEFINE base == FindFirstRange(virtualMemoryBitset, Pages, count, FALSE)
           q == [op |-> "new", base |-> base, count |-> count, i |-> base]
<1>1. /\ base # NPOS /\ pagingLock = None
      /\ request' = [request EXCEPT ![t] = q]
      /\ UNCHANGED <<tables, virtualMemoryBitset, m_memory, live, freed, panicked>>
  BY DEF NewPage, Locked, mapVars
<1>2. /\ base \in 0..(Pages - count - 1)
      /\ Masked(virtualMemoryBitset, base, count) = {}
  BY <1>1, RangeInside
<1>3. request[t] = None /\ \A u \in Caller \ {t} : request[u] = None
  BY <1>1, OneRequest DEF NewPage, Narrow, BaseInv
<1> HIDE DEF base
<1>4. base \in Nat /\ count \in Nat /\ base + count <= Pages
  BY <1>2, Sizes
<1>5. \A v \in Range(base, count) : v \notin virtualMemoryBitset /\ v \in Page /\ base <= v
  BY <1>2, <1>4, WindowCovers, Sizes DEF Range, Page
<1>6. \A v \in Range(base, count) : tables[v] = None
  BY <1>5 DEF Narrow, BaseInv, MapsOK, Mapped
<1>7. request'[t] = q /\ \A u \in Caller \ {t} : request'[u] = None
  BY <1>1, <1>3 DEF Narrow, BaseInv, RequestsOK
<1>8. Progress'
  BY <1>1, <1>5, <1>6, <1>7 DEF Progress
<1>9. LiveKept'
  <2> SUFFICES ASSUME freed \subseteq {0}, NEW r \in live, NEW u \in Caller, request'[u] # None
               PROVE  Range(r.base, r.count)
                        \cap Range(request'[u].base, request'[u].count) = {}
    BY <1>1 DEF Narrow, LiveKept, Mapped
  <2>1. request'[u] = q /\ Range(r.base, r.count) \subseteq Mapped(tables)
    BY <1>7 DEF Narrow, LiveKept
  <2> QED
    BY <1>6, <2>1 DEF Mapped
<1> QED
  BY <1>1, <1>8, <1>9 DEF Narrow

LEMMA MapNextKeepsNarrow ==
  ASSUME Narrow, NEW t \in Caller, MapNext(t)
  PROVE  ~panicked' /\ Progress' /\ LiveKept'
<1> DEFINE q == request[t]
           p == NextFrame
<1>1. /\ q # None /\ q.op = "new" /\ ~Done(t) /\ AdvanceRequest(t) /\ p # NPOS
      /\ MapKernelPage(q.i, p) /\ UNCHANGED <<live, freed>>
  BY DEF MapNext, Runs
<1>2. p \in Frame /\ p \notin m_memory /\ p # None
  BY <1>1, NextFrameFree, Sizes
<1>3. /\ q \in Requests /\ q.i \in Page
      /\ request'[t] = [q EXCEPT !.i = q.i + 1]
      /\ \A u \in Caller \ {t} : request'[u] = None /\ request[u] = None
  BY <1>1, AdvanceKeepsRequests DEF Narrow, BaseInv
<1>4. /\ q.base \in Nat /\ q.count \in Nat /\ q.i \in Nat /\ q.base <= q.i
      /\ q.i <= q.base + q.count - 1
  BY <1>1, <1>3, Sizes DEF Narrow, BaseInv, RequestsOK, RequestOK, Requests, Done, Page
<1>5. q.i \in Range(q.base, q.count) /\ tables[q.i] = None
  BY <1>1, <1>4 DEF Narrow, Progress, Range
<1>6. /\ tables' = [tables EXCEPT ![q.i] = p]
      /\ m_memory' = m_memory \cup {p} /\ panicked' = panicked
  BY <1>1, <1>2, <1>5 DEF MapKernelPage, Set
<1>7. /\ tables \in [Page -> Frame \cup {None}] /\ tables'[q.i] = p
      /\ \A v \in Page \ {q.i} : tables'[v] = tables[v]
      /\ Mapped(tables)' = Mapped(tables) \cup {q.i}
  BY <1>2, <1>3, <1>6 DEF Narrow, BaseInv, MapsOK, Mapped
<1>8. /\ request'[t].op = q.op /\ request'[t].base = q.base
      /\ request'[t].count = q.count /\ request'[t].i = q.i + 1
  BY <1>3 DEF Requests
<1>9. Progress'
  <2>1. ASSUME NEW v \in Range(q.base, q.count)
        PROVE  tables'[v] = None <=> q.i + 1 <= v
    <3>1. v \in Page /\ v \in Int
      BY <1>1, <1>4, Sizes DEF Narrow, BaseInv, RequestsOK, RequestOK, Range, Page
    <3>2. tables[v] = None <=> q.i <= v
      BY <1>1 DEF Narrow, Progress
    <3> QED
      BY <1>2, <1>4, <1>7, <3>1, <3>2
  <2> DEFINE q1 == request'[t]
  <2>2. q1.op = "new" /\ q1.base = q.base /\ q1.count = q.count /\ q1.i = q.i + 1
    BY <1>1, <1>8
  <2> HIDE DEF q1
  <2>3. \A v \in Range(q1.base, q1.count) : tables'[v] = None <=> q1.i <= v
    BY <2>1, <2>2
  <2> SUFFICES ASSUME NEW u \in Caller, request'[u] # None
               PROVE  /\ request'[u].op = "new" =>
                           \A v \in Range(request'[u].base, request'[u].count) :
                             tables'[v] = None <=> request'[u].i <= v
                      /\ request'[u].op = "free" => freed' # {}
    BY DEF Progress, Range
  <2>4. u = t
    BY <1>3
  <2> QED
    BY <2>2, <2>3, <2>4 DEF q1
<1>10. LiveKept'
  <2> SUFFICES ASSUME freed \subseteq {0}, NEW r \in live
               PROVE  /\ Range(r.base, r.count) \subseteq Mapped(tables)'
                      /\ \A s \in live : s # r => Range(r.base, r.count) \cap Range(s.base, s.count) = {}
                      /\ \A u \in Caller : request'[u] # None =>
                           Range(r.base, r.count) \cap Range(request'[u].base, request'[u].count) = {}
    BY <1>1 DEF LiveKept
  <2>1. /\ Range(r.base, r.count) \subseteq Mapped(tables)
        /\ Range(r.base, r.count) \cap Range(q.base, q.count) = {}
        /\ \A s \in live : s # r => Range(r.base, r.count) \cap Range(s.base, s.count) = {}
    BY <1>1 DEF Narrow, LiveKept
  <2> QED
    BY <1>3, <1>7, <1>8, <2>1
<1> QED
  BY <1>6, <1>9, <1>10 DEF Narrow

LEMMA NewPageReturnsKeepsNarrow ==
  ASSUME Narrow, NEW t \in Caller, NewPageReturns(t)
  PROVE  ~panicked' /\ Progress' /\ LiveKept'
<1> DEFINE q == request[t]
<1>1. /\ q # None /\ q.op = "new" /\ Done(t) /\ Unlock(t)
      /\ live' = live \cup {r \in Ranges : r.base = q.base /\ r.base # 0 /\ r.count = q.count}
      /\ UNCHANGED <<tables, virtualMemoryBitset, m_memory, freed, panicked>>
  BY DEF NewPageReturns, Runs, mapVars
<1>2. \A u \in Caller : request'[u] = None
  BY <1>1, UnlockKeepsRequests DEF Narrow, BaseInv
<1>3. /\ q.base \in Nat /\ q.count \in Nat /\ q.base + q.count <= Pages
      /\ q.i = q.base + q.count
  BY <1>1, Sizes DEF Narrow, BaseInv, RequestsOK, RequestOK, Requests, Done, Page
<1>4. Range(q.base, q.count) \subseteq Mapped(tables)
  <2>1. ASSUME NEW v \in Range(q.base, q.count) PROVE v \in Page /\ tables[v] # None
    BY <1>1, <1>3, Sizes DEF Range, Page, Narrow, Progress
  <2> QED
    BY <2>1 DEF Mapped
<1>5. LiveKept'
  <2> SUFFICES ASSUME freed \subseteq {0}, NEW r \in live'
               PROVE  /\ Range(r.base, r.count) \subseteq Mapped(tables)
                      /\ \A s \in live' : s # r => Range(r.base, r.count) \cap Range(s.base, s.count) = {}
    BY <1>1, <1>2 DEF LiveKept, Mapped
  <2>1. ASSUME NEW s \in live', s \notin live
        PROVE  s \in Ranges /\ s.base = q.base /\ s.count = q.count
    BY <1>1, <2>1
  <2>2. CASE r \in live
    <3>1. Range(r.base, r.count) \cap Range(q.base, q.count) = {}
      BY <1>1, <2>2 DEF Narrow, LiveKept
    <3>2. /\ Range(r.base, r.count) \subseteq Mapped(tables)
          /\ \A s \in live : s # r => Range(r.base, r.count) \cap Range(s.base, s.count) = {}
      BY <2>2 DEF Narrow, LiveKept
    <3> QED
      BY <2>1, <3>1, <3>2
  <2>3. CASE r \notin live
    <3>1. r \in Ranges /\ r.base = q.base /\ r.count = q.count
      BY <2>1, <2>3
    <3>2. ASSUME NEW s \in live', s # r
          PROVE  Range(r.base, r.count) \cap Range(s.base, s.count) = {}
      <4>1. CASE s \in live
        BY <1>1, <3>1, <4>1 DEF Narrow, LiveKept
      <4>2. CASE s \notin live
        BY <2>1, <3>1, <3>2, <4>2 DEF Ranges
      <4> QED
        BY <4>1, <4>2
    <3> QED
      BY <1>4, <3>1, <3>2
  <2> QED
    BY <2>2, <2>3
<1>6. Progress' /\ ~panicked'
  BY <1>1, <1>2 DEF Progress, Narrow
<1> QED
  BY <1>5, <1>6

LEMMA FreePageKeepsNarrow ==
  ASSUME Narrow, NEW t \in Caller, NEW range \in live, FreePage(t, range)
  PROVE  ~panicked' /\ Progress' /\ LiveKept'
<1> DEFINE idx == TableIndex(range.base)
           q == [op |-> "free", base |-> idx, count |-> range.count, i |-> idx]
<1>1. /\ pagingLock = None /\ request' = [request EXCEPT ![t] = q]
      /\ live' = live \ {range} /\ freed' = freed \cup {range.base \div TableEntries}
      /\ UNCHANGED <<tables, virtualMemoryBitset, m_memory, panicked>>
  BY DEF FreePage, Locked, mapVars
<1>2. request'[t] = q /\ \A u \in Caller \ {t} : request'[u] = None
  BY <1>1, OneRequest DEF Narrow, BaseInv, RequestsOK
<1>3. range \in Ranges /\ range.base \in Nat
  BY Sizes DEF Narrow, BaseInv, HistoryOK, Ranges, Page
<1>4. freed' \subseteq {0} => idx = range.base
  BY <1>1, <1>3, TableIndexBound
<1> HIDE DEF idx
<1>5. Progress'
  BY <1>1, <1>2 DEF Progress
<1>6. LiveKept'
  <2> SUFFICES ASSUME freed' \subseteq {0}, NEW r \in live'
               PROVE  /\ Range(r.base, r.count) \subseteq Mapped(tables)
                      /\ \A s \in live' : s # r => Range(r.base, r.count) \cap Range(s.base, s.count) = {}
                      /\ \A u \in Caller : request'[u] # None =>
                           Range(r.base, r.count) \cap Range(request'[u].base, request'[u].count) = {}
    BY <1>1 DEF LiveKept, Mapped
  <2>1. freed \subseteq {0} /\ r \in live /\ r # range /\ idx = range.base
    BY <1>1, <1>4
  <2>2. /\ Range(r.base, r.count) \subseteq Mapped(tables)
        /\ \A s \in live : s # r => Range(r.base, r.count) \cap Range(s.base, s.count) = {}
    BY <2>1 DEF Narrow, LiveKept
  <2>3. Range(r.base, r.count) \cap Range(range.base, range.count) = {}
    BY <2>1, <2>2
  <2> QED
    BY <1>1, <1>2, <2>1, <2>2, <2>3
<1> QED
  BY <1>1, <1>5, <1>6 DEF Narrow

LEMMA UnmapNextKeepsNarrow ==
  ASSUME Narrow, NEW t \in Caller, UnmapNext(t)
  PROVE  ~panicked' /\ Progress' /\ LiveKept'
<1> DEFINE q == request[t]
<1>1. /\ q # None /\ q.op = "free" /\ ~Done(t) /\ AdvanceRequest(t)
      /\ tables' = [tables EXCEPT ![q.i] = None]
      /\ UNCHANGED <<live, freed, panicked>>
  BY DEF UnmapNext, Runs
<1>2. /\ q \in Requests /\ q.i \in Page
      /\ request'[t] = [q EXCEPT !.i = q.i + 1]
      /\ \A u \in Caller \ {t} : request'[u] = None /\ request[u] = None
  BY <1>1, AdvanceKeepsRequests DEF Narrow, BaseInv
<1>3. /\ q.base \in Nat /\ q.count \in Nat /\ q.i \in Nat /\ q.base <= q.i
      /\ q.i <= q.base + q.count - 1
  BY <1>1, <1>2, Sizes DEF Narrow, BaseInv, RequestsOK, RequestOK, Requests, Done, Page
<1>4. q.i \in Range(q.base, q.count) /\ freed # {}
  BY <1>1, <1>3 DEF Narrow, Progress, Range
<1>5. /\ request'[t].op = q.op /\ request'[t].base = q.base /\ request'[t].count = q.count
  BY <1>2 DEF Requests
<1>6. Mapped(tables)' = Mapped(tables) \ {q.i}
  BY <1>1, <1>2 DEF Narrow, BaseInv, MapsOK, Mapped
<1>7. Progress'
  BY <1>1, <1>2, <1>4, <1>5 DEF Progress
<1>8. LiveKept'
  <2> SUFFICES ASSUME freed \subseteq {0}, NEW r \in live
               PROVE  /\ Range(r.base, r.count) \subseteq Mapped(tables)'
                      /\ \A s \in live : s # r => Range(r.base, r.count) \cap Range(s.base, s.count) = {}
                      /\ \A u \in Caller : request'[u] # None =>
                           Range(r.base, r.count) \cap Range(request'[u].base, request'[u].count) = {}
    BY <1>1 DEF LiveKept
  <2>1. /\ Range(r.base, r.count) \subseteq Mapped(tables)
        /\ Range(r.base, r.count) \cap Range(q.base, q.count) = {}
        /\ \A s \in live : s # r => Range(r.base, r.count) \cap Range(s.base, s.count) = {}
    BY <1>1 DEF Narrow, LiveKept
  <2> QED
    BY <1>2, <1>4, <1>5, <1>6, <2>1
<1> QED
  BY <1>1, <1>7, <1>8 DEF Narrow

LEMMA GivesUpKeepsNarrow ==
  ASSUME Narrow, NEW t \in Caller, OutOfFrames(t) \/ FreePageReturns(t)
  PROVE  ~panicked' /\ Progress' /\ LiveKept'
<1>1. /\ request[t] # None /\ Unlock(t)
      /\ UNCHANGED <<tables, virtualMemoryBitset, m_memory, live, freed, panicked>>
  BY DEF OutOfFrames, FreePageReturns, Runs, mapVars
<1>2. \A u \in Caller : request'[u] = None
  BY <1>1, UnlockKeepsRequests DEF Narrow, BaseInv
<1> QED
  BY <1>1, <1>2 DEF Narrow, Progress, LiveKept, Mapped

(* Nothing freed, requests of any size.                                     *)
LEMMA NewPageKeepsUnfreed ==
  ASSUME Unfreed, NEW t \in Caller, NEW count \in 1..MaxCount, NewPage(t, count)
  PROVE  TakenAlone' /\ RangesApart' /\ FramesKept'
<1> DEFINE base == FindFirstRange(virtualMemoryBitset, Pages, count, FALSE)
           q == [op |-> "new", base |-> base, count |-> count, i |-> base]
<1>1. /\ base # NPOS /\ pagingLock = None
      /\ request' = [request EXCEPT ![t] = q]
      /\ UNCHANGED <<tables, virtualMemoryBitset, m_memory, live, freed, panicked>>
  BY DEF NewPage, Locked, mapVars
<1>2. base \in 0..(Pages - count - 1)
  BY <1>1, RangeInside
<1>3. \A u \in Caller \ {t} : request[u] = None
  BY <1>1, OneRequest DEF Unfreed, BaseInv
<1> HIDE DEF base
<1>4. base \in Int /\ Range(base, base - base) = {}
  BY <1>2, Sizes DEF Range
<1>5. request'[t] = q /\ \A u \in Caller \ {t} : request'[u] = None
  BY <1>1, <1>3 DEF Unfreed, BaseInv, RequestsOK
<1>6. TakenAlone'
  BY <1>4, <1>5 DEF TakenAlone
<1> QED
  BY <1>1, <1>6 DEF Unfreed, RangesApart, FramesKept, FramesPrivate, Mapped

(* The frame on offer backs no page, so a mapped page makes mapKernelPage    *)
(* panic and a free one is in nobody's range.                               *)
LEMMA MapNextKeepsUnfreed ==
  ASSUME Unfreed, NEW t \in Caller, MapNext(t)
  PROVE  TakenAlone' /\ RangesApart' /\ FramesKept'
<1> DEFINE q == request[t]
           p == NextFrame
<1>1. /\ q # None /\ q.op = "new" /\ ~Done(t) /\ AdvanceRequest(t) /\ p # NPOS /\ ~panicked
      /\ MapKernelPage(q.i, p) /\ UNCHANGED <<live, freed>>
  BY DEF MapNext, Runs
<1>2. p \in Frame /\ p \notin m_memory /\ p # None
  BY <1>1, NextFrameFree, Sizes
<1>3. /\ q \in Requests /\ q.i \in Page
      /\ request'[t] = [q EXCEPT !.i = q.i + 1]
      /\ \A u \in Caller \ {t} : request'[u] = None /\ request[u] = None
  BY <1>1, AdvanceKeepsRequests DEF Unfreed, BaseInv
<1>4. /\ q.base \in Nat /\ q.i \in Nat /\ q.base <= q.i
  BY <1>1, <1>3, Sizes DEF Unfreed, BaseInv, RequestsOK, RequestOK, Requests, Page
<1>5. /\ request'[t].op = "new" /\ request'[t].base = q.base /\ request'[t].i = q.i + 1
  BY <1>1, <1>3 DEF Requests
<1>6. tables[q.i] # p
  BY <1>2, <1>3 DEF Unfreed, FramesKept, Mapped
<1>7. CASE panicked' = TRUE /\ UNCHANGED mapVars
  BY <1>1, <1>3, <1>5, <1>7 DEF mapVars, Unfreed, TakenAlone, RangesApart, FramesKept,
     FramesPrivate, Mapped
<1>8. CASE /\ tables[q.i] = None /\ tables' = [tables EXCEPT ![q.i] = p]
           /\ m_memory' = m_memory \cup {p} /\ panicked' = panicked
  <2>1. /\ tables \in [Page -> Frame \cup {None}] /\ tables'[q.i] = p
        /\ \A v \in Page \ {q.i} : tables'[v] = tables[v]
        /\ Mapped(tables)' = Mapped(tables) \cup {q.i}
    BY <1>2, <1>3, <1>8 DEF Unfreed, BaseInv, MapsOK, Mapped
  <2>2. q.i \notin Mapped(tables)
    BY <1>8 DEF Mapped
  <2>3. RangesApart'
    BY <1>1, <2>1 DEF Unfreed, RangesApart
  <2>4. \A r \in live : q.i \notin Range(r.base, r.count)
    BY <2>2 DEF Unfreed, RangesApart
  <2>5. Range(q.base, (q.i + 1) - q.base) = Range(q.base, q.i - q.base) \cup {q.i}
    BY <1>4 DEF Range
  <2>6. \A v \in Range(q.base, q.i - q.base) :
          v \in Mapped(tables) /\ \A r \in live : v \notin Range(r.base, r.count)
    BY <1>1 DEF Unfreed, TakenAlone
  <2>7. TakenAlone'
    <3> SUFFICES ASSUME NEW u \in Caller, request'[u] # None
                 PROVE  /\ request'[u].op = "new"
                        /\ \A v \in Range(request'[u].base, request'[u].i - request'[u].base) :
                             v \in Mapped(tables)' /\ \A r \in live' : v \notin Range(r.base, r.count)
      BY DEF TakenAlone, Range
    <3>1. u = t
      BY <1>3
    <3>2. Range(request'[u].base, request'[u].i - request'[u].base)
            = Range(q.base, q.i - q.base) \cup {q.i}
      BY <1>5, <2>5, <3>1
    <3> QED
      BY <1>1, <1>5, <2>1, <2>4, <2>6, <3>1, <3>2
  <2>8. FramesKept'
    <3>1. /\ \A v, w \in Mapped(tables) : tables[v] = tables[w] => v = w
          /\ \A v \in Mapped(tables) : tables[v] \in m_memory /\ tables'[v] = tables[v]
      BY <2>1, <2>2 DEF Unfreed, FramesKept, FramesPrivate, Mapped
    <3>2. \A v \in Mapped(tables) : tables'[v] # p
      BY <1>2, <3>1
    <3>3. ASSUME NEW v \in Mapped(tables)', NEW w \in Mapped(tables)', tables'[v] = tables'[w]
          PROVE  v = w
      <4>1. CASE v = q.i
        BY <2>1, <3>2, <3>3, <4>1
      <4>2. CASE w = q.i
        BY <2>1, <3>2, <3>3, <4>2
      <4>3. CASE v # q.i /\ w # q.i
        BY <2>1, <3>1, <3>3, <4>3
      <4> QED
        BY <4>1, <4>2, <4>3
    <3>4. ASSUME NEW v \in Mapped(tables)' PROVE tables'[v] \in m_memory'
      <4>1. CASE v = q.i
        BY <1>8, <2>1, <4>1
      <4>2. CASE v \in Mapped(tables)
        BY <1>8, <3>1, <4>2
      <4> QED
        BY <2>1, <4>1, <4>2
    <3> QED
      BY <3>3, <3>4 DEF FramesKept, FramesPrivate
  <2> QED
    BY <2>3, <2>7, <2>8
<1> QED
  BY <1>1, <1>6, <1>7, <1>8 DEF MapKernelPage, Set

LEMMA NewPageReturnsKeepsUnfreed ==
  ASSUME Unfreed, NEW t \in Caller, NewPageReturns(t)
  PROVE  TakenAlone' /\ RangesApart' /\ FramesKept'
<1> DEFINE q == request[t]
<1>1. /\ q # None /\ Done(t) /\ Unlock(t) /\ ~panicked
      /\ live' = live \cup {r \in Ranges : r.base = q.base /\ r.base # 0 /\ r.count = q.count}
      /\ UNCHANGED <<tables, virtualMemoryBitset, m_memory, freed, panicked>>
  BY DEF NewPageReturns, Runs, mapVars
<1>2. \A u \in Caller : request'[u] = None
  BY <1>1, UnlockKeepsRequests DEF Unfreed, BaseInv
<1>3. q.base \in Nat /\ q.count \in Nat /\ q.i - q.base = q.count
  BY <1>1, Sizes DEF Unfreed, BaseInv, RequestsOK, RequestOK, Requests, Done, Page
<1>4. \A v \in Range(q.base, q.count) :
        v \in Mapped(tables) /\ \A r \in live : v \notin Range(r.base, r.count)
  BY <1>1, <1>3 DEF Unfreed, TakenAlone
<1>5. ASSUME NEW s \in live', s \notin live
      PROVE  s \in Ranges /\ s.base = q.base /\ s.count = q.count
  BY <1>1, <1>5
<1>6. \A r, s \in live' : (r \notin live /\ s \notin live) => r = s
  BY <1>5 DEF Ranges
<1>7. RangesApart'
  <2> SUFFICES ASSUME NEW r \in live'
               PROVE  /\ Range(r.base, r.count) \subseteq Mapped(tables)
                      /\ \A s \in live' : s # r => Range(r.base, r.count) \cap Range(s.base, s.count) = {}
    BY <1>1 DEF RangesApart, Mapped
  <2>1. CASE r \in live
    BY <1>4, <1>5, <2>1 DEF Unfreed, RangesApart
  <2>2. CASE r \notin live
    BY <1>4, <1>5, <1>6, <2>2
  <2> QED
    BY <2>1, <2>2
<1> QED
  BY <1>1, <1>2, <1>7 DEF Unfreed, TakenAlone, FramesKept, FramesPrivate, Mapped

LEMMA GivesUpKeepsUnfreed ==
  ASSUME Unfreed, NEW t \in Caller, OutOfFrames(t) \/ FreePageReturns(t)
  PROVE  TakenAlone' /\ RangesApart' /\ FramesKept'
<1>1. /\ request[t] # None /\ Unlock(t)
      /\ UNCHANGED <<tables, virtualMemoryBitset, m_memory, live, freed, panicked>>
  BY DEF OutOfFrames, FreePageReturns, Runs, mapVars
<1>2. \A u \in Caller : request'[u] = None
  BY <1>1, UnlockKeepsRequests DEF Unfreed, BaseInv
<1> QED
  BY <1>1, <1>2 DEF Unfreed, TakenAlone, RangesApart, FramesKept, FramesPrivate, Mapped

LEMMA FullStep ==
  ASSUME FullInv, [PagingNext]_pagingVars
  PROVE  FullInv'
<1>1. BaseInv'
  BY BaseStep DEF FullInv
<1>2. CASE UNCHANGED pagingVars
  BY <1>1, <1>2 DEF pagingVars, FullInv, Narrow, Progress, LiveKept, Unfreed, TakenAlone, RangesApart,
     FramesKept, FramesPrivate, Mapped
<1>3. ASSUME PagingNext, ~wide' PROVE Narrow'
  <2>1. CASE Halted
    BY <1>2, <1>3, <2>1 DEF Halted, FullInv
  <2>2. ASSUME NEW t \in Caller, NEW count \in 1..MaxCount, NewPage(t, count) PROVE Narrow'
    <3>1. ~wide /\ ~(count >= WordBits)
      BY <1>3, <2>2 DEF NewPage
    <3>2. count < WordBits
      BY <3>1, Sizes, WordAssumption
    <3> QED
      BY <1>1, <2>2, <3>1, <3>2, NewPageKeepsNarrow DEF FullInv, Narrow
  <2>3. ASSUME NEW t \in Caller,
               MapNext(t) \/ OutOfFrames(t) \/ NewPageReturns(t) \/ UnmapNext(t) \/ FreePageReturns(t)
        PROVE  Narrow'
    <3>1. ~wide
      BY <1>3, <2>3 DEF MapNext, OutOfFrames, NewPageReturns, UnmapNext, FreePageReturns
    <3> QED
      BY <1>1, <2>3, <3>1, MapNextKeepsNarrow, NewPageReturnsKeepsNarrow, UnmapNextKeepsNarrow,
         GivesUpKeepsNarrow DEF FullInv, Narrow
  <2>4. ASSUME NEW t \in Caller, NEW range \in live, FreePage(t, range) PROVE Narrow'
    <3>1. ~wide
      BY <1>3, <2>4 DEF FreePage
    <3> QED
      BY <1>1, <2>4, <3>1, FreePageKeepsNarrow DEF FullInv, Narrow
  <2> QED
    BY <1>3, <2>1, <2>2, <2>3, <2>4 DEF PagingNext
<1>4. ASSUME PagingNext, freed' = {} PROVE Unfreed'
  <2>1. CASE Halted
    BY <1>2, <1>4, <2>1 DEF Halted, FullInv
  <2>2. ASSUME NEW t \in Caller, NEW range \in live, FreePage(t, range) PROVE FALSE
    BY <1>4, <2>2 DEF FreePage
  <2>3. ASSUME NEW t \in Caller, NEW count \in 1..MaxCount, NewPage(t, count) PROVE Unfreed'
    <3>1. freed = {}
      BY <1>4, <2>3 DEF NewPage
    <3> QED
      BY <1>1, <2>3, <3>1, NewPageKeepsUnfreed DEF FullInv, Unfreed
  <2>4. ASSUME NEW t \in Caller,
               MapNext(t) \/ OutOfFrames(t) \/ NewPageReturns(t) \/ UnmapNext(t) \/ FreePageReturns(t)
        PROVE  Unfreed'
    <3>1. freed = {}
      BY <1>4, <2>4 DEF MapNext, OutOfFrames, NewPageReturns, UnmapNext, FreePageReturns
    <3>2. ~UnmapNext(t)
      BY <3>1 DEF UnmapNext, Runs, FullInv, Unfreed, TakenAlone
    <3> QED
      BY <1>1, <2>4, <3>1, <3>2, MapNextKeepsUnfreed, NewPageReturnsKeepsUnfreed,
         GivesUpKeepsUnfreed DEF FullInv, Unfreed
  <2> QED
    BY <1>4, <2>1, <2>2, <2>3, <2>4 DEF PagingNext
<1>5. CASE PagingNext
  BY <1>1, <1>3, <1>4, <1>5 DEF FullInv
<1> QED
  BY <1>2, <1>5

LEMMA FullInvariant == PagingSpec => []FullInv
<1>1. PagingInit => FullInv
  BY FullInit
<1>2. FullInv /\ [PagingNext]_pagingVars => FullInv'
  BY FullStep
<1> QED
  BY <1>1, <1>2, PTL DEF PagingSpec

(* For every size of request: mapKernelPage panics only after a request of a *)
(* whole word of the bitmap or more.                                        *)
THEOREM PanicsOnlyAfterWide == PagingSpec => []PanicNeedsWideRequest
<1>1. FullInv => PanicNeedsWideRequest
  BY DEF FullInv, Narrow, BaseInv, HistoryOK, PanicNeedsWideRequest
<1> QED
  BY <1>1, FullInvariant, PTL

(* For every size of request: nothing is handed out twice before the first   *)
(* freePage, and what is in use stays mapped and untouched afterwards under  *)
(* the conditions that the faults of freePage and of the search leave.      *)
THEOREM LivePagesStay == PagingSpec => []LivePagesKept
<1>1. ASSUME FullInv PROVE LivePagesKept
  <2>1. CASE ~wide /\ freed \subseteq {0}
    BY <1>1, <2>1 DEF FullInv, Narrow, LiveKept, Unfreed, FramesKept, RangesApart, LivePagesKept
  <2>2. CASE wide \/ ~(freed \subseteq {0})
    BY <1>1, <2>2 DEF FullInv, Unfreed, FramesKept, LivePagesKept
  <2> QED
    BY <1>1, <2>1, <2>2 DEF FullInv, BaseInv, HistoryOK
<1> QED
  BY <1>1, FullInvariant, PTL

(***************************************************************************)
(* Boot.  Each stage of stivale2.c adds a table to what the ones before it  *)
(* have mapped, and every tag but the memory map leaves the map alone.      *)
(***************************************************************************)
(* Quotient and remainder, from what a number is made of.                   *)
LEMMA DivIs ==
  ASSUME NEW a \in Nat, NEW b \in Nat \ {0}, NEW q \in Nat, NEW r \in 0..(b - 1), a = b * q + r
  PROVE  a \div b = q /\ a % b = r
<1> DEFINE p == a \div b  s == a % b
<1>1. p \in Int /\ s \in Int /\ 0 <= s /\ s < b /\ a = b * p + s
  BY SMT
<1> HIDE DEF p, s
<1>2. b * (p - q) = r - s
  BY <1>1
<1>3. p - q >= 1 => b * (p - q) >= b
  BY <1>1
<1>4. p - q <= -1 => b * (p - q) <= -b
  BY <1>1
<1>5. p = q /\ r = s
  BY <1>1, <1>2, <1>3, <1>4
<1> QED
  BY <1>5 DEF p, s

LEMMA DivSplits ==
  ASSUME NEW a \in Nat, NEW b \in Nat \ {0}
  PROVE  a \div b \in Nat /\ a % b \in 0..(b - 1) /\ a = b * (a \div b) + (a % b)
<1> DEFINE p == a \div b  s == a % b
<1>1. p \in Int /\ s \in Int /\ 0 <= s /\ s < b /\ a = b * p + s
  BY SMT
<1> HIDE DEF p, s
<1>2. p < 0 => b * p <= -b
  BY <1>1
<1>3. p \in Nat
  BY <1>1, <1>2
<1>4. p \in Nat /\ s \in 0..(b - 1) /\ a = b * p + s
  BY <1>1, <1>3
<1> QED
  BY <1>4 DEF p, s

Directory == 0..(SpacePages \div Entries - 1)
KernelTable == LinkBase \div Entries

(* The two tables of the kernel are in the directory, side by side.         *)
LEMMA KernelTables ==
  /\ KernelTable \in Nat /\ LinkBase = Entries * KernelTable
  /\ 0 \in Directory /\ KernelTable \in Directory /\ KernelTable + 1 \in Directory
  /\ LinkStart \div Entries = KernelTable
<1> DEFINE E == Entries  n == LinkBase \div (2 * E)  m == SpacePages \div (2 * E)
<1>1. E \in Nat \ {0} /\ 2 * E \in Nat \ {0} /\ LinkBase \in Nat /\ SpacePages \in Nat
  BY BootAssumption
<1>2. n \in Nat /\ LinkBase = (2 * E) * n
  <2> DEFINE x == LinkBase % (2 * E)
  <2>1. x = 0
    BY BootAssumption
  <2> HIDE DEF E
  <2>2. n \in Nat /\ LinkBase = (2 * E) * n + x
    BY <1>1, DivSplits
  <2> HIDE DEF x
  <2> HIDE DEF n
  <2> QED
    BY <1>1, <2>1, <2>2
<1>3. m \in Nat /\ SpacePages = (2 * E) * m
  <2> DEFINE x == SpacePages % (2 * E)
  <2>1. x = 0
    BY BootAssumption
  <2> HIDE DEF E
  <2>2. m \in Nat /\ SpacePages = (2 * E) * m + x
    BY <1>1, DivSplits
  <2> HIDE DEF x
  <2> HIDE DEF m
  <2> QED
    BY <1>1, <2>1, <2>2
<1>4. LinkBase < SpacePages /\ LinkStart \in Nat /\ LinkStart - LinkBase \in 0..(E - 1)
  BY <1>1, BootAssumption
<1> HIDE DEF E, n, m
<1>5. n < m
  <2>1. n >= m => (2 * E) * n >= (2 * E) * m
    BY <1>1, <1>2, <1>3
  <2> QED
    BY <1>1, <1>2, <1>3, <1>4, <2>1
<1>6. LinkBase = E * (2 * n) + 0 /\ SpacePages = E * (2 * m) + 0
  BY <1>1, <1>2, <1>3
<1>7. LinkBase \div E = 2 * n /\ SpacePages \div E = 2 * m
  <2>1. 0 \in 0..(E - 1) /\ 2 * n \in Nat /\ 2 * m \in Nat
    BY <1>1, <1>2, <1>3
  <2> QED
    BY <1>1, <1>6, <2>1, DivIs
<1>8. LinkStart \div E = 2 * n
  <2> DEFINE r == LinkStart - LinkBase
  <2>1. LinkStart = E * (2 * n) + r /\ r \in 0..(E - 1) /\ 2 * n \in Nat
    BY <1>1, <1>2, <1>4, <1>6
  <2> QED
    BY <1>1, <1>4, <2>1, DivIs
<1> QED
  BY <1>1, <1>2, <1>3, <1>5, <1>6, <1>7, <1>8 DEF E, Directory, KernelTable

(* kernelPageTable[0].entries[idx & 0x7ff]: what two tables do not hold goes *)
(* around to the first entries.                                             *)
LEMMA KernelEntryIs ==
  ASSUME NEW v \in LinkStart..(LinkEnd - 1)
  PROVE  /\ v \in Nat /\ LinkBase \in Nat /\ Entries \in Nat \ {0}
         /\ v - LinkBase < 2 * Entries => KernelEntry(v) = v - LinkBase
         /\ ~(v - LinkBase < 2 * Entries) => KernelEntry(v) = v - LinkBase - 2 * Entries
<1> DEFINE T == 2 * Entries  r == v - LinkBase  n == LinkBase \div T  x == LinkBase % T
<1>1. /\ Entries \in Nat \ {0} /\ T \in Nat \ {0} /\ LinkBase \in Nat /\ v \in Nat
      /\ r \in Nat /\ r < T + T /\ v = LinkBase + r
  BY BootAssumption
<1>2. x = 0
  BY BootAssumption
<1> HIDE DEF T, r
<1>3. n \in Nat /\ LinkBase = T * n + x
  BY <1>1, DivSplits
<1> HIDE DEF x, n
<1>4. r < T => v % T = r
  <2> SUFFICES ASSUME r < T PROVE v % T = r
    OBVIOUS
  <2>1. v = T * n + r /\ r \in 0..(T - 1)
    BY <1>1, <1>2, <1>3
  <2> QED
    BY <1>1, <1>3, <2>1, DivIs
<1>5. ~(r < T) => v % T = r - T
  <2> SUFFICES ASSUME ~(r < T) PROVE v % T = r - T
    OBVIOUS
  <2>1. T * (n + 1) = T * n + T
    BY <1>1, <1>3
  <2>2. v = T * (n + 1) + (r - T) /\ r - T \in 0..(T - 1) /\ n + 1 \in Nat
    BY <1>1, <1>2, <1>3, <2>1
  <2> QED
    BY <1>1, <2>2, DivIs
<1> QED
  BY <1>1, <1>4, <1>5 DEF KernelEntry, T, r

(* Where a page of the kernel is in the tables.                             *)
LEMMA KernelPlace ==
  ASSUME NEW v \in LinkStart..(LinkEnd - 1), v < LinkBase + 2 * Entries
  PROVE  /\ v \in Nat /\ KernelEntry(v) = v - LinkBase /\ v - LinkBase \in Nat
         /\ v - LinkBase < Entries => v \div Entries = KernelTable /\ v % Entries = v - LinkBase
         /\ ~(v - LinkBase < Entries) => /\ v \div Entries = KernelTable + 1
                                         /\ v % Entries = v - LinkBase - Entries
         /\ v % Entries \in 0..(Entries - 1)
<1> DEFINE E == Entries  r == v - LinkBase  K == KernelTable
<1>1. /\ E \in Nat \ {0} /\ 2 * E \in Nat \ {0} /\ LinkBase \in Nat /\ v \in Nat /\ r \in 0..(2 * E - 1)
      /\ v = LinkBase + r
  BY BootAssumption
<1>2. K \in Nat /\ LinkBase = E * K
  BY KernelTables
<1>3. KernelEntry(v) = r
  <2> HIDE DEF E, r
  <2> QED
    BY <1>1, KernelEntryIs DEF E, r
<1>4. r < E => v \div E = K /\ v % E = r
  <2> HIDE DEF E, r, K
  <2> SUFFICES ASSUME r < E PROVE v \div E = K /\ v % E = r
    OBVIOUS
  <2>1. r \in 0..(E - 1) /\ v = E * K + r
    BY <1>1, <1>2
  <2> QED
    BY <1>1, <1>2, <2>1, DivIs
<1>5. ~(r < E) => v \div E = K + 1 /\ v % E = r - E
  <2> HIDE DEF E, r, K
  <2> SUFFICES ASSUME ~(r < E) PROVE v \div E = K + 1 /\ v % E = r - E
    OBVIOUS
  <2>1. r - E \in 0..(E - 1) /\ v = E * (K + 1) + (r - E) /\ K + 1 \in Nat
    BY <1>1, <1>2
  <2> QED
    BY <1>1, <2>1, DivIs
<1>6. v % E \in 0..(E - 1)
  <2> HIDE DEF E
  <2> QED
    BY <1>1, DivSplits
<1> QED
  BY <1>1, <1>3, <1>4, <1>5, <1>6

(* Pages below Entries are in the first table, at their own number.         *)
LEMMA LowPlace ==
  ASSUME NEW v \in 0..(Entries - 1)
  PROVE  v \div Entries = 0 /\ v % Entries = v
<1>1. v \in Nat /\ Entries \in Nat \ {0} /\ 0 \in Nat /\ v = Entries * 0 + v
  BY BootAssumption
<1> QED
  BY <1>1, DivIs

LEMMA FilledHit ==
  ASSUME NEW old, NEW slot, NEW frame, NEW p \in DOMAIN slot, p \in Int, slot[p] \in DOMAIN old,
         \A q \in DOMAIN slot : slot[q] = slot[p] => q = p
  PROVE  Filled(old, slot, frame)[slot[p]] = frame[p]
<1> DEFINE rounds == {v \in DOMAIN slot : slot[v] = slot[p]}
<1>1. rounds = {p}
  OBVIOUS
<1>2. (CHOOSE v \in rounds : \A w \in rounds : w <= v) = p
  <2> HIDE DEF rounds
  <2>1. \E v \in rounds : \A w \in rounds : w <= v
    BY <1>1
  <2>2. (CHOOSE v \in rounds : \A w \in rounds : w <= v) \in rounds
    BY <2>1
  <2> QED
    BY <1>1, <2>2
<1> QED
  BY <1>1, <1>2 DEF Filled

LEMMA FilledMiss ==
  ASSUME NEW old, NEW slot, NEW frame, NEW e \in DOMAIN old, \A q \in DOMAIN slot : slot[q] # e
  PROVE  Filled(old, slot, frame)[e] = old[e]
<1>1. {v \in DOMAIN slot : slot[v] = e} = {}
  OBVIOUS
<1> QED
  BY <1>1 DEF Filled

LEMMA FilledDomain ==
  ASSUME NEW old, NEW slot, NEW frame
  PROVE  DOMAIN Filled(old, slot, frame) = DOMAIN old
  BY DEF Filled

(***************************************************************************)
(* The stages.                                                             *)
(***************************************************************************)
MapEntry == [base : Nat, length : Nat, type : STRING]
Orders == {<<"memmap", "cmdline">>, <<"cmdline", "framebuffer", "memmap">>}
Sections == [i \in DOMAIN info.map |-> Section(info.map[i])]

TablesTyped ==
  /\ directory \in [Directory -> TableName \cup {Nothing}]
  /\ DOMAIN pageTables = TableName
  /\ \A t \in TableName : DOMAIN pageTables[t] = 0..(Entries - 1)

InfoTyped == boot # "off" =>
  info.map \in Seq(MapEntry) /\ info.tags \in Nat /\ info.memmapAt \in Nat

(* What the tables hold before each stage.                                  *)
Blank == boot \in {"off", "low"} =>
  /\ \A d \in Directory : directory[d] = Nothing
  /\ \A e \in 0..(Entries - 1) : pageTables["low"][e] = Nothing

LowTable ==
  /\ directory[0] = "low" /\ pageTables["low"][0] = Nothing
  /\ \A v \in 1..(EarlyEnd - 1) : pageTables["low"][v] = v

AfterLow == boot = "high" => LowTable /\ \A d \in Directory \ {0} : directory[d] = Nothing

AfterHigh == (boot = "boot" /\ LinkBase > 0) =>
  /\ LowTable
  /\ directory[KernelTable] = "kernel0" /\ directory[KernelTable + 1] = "kernel1"
  /\ \A d \in Directory \ {0, KernelTable, KernelTable + 1} : directory[d] = Nothing
  /\ \A v \in LinkStart..(LinkEnd - 1) : v < LinkBase + 2 * Entries => Walk(v) = v - LinkBase

(* The tags that are left, and that the memory map is known once its tag is  *)
(* behind.                                                                  *)
TagsKnown ==
  /\ boot \in {"low", "high", "boot", "stage2"} => todo \in Orders
  /\ boot = "parse" =>
       \/ todo \in Orders \cup {<<"framebuffer", "memmap">>, <<"memmap">>}
       \/ todo \in {<<"cmdline">>, <<>>} /\ memoryMap = Sections

UsableFrames ==
  UNION {FramesOf(s) : s \in {s \in BX!ToSet(Sections) : Initialized(s) /\ s.type = "usable"}}

ReservedKnown ==
  /\ boot \notin {"memory", "up"} => reserved = AllPages
  /\ boot = "memory" => reserved = AllPages \ UsableFrames

BootInv ==
  /\ TablesTyped /\ InfoTyped /\ Blank /\ AfterLow /\ AfterHigh
  /\ TagsKnown /\ ReservedKnown /\ BootKeepsMemory

LEMMA BootStart == BootInit => BootInv
<1> SUFFICES ASSUME BootInit PROVE BootInv
  OBVIOUS
<1>1. TablesTyped
  BY DEF BootInit, TablesTyped, Directory
<1>2. Blank
  BY DEF BootInit, Blank, Directory, TableName
<1> QED
  BY <1>1, <1>2 DEF BootInit, BootInv, InfoTyped, AfterLow, AfterHigh, TagsKnown, ReservedKnown,
                    BootKeepsMemory, KernelMapped, OffersUsableMemory

(* Steps that leave the tables alone.                                       *)
LEMMA LoadKeeps ==
  ASSUME BootInv, boot = "off", NEW map \in MemoryMaps, NEW i \in DOMAIN map,
         NEW memmapAt, memmapAt = map[i].base % SpacePages,
         NEW tags, tags = memmapAt \/ tags \in AllPages,
         NEW order \in {<<>>, <<"memmap", "cmdline">>, <<"cmdline", "framebuffer", "memmap">>},
         Load(map, tags, memmapAt, order)
  PROVE  BootInv'
<1>1. /\ info' = [map |-> map, tags |-> tags, memmapAt |-> memmapAt] /\ todo' = order
      /\ boot' = (IF order = <<>> THEN "earlyPanic" ELSE "low")
      /\ directory' = directory /\ pageTables' = pageTables /\ memoryMap' = memoryMap /\ reserved' = reserved
  BY DEF Load
<1>2. map \in Seq(MapEntry) /\ tags \in Nat /\ memmapAt \in Nat
  <2>1. map \in Seq(MapEntry)
    BY BootAssumption DEF MapEntry
  <2>2. map[i] \in MapEntry
    BY <2>1
  <2>3. map[i].base \in Nat /\ SpacePages \in Nat \ {0}
    BY <2>2, BootAssumption DEF MapEntry
  <2>4. memmapAt \in 0..(SpacePages - 1)
    BY <2>3, DivSplits
  <2> QED
    BY <2>1, <2>3, <2>4 DEF AllPages
<1>3. boot' \in {"earlyPanic", "low"} /\ (boot' = "low" => todo' \in Orders)
  BY <1>1 DEF Orders
<1>4. TablesTyped' /\ InfoTyped'
  BY <1>1, <1>2 DEF BootInv, TablesTyped, InfoTyped
<1>5. Blank'
  BY <1>1 DEF BootInv, Blank
<1>6. reserved' = AllPages
  BY <1>1 DEF BootInv, ReservedKnown
<1> QED
  BY <1>3, <1>4, <1>5, <1>6 DEF BootInv, AfterLow, AfterHigh, TagsKnown, ReservedKnown,
                    BootKeepsMemory, KernelMapped, OffersUsableMemory

LEMMA LowKeeps ==
  ASSUME BootInv, Stage1MapLowMemory
  PROVE  BootInv'
<1> DEFINE pages == 1..(EarlyEnd - 1)  old == pageTables["low"]
           new == Filled(old, Masked10(pages), Same(pages))
<1>1. /\ boot = "low" /\ boot' = "high" /\ info' = info /\ todo' = todo /\ memoryMap' = memoryMap
      /\ reserved' = reserved /\ directory' = [directory EXCEPT ![0] = "low"]
      /\ pageTables' = [pageTables EXCEPT !["low"] = new]
  BY DEF Stage1MapLowMemory, Stage1
<1>2. TablesTyped /\ InfoTyped /\ Blank /\ TagsKnown /\ ReservedKnown
  BY DEF BootInv
<1>3. Entries \in Nat \ {0} /\ EarlyEnd \in Nat /\ EarlyEnd <= Entries /\ 0 \in Directory
  BY BootAssumption, KernelTables
<1>4. \A v \in pages : v \in Int /\ v \in 0..(Entries - 1) /\ Masked10(pages)[v] = v /\ Same(pages)[v] = v
  <2> SUFFICES ASSUME NEW v \in pages
               PROVE  v \in Int /\ v \in 0..(Entries - 1) /\ Masked10(pages)[v] = v /\ Same(pages)[v] = v
    OBVIOUS
  <2>1. v \in Int /\ v \in 0..(Entries - 1)
    BY <1>3
  <2>2. v % Entries = v
    BY <2>1, LowPlace
  <2> QED
    BY <2>1, <2>2 DEF Masked10, Same
<1>5. DOMAIN Masked10(pages) = pages /\ DOMAIN old = 0..(Entries - 1) /\ DOMAIN new = 0..(Entries - 1)
  BY <1>2, FilledDomain DEF Masked10, TablesTyped, TableName
<1>6. \A v \in pages : new[v] = v
  <2> SUFFICES ASSUME NEW v \in pages PROVE new[v] = v
    OBVIOUS
  <2> DEFINE ent == Masked10(pages)  fr == Same(pages)
  <2>1. /\ v \in DOMAIN ent /\ v \in Int /\ ent[v] \in DOMAIN old /\ ent[v] = v /\ fr[v] = v
        /\ \A q \in DOMAIN ent : ent[q] = ent[v] => q = v
    BY <1>4, <1>5
  <2> HIDE DEF ent, fr
  <2>2. Filled(old, ent, fr)[ent[v]] = fr[v]
    BY <2>1, FilledHit
  <2> QED
    BY <2>1, <2>2 DEF ent, fr
<1>7. new[0] = Nothing
  <2>1. old[0] = Nothing /\ 0 \in DOMAIN old
    BY <1>1, <1>2, <1>3, <1>5 DEF Blank
  <2>2. \A q \in pages : q # 0
    BY <1>3
  <2>3. \A q \in DOMAIN Masked10(pages) : Masked10(pages)[q] # 0
    BY <1>4, <1>5, <2>2
  <2> QED
    BY <2>1, <2>3, FilledMiss
<1> HIDE DEF new, old
<1>8. pageTables'["low"] = new /\ \A t \in TableName \ {"low"} : pageTables'[t] = pageTables[t]
  BY <1>1, <1>2 DEF TablesTyped, TableName
<1>9. TablesTyped' /\ InfoTyped'
  <2>1. DOMAIN pageTables' = TableName
    BY <1>1, <1>2 DEF TablesTyped
  <2>2. directory' \in [Directory -> TableName \cup {Nothing}]
    BY <1>1, <1>2 DEF TablesTyped, TableName
  <2> QED
    BY <1>1, <1>2, <1>5, <1>8, <2>1, <2>2 DEF TablesTyped, InfoTyped
<1>10. AfterLow'
  BY <1>1, <1>2, <1>3, <1>6, <1>7, <1>8 DEF TablesTyped, AfterLow, LowTable, Blank
<1>11. TagsKnown' /\ ReservedKnown'
  BY <1>1, <1>2 DEF TagsKnown, ReservedKnown
<1> QED
  BY <1>1, <1>9, <1>10, <1>11 DEF BootInv, Blank, AfterHigh, BootKeepsMemory, KernelMapped,
                                  OffersUsableMemory

LEMMA HighKeeps ==
  ASSUME BootInv, Stage1MapHighMemory
  PROVE  BootInv'
<1> DEFINE pages == LinkStart..(LinkEnd - 1)  phys == [v \in pages |-> v - LinkBase]
           ent0 == [v \in pages |-> KernelEntry(v)]  ent1 == [v \in pages |-> KernelEntry(v) - Entries]
           new0 == Filled(pageTables["kernel0"], ent0, phys)
           new1 == Filled(pageTables["kernel1"], ent1, phys)
           K == KernelTable
<1>1. /\ boot = "high" /\ boot' = "boot" /\ info' = info /\ todo' = todo /\ memoryMap' = memoryMap
      /\ reserved' = reserved /\ directory' = [directory EXCEPT ![K] = "kernel0", ![K + 1] = "kernel1"]
      /\ pageTables' = [pageTables EXCEPT !["kernel0"] = new0, !["kernel1"] = new1]
  BY KernelTables DEF Stage1MapHighMemory, Stage1
<1>2. TablesTyped /\ InfoTyped /\ AfterLow /\ TagsKnown /\ ReservedKnown
  BY DEF BootInv
<1>3. /\ K \in Nat /\ 0 \in Directory /\ K \in Directory /\ K + 1 \in Directory
      /\ LinkBase = Entries * K /\ Entries \in Nat \ {0} /\ LinkBase \in Nat
  BY BootAssumption, KernelTables
<1>4. DOMAIN pageTables["kernel0"] = 0..(Entries - 1) /\ DOMAIN pageTables["kernel1"] = 0..(Entries - 1)
  BY <1>2 DEF TablesTyped, TableName
<1>5. DOMAIN new0 = 0..(Entries - 1) /\ DOMAIN new1 = 0..(Entries - 1)
  BY <1>4, FilledDomain
<1>6. ASSUME NEW v \in pages, v < LinkBase + 2 * Entries
      PROVE  IF v - LinkBase < Entries THEN new0[v % Entries] = v - LinkBase
                                       ELSE new1[v % Entries] = v - LinkBase
  <2>1. /\ v \in Int /\ v % Entries \in 0..(Entries - 1) /\ phys[v] = v - LinkBase
        /\ v - LinkBase < Entries => v % Entries = ent0[v]
        /\ ~(v - LinkBase < Entries) => v % Entries = ent1[v]
    BY <1>6, KernelPlace
  <2>2. \A q \in pages : (ent0[q] = ent0[v] => q = v) /\ (ent1[q] = ent1[v] => q = v)
    <3> SUFFICES ASSUME NEW q \in pages PROVE (ent0[q] = ent0[v] => q = v) /\ (ent1[q] = ent1[v] => q = v)
      OBVIOUS
    <3>1. /\ q \in Nat /\ v \in Nat /\ KernelEntry(v) = v - LinkBase
          /\ q - LinkBase < 2 * Entries => KernelEntry(q) = q - LinkBase
          /\ ~(q - LinkBase < 2 * Entries) => KernelEntry(q) = q - LinkBase - 2 * Entries
      BY <1>6, KernelPlace, KernelEntryIs
    <3>2. q - v < 2 * Entries
      BY <1>3, <3>1, BootAssumption
    <3> DEFINE kq == KernelEntry(q)  kv == KernelEntry(v)
    <3>3. ent0[q] = kq /\ ent0[v] = kv /\ ent1[q] = kq - Entries /\ ent1[v] = kv - Entries
      OBVIOUS
    <3> HIDE DEF kq, kv, ent0, ent1
    <3>4. kq = kv => q = v
      BY <1>3, <3>1, <3>2 DEF kq, kv
    <3>5. kq \in Int /\ kv \in Int
      BY <1>3, <3>1 DEF kq, kv
    <3> QED
      BY <1>3, <3>3, <3>4, <3>5
  <2>3. DOMAIN ent0 = pages /\ DOMAIN ent1 = pages
    OBVIOUS
  <2> HIDE DEF ent0, ent1, phys
  <2>4. CASE v - LinkBase < Entries
    <3>1. Filled(pageTables["kernel0"], ent0, phys)[ent0[v]] = phys[v]
      <4>1. v \in DOMAIN ent0 /\ ent0[v] \in DOMAIN pageTables["kernel0"]
        BY <1>4, <2>1, <2>3, <2>4
      <4>2. \A q \in DOMAIN ent0 : ent0[q] = ent0[v] => q = v
        BY <2>2, <2>3
      <4> QED
        BY <2>1, <4>1, <4>2, FilledHit
    <3> QED
      BY <2>1, <2>4, <3>1
  <2>5. CASE ~(v - LinkBase < Entries)
    <3>1. Filled(pageTables["kernel1"], ent1, phys)[ent1[v]] = phys[v]
      <4>1. v \in DOMAIN ent1 /\ ent1[v] \in DOMAIN pageTables["kernel1"]
        BY <1>4, <2>1, <2>3, <2>5
      <4>2. \A q \in DOMAIN ent1 : ent1[q] = ent1[v] => q = v
        BY <2>2, <2>3
      <4> QED
        BY <2>1, <4>1, <4>2, FilledHit
    <3> QED
      BY <2>1, <2>5, <3>1
  <2> QED
    BY <2>4, <2>5
<1> HIDE DEF new0, new1
<1>7. /\ pageTables'["kernel0"] = new0 /\ pageTables'["kernel1"] = new1
      /\ pageTables'["low"] = pageTables["low"] /\ pageTables'["boot"] = pageTables["boot"]
      /\ DOMAIN pageTables' = TableName
  BY <1>1, <1>2 DEF TablesTyped, TableName
<1>8. /\ directory'[K] = "kernel0" /\ directory'[K + 1] = "kernel1"
      /\ \A d \in Directory \ {K, K + 1} : directory'[d] = directory[d]
      /\ directory' \in [Directory -> TableName \cup {Nothing}]
  <2> HIDE DEF K
  <2>1. K # K + 1
    BY <1>3
  <2> QED
    BY <1>1, <1>2, <1>3, <2>1 DEF TablesTyped, TableName
<1>9. TablesTyped' /\ InfoTyped'
  <2>1. \A t \in TableName : DOMAIN pageTables'[t] = 0..(Entries - 1)
    BY <1>2, <1>5, <1>7 DEF TablesTyped, TableName
  <2> QED
    BY <1>1, <1>2, <1>7, <1>8, <2>1 DEF TablesTyped, InfoTyped
<1>10. AfterHigh'
  <2> SUFFICES ASSUME LinkBase > 0
               PROVE  /\ LowTable'
                      /\ \A d \in Directory \ {0, K, K + 1} : directory'[d] = Nothing
                      /\ \A v \in pages : v < LinkBase + 2 * Entries => Walk(v)' = v - LinkBase
    BY <1>8 DEF AfterHigh
  <2>1. K # 0 /\ K + 1 # 0
    BY <1>3
  <2>2. LowTable'
    BY <1>1, <1>2, <1>3, <1>7, <1>8, <2>1 DEF AfterLow, LowTable
  <2>3. \A d \in Directory \ {0, K, K + 1} : directory'[d] = Nothing
    BY <1>1, <1>2, <1>8 DEF AfterLow
  <2>4. ASSUME NEW v \in pages, v < LinkBase + 2 * Entries PROVE Walk(v)' = v - LinkBase
    <3>0. "kernel0" # Nothing /\ "kernel1" # Nothing
      BY BootAssumption DEF TableName
    <3>1. CASE v - LinkBase < Entries
      <4>1. v \div Entries = K /\ new0[v % Entries] = v - LinkBase
        BY <1>6, <2>4, <3>1, KernelPlace
      <4> QED
        BY <1>7, <1>8, <3>0, <4>1 DEF Walk
    <3>2. CASE ~(v - LinkBase < Entries)
      <4>1. v \div Entries = K + 1 /\ new1[v % Entries] = v - LinkBase
        BY <1>6, <2>4, <3>2, KernelPlace
      <4> QED
        BY <1>7, <1>8, <3>0, <4>1 DEF Walk
    <3> QED
      BY <3>1, <3>2
  <2> QED
    BY <2>2, <2>3, <2>4
<1>11. TagsKnown' /\ ReservedKnown'
  BY <1>1, <1>2 DEF TagsKnown, ReservedKnown
<1> QED
  BY <1>1, <1>9, <1>10, <1>11 DEF BootInv, Blank, AfterLow, BootKeepsMemory, KernelMapped,
                                  OffersUsableMemory

LEMMA InfoLengthNatural ==
  ASSUME info.map \in Seq(MapEntry), InfoEntries # {}
  PROVE  InfoLength \in Nat
<1> DEFINE i == CHOOSE i \in InfoEntries : \A j \in InfoEntries : i <= j
<1>1. InfoEntries \subseteq Nat
  BY DEF InfoEntries
<1>2. i \in InfoEntries
  BY <1>1, LeastNumber
<1> HIDE DEF i
<1>3. info.map[i] \in MapEntry
  BY <1>2 DEF InfoEntries
<1> QED
  BY <1>3 DEF InfoLength, i, MapEntry

(* An entry that stays in one table below the kernel ends below 4 GB, so     *)
(* what is mapped from its beginning is the entry.                          *)
LEMMA MappedIsArea ==
  ASSUME info.tags = info.memmapAt, info.tags \in Nat, InfoLength \in Nat, InfoInOneTable
  PROVE  MappedInfo = InfoArea
<1> DEFINE a == info.tags  l == InfoLength  E == Entries  S == SpacePages  K == KernelTable
           d == a \div E
<1>1. /\ a \in Nat /\ l \in Nat /\ E \in Nat \ {0} /\ S \in Nat \ {0} /\ K \in Nat
      /\ LinkBase = E * K /\ LinkBase < S /\ a < LinkBase
      /\ \A p, q \in a..(a + l - 1) : p \div E = q \div E
  BY KernelTables, BootAssumption DEF InfoInOneTable, InfoArea
<1>2. MappedInfo = a..(((a + l) % S) - 1) /\ InfoArea = a..(a + l - 1)
  BY DEF MappedInfo, InfoArea
<1> HIDE DEF a, l, E, S, K
<1>3. d \in Nat /\ a % E \in 0..(E - 1) /\ a = E * d + (a % E)
  BY <1>1, DivSplits
<1>4. d < K
  <2> DEFINE x == a % E
  <2>1. x \in 0..(E - 1) /\ a = E * d + x
    BY <1>3
  <2> HIDE DEF x, d
  <2>2. d >= K => E * d >= E * K
    BY <1>1, <1>3
  <2> QED
    BY <1>1, <1>3, <2>1, <2>2
<1>5. a + l <= LinkBase
  <2>1. CASE l = 0
    BY <1>1, <2>1
  <2>2. CASE l # 0
    <3> DEFINE z == a + l - 1  y == z % E
    <3>1. z \in Nat /\ z \in a..(a + l - 1) /\ a \in a..(a + l - 1)
      BY <1>1, <2>2
    <3>2. z \div E = d
      BY <1>1, <3>1
    <3> HIDE DEF z
    <3>3. z = E * d + y /\ y \in 0..(E - 1)
      BY <1>1, <3>1, <3>2, DivSplits
    <3> HIDE DEF y, d
    <3>4. E * (d + 1) <= E * K
      BY <1>1, <1>3, <1>4
    <3>5. E * (d + 1) = E * d + E
      BY <1>1, <1>3
    <3> QED
      BY <1>1, <1>3, <3>1, <3>3, <3>4, <3>5 DEF z
  <2> QED
    BY <2>1, <2>2
<1>6. (a + l) % S = a + l
  <2>1. a + l \in Nat /\ a + l \in 0..(S - 1) /\ a + l = S * 0 + (a + l) /\ 0 \in Nat
    BY <1>1, <1>5
  <2> QED
    BY <1>1, <2>1, DivIs
<1>7. MappedInfo = a..(a + l - 1)
  BY <1>1, <1>2, <1>6
<1>8. InfoArea = a..(a + l - 1)
  BY <1>2
<1> QED
  BY <1>7, <1>8, Zenon

(* stage1MapBootloader: the table of the information is the one of low       *)
(* memory, where it agrees with what is there, or a table of its own.        *)
LEMMA BootloaderKeeps ==
  ASSUME BootInv, Stage1MapBootloader
  PROVE  BootInv'
<1> DEFINE d == info.tags \div Entries  t == IF directory[d] = Nothing THEN "boot" ELSE directory[d]
           old == pageTables[t]  ent == Masked10(MappedInfo)  fr == Same(MappedInfo)
           new == Filled(old, ent, fr)
<1>1. /\ boot = "boot" /\ boot' \in {"stage2", "earlyPanic"} /\ info' = info /\ todo' = todo
      /\ memoryMap' = memoryMap /\ reserved' = reserved /\ directory' = [directory EXCEPT ![d] = t]
      /\ pageTables' = pageTables \/ pageTables' = [pageTables EXCEPT ![t] = new]
      /\ boot' = "stage2" => pageTables' = [pageTables EXCEPT ![t] = new] /\ InfoEntries # {}
  BY DEF Stage1MapBootloader, Stage1
<1>2. TablesTyped /\ InfoTyped /\ AfterHigh /\ TagsKnown /\ ReservedKnown
  BY DEF BootInv
<1>3. /\ info.map \in Seq(MapEntry) /\ info.tags \in Nat /\ Entries \in Nat \ {0} /\ LinkBase \in Nat
      /\ SpacePages \in Nat
      /\ EarlyEnd \in Nat /\ EarlyEnd <= Entries
  BY <1>1, <1>2, BootAssumption DEF InfoTyped
<1>4. d \in Nat /\ info.tags = Entries * d + (info.tags % Entries) /\ info.tags % Entries \in 0..(Entries - 1)
  BY <1>3, DivSplits
<1>5. d \in Directory => t \in TableName
  BY <1>2 DEF TablesTyped, TableName
<1>6. TablesTyped'
  <2> HIDE DEF d, t, ent, fr
  <2>1. directory' \in [Directory -> TableName \cup {Nothing}]
    <3>1. CASE d \in Directory
      BY <1>1, <1>2, <1>5, <3>1 DEF TablesTyped
    <3>2. CASE d \notin Directory
      BY <1>1, <1>2, <3>2 DEF TablesTyped
    <3> QED
      BY <3>1, <3>2
  <2>2. DOMAIN new = DOMAIN pageTables[t]
    BY FilledDomain
  <2> HIDE DEF new
  <2>3. DOMAIN pageTables' = TableName /\ \A u \in TableName : DOMAIN pageTables'[u] = 0..(Entries - 1)
    BY <1>1, <1>2, <2>2 DEF TablesTyped
  <2> QED
    BY <2>1, <2>3 DEF TablesTyped
<1>7. InfoTyped' /\ TagsKnown' /\ ReservedKnown'
  BY <1>1, <1>2 DEF InfoTyped, TagsKnown, ReservedKnown
<1>8. KernelMapped'
  <2>0. InfoArea' = InfoArea /\ InfoInOneTable' = InfoInOneTable
    BY <1>1 DEF InfoArea, InfoLength, InfoEntries, InfoInOneTable
  <2> SUFFICES ASSUME boot' = "stage2", info.tags < LinkBase
               PROVE  /\ \A v \in LinkStart..(LinkEnd - 1) : v < LinkBase + 2 * Entries => Walk(v)' = v - LinkBase
                      /\ (info.tags = info.memmapAt /\ InfoInOneTable) =>
                           /\ \A v \in InfoArea \cup (1..(EarlyEnd - 1)) : Walk(v)' = v
                           /\ 0 \notin InfoArea => Walk(0)' = Nothing
    BY <1>1, <2>0 DEF KernelMapped, InfoInOneTable
  <2>1. /\ KernelTable \in Nat /\ LinkBase = Entries * KernelTable /\ 0 \in Directory
        /\ KernelTable \in Directory /\ KernelTable + 1 \in Directory
    BY KernelTables
  <2>2. /\ LowTable /\ directory[KernelTable] = "kernel0" /\ directory[KernelTable + 1] = "kernel1"
        /\ \A c \in Directory \ {0, KernelTable, KernelTable + 1} : directory[c] = Nothing
        /\ \A v \in LinkStart..(LinkEnd - 1) : v < LinkBase + 2 * Entries => Walk(v) = v - LinkBase
    BY <1>1, <1>2, <1>3 DEF AfterHigh
  <2>3. d < KernelTable /\ d \in Directory
    <3> HIDE DEF d
    <3> DEFINE r == info.tags % Entries
    <3>1. info.tags = Entries * d + r /\ r \in 0..(Entries - 1)
      BY <1>4
    <3> HIDE DEF r
    <3>2. Entries * d < Entries * KernelTable
      BY <1>3, <1>4, <2>1, <3>1
    <3>3. d < KernelTable
      <4>1. d >= KernelTable => Entries * d >= Entries * KernelTable
        BY <1>3, <1>4, <2>1
      <4> QED
        BY <1>3, <1>4, <2>1, <3>2, <4>1
    <3>4. d \in Directory
      <4> DEFINE last == SpacePages \div Entries - 1
      <4>1. Directory = 0..last /\ KernelTable \in 0..last
        BY <2>1 DEF Directory
      <4>2. SpacePages \div Entries \in Nat
        BY <1>3, BootAssumption, DivSplits
      <4>3. last \in Int
        BY <4>2
      <4> HIDE DEF last
      <4> QED
        BY <1>4, <3>3, <4>1, <4>3
    <3> QED
      BY <3>3, <3>4
  <2>4. /\ d = 0 => t = "low"
        /\ d # 0 => t = "boot"
        /\ t \in TableName \ {"kernel0", "kernel1"}
    <3>1. "low" # Nothing
      BY BootAssumption DEF TableName
    <3>2. d # KernelTable /\ d # KernelTable + 1
      BY <1>4, <2>1, <2>3
    <3> QED
      BY <2>2, <2>3, <3>1, <3>2 DEF LowTable, TableName
  <2>5. DOMAIN old = 0..(Entries - 1)
    BY <1>2, <2>4 DEF TablesTyped
  <2>10. /\ pageTables'[t] = new
         /\ \A u \in TableName : u # t => pageTables'[u] = pageTables[u]
         /\ directory'[d] = t /\ \A c \in Directory : c # d => directory'[c] = directory[c]
    <3> HIDE DEF t, d
    <3>1. t \in DOMAIN pageTables /\ d \in DOMAIN directory /\ DOMAIN pageTables = TableName
          /\ DOMAIN directory = Directory
      BY <1>2, <2>3, <2>4 DEF TablesTyped
    <3> QED
      BY <1>1, <3>1
  <2>11. t # Nothing
    BY <2>4, BootAssumption
  <2> HIDE DEF t
  <2>12. ASSUME NEW v \in LinkStart..(LinkEnd - 1), v < LinkBase + 2 * Entries
         PROVE  Walk(v)' = v - LinkBase
    <3> DEFINE c == v \div Entries
    <3>1. c \in {KernelTable, KernelTable + 1}
      BY <2>12, KernelPlace
    <3>2. c \in Directory /\ c # d /\ directory[c] \in {"kernel0", "kernel1"}
      BY <1>4, <2>1, <2>2, <2>3, <3>1
    <3>3. directory'[c] = directory[c] /\ pageTables'[directory[c]] = pageTables[directory[c]]
      BY <2>4, <2>10, <3>2 DEF TableName
    <3>4. Walk(v)' = Walk(v)
      BY <3>3 DEF Walk
    <3> QED
      BY <2>2, <2>12, <3>4
  <2>13. ASSUME info.tags = info.memmapAt, InfoInOneTable
         PROVE  /\ \A v \in InfoArea \cup (1..(EarlyEnd - 1)) : Walk(v)' = v
                /\ 0 \notin InfoArea => Walk(0)' = Nothing
    <3>1. InfoLength \in Nat
      BY <1>1, <1>3, InfoLengthNatural
    <3>2. MappedInfo = InfoArea /\ \A p, q \in MappedInfo : p \div Entries = q \div Entries
      BY <1>3, <2>13, <3>1, MappedIsArea DEF InfoInOneTable
    <3>3. PICK b \in Int : MappedInfo = info.tags..b
      BY <1>3, <2>13, <3>1, <3>2 DEF InfoArea
    <3>6a. \A v \in MappedInfo : v \in Nat /\ info.tags \in MappedInfo
      BY <1>3, <3>3
    <3>7. \A v \in MappedInfo : v \div Entries = d /\ v = Entries * d + (v % Entries) /\ v % Entries \in 0..(Entries - 1)
      <4> SUFFICES ASSUME NEW v \in MappedInfo
                   PROVE  v \div Entries = d /\ v = Entries * d + (v % Entries) /\ v % Entries \in 0..(Entries - 1)
        OBVIOUS
      <4>1. info.tags \in MappedInfo
        BY <3>6a
      <4>2. v \div Entries = d
        BY <3>2, <4>1
      <4>3. v = Entries * (v \div Entries) + (v % Entries) /\ v % Entries \in 0..(Entries - 1)
        BY <1>3, <3>6a, DivSplits
      <4> QED
        BY <4>2, <4>3
    <3>8. \A v \in MappedInfo : new[v % Entries] = v
      <4> SUFFICES ASSUME NEW v \in MappedInfo PROVE new[v % Entries] = v
        OBVIOUS
      <4>1. \A q \in MappedInfo : ent[q] = q % Entries /\ fr[q] = q
        BY DEF Masked10, Same
      <4>2. DOMAIN ent = MappedInfo
        BY DEF Masked10
      <4>3. \A q \in MappedInfo : q % Entries = v % Entries => q = v
        <5> SUFFICES ASSUME NEW q \in MappedInfo, q % Entries = v % Entries PROVE q = v
          OBVIOUS
        <5> DEFINE x == q % Entries  y == v % Entries  z == Entries * d
        <5>1. q = z + x /\ v = z + y /\ x = y
          BY <3>7
        <5> HIDE DEF x, y, z
        <5> QED
          BY <5>1
      <4> HIDE DEF ent, fr, old
      <4>4. Filled(old, ent, fr)[ent[v]] = fr[v]
        <5>1. v \in DOMAIN ent /\ v \in Int /\ ent[v] \in DOMAIN old
          BY <2>5, <3>6a, <3>7, <4>1, <4>2
        <5>2. \A q \in DOMAIN ent : ent[q] = ent[v] => q = v
          BY <4>1, <4>2, <4>3
        <5> QED
          BY <5>1, <5>2, FilledHit
      <4> QED
        BY <4>1, <4>4
    <3>9. \A e \in 0..(Entries - 1) : (\A v \in MappedInfo : v % Entries # e) => new[e] = old[e]
      <4> SUFFICES ASSUME NEW e \in 0..(Entries - 1), \A v \in MappedInfo : v % Entries # e
                   PROVE  new[e] = old[e]
        OBVIOUS
      <4>1. \A q \in DOMAIN ent : ent[q] # e
        BY DEF Masked10
      <4> HIDE DEF ent, fr, old
      <4>2. e \in DOMAIN old
        BY <2>5
      <4>3. Filled(old, ent, fr)[e] = old[e]
        BY <4>1, <4>2, FilledMiss
      <4> QED
        BY <4>3
    <3>13. ASSUME NEW v \in MappedInfo PROVE Walk(v)' = v
      BY <3>7, <3>8, <2>10, <2>11 DEF Walk
    <3>14. ASSUME NEW v \in 0..(Entries - 1), v \notin MappedInfo PROVE Walk(v)' = pageTables["low"][v]
      <4>1. v \div Entries = 0 /\ v % Entries = v
        BY LowPlace
      <4>2. directory[0] = "low" /\ "low" # Nothing
        BY <2>2, BootAssumption DEF LowTable, TableName
      <4>3. CASE d = 0
        <5>1. \A q \in MappedInfo : q % Entries # v
          <6> SUFFICES ASSUME NEW q \in MappedInfo, q % Entries = v PROVE FALSE
            OBVIOUS
          <6> DEFINE x == q % Entries  z == Entries * d
          <6>1. q = z + x /\ z = 0 /\ x = v /\ v \in Int
            BY <1>3, <3>7, <4>3
          <6> HIDE DEF x, z
          <6> QED
            BY <3>14, <6>1
        <5>2. new[v] = old[v] /\ t = "low"
          BY <2>4, <3>9, <4>3, <5>1
        <5> QED
          BY <2>10, <4>1, <4>2, <4>3, <5>2 DEF Walk
      <4>4. CASE d # 0
        BY <2>1, <2>4, <2>10, <4>1, <4>2, <4>4 DEF Walk, TableName
      <4> QED
        BY <4>3, <4>4
    <3>15. ASSUME NEW v \in 1..(EarlyEnd - 1) PROVE Walk(v)' = v
      <4>1. v \in 0..(Entries - 1) /\ pageTables["low"][v] = v
        BY <1>3, <2>2 DEF LowTable
      <4> QED
        BY <3>13, <3>14, <4>1
    <3>16. ASSUME 0 \notin MappedInfo PROVE Walk(0)' = Nothing
      <4>1. 0 \in 0..(Entries - 1) /\ pageTables["low"][0] = Nothing
        BY <1>3, <2>2 DEF LowTable
      <4> QED
        BY <3>14, <3>16, <4>1
    <3> QED
      BY <3>2, <3>13, <3>15, <3>16, ZenonT(30)
  <2> QED
    BY <2>12, <2>13
<1>9. OffersUsableMemory' /\ Blank' /\ AfterLow' /\ AfterHigh'
  BY <1>1 DEF OffersUsableMemory, Blank, AfterLow, AfterHigh
<1> QED
  BY <1>6, <1>7, <1>8, <1>9 DEF BootInv, BootKeepsMemory

(* From stage 2 on the tables and the information stay.                     *)
LEMMA TablesStay ==
  ASSUME BootInv, boot \in {"stage2", "parse", "memory"},
         boot' \in {"parse", "panic", "fault", "memory", "up"}, boot = "stage2" => boot' = "parse",
         boot' = "parse" => boot \in {"stage2", "parse"},
         info' = info, directory' = directory, pageTables' = pageTables
  PROVE  TablesTyped' /\ InfoTyped' /\ Blank' /\ AfterLow' /\ AfterHigh' /\ KernelMapped'
<1>1. TablesTyped' /\ InfoTyped' /\ Blank' /\ AfterLow' /\ AfterHigh'
  BY DEF BootInv, TablesTyped, InfoTyped, Blank, AfterLow, AfterHigh
<1>2. InfoArea' = InfoArea /\ InfoInOneTable' = InfoInOneTable /\ \A v : Walk(v)' = Walk(v)
  BY DEF InfoArea, InfoInOneTable, InfoLength, InfoEntries, Walk
<1>3. KernelMapped'
  BY <1>2 DEF BootInv, BootKeepsMemory, KernelMapped
<1> QED
  BY <1>1, <1>3

LEMMA TailOfOne == ASSUME NEW a PROVE Tail(<<a>>) = <<>>
  OBVIOUS
LEMMA TailOfTwo == ASSUME NEW a, NEW b PROVE Tail(<<a, b>>) = <<b>>
  OBVIOUS
LEMMA TailOfThree == ASSUME NEW a, NEW b, NEW c PROVE Tail(<<a, b, c>>) = <<b, c>>
  OBVIOUS

LEMMA ParseKeeps ==
  ASSUME BootInv, EnterKernel \/ ParseFaults \/ ParseMemoryMap \/ ParseCommandLine(<<"a", "b">>) \/ ParseOther
  PROVE  BootInv'
<1>1. /\ info' = info /\ directory' = directory /\ pageTables' = pageTables /\ reserved' = reserved
      /\ boot \in {"stage2", "parse"} /\ boot' \in {"parse", "panic", "fault"} /\ (boot = "stage2" => boot' = "parse")
  BY DEF EnterKernel, ParseFaults, ParseMemoryMap, ParseCommandLine, ParseOther, Parse, Stage1
<1>2. TablesTyped' /\ InfoTyped' /\ Blank' /\ AfterLow' /\ AfterHigh' /\ KernelMapped'
  BY <1>1, TablesStay
<1>3. ReservedKnown' /\ OffersUsableMemory'
  BY <1>1 DEF BootInv, ReservedKnown, OffersUsableMemory
<1>4. TagsKnown'
  <2>1. Sections' = Sections
    BY <1>1 DEF Sections, Section
  <2>2. CASE EnterKernel \/ ParseFaults
    BY <2>2 DEF EnterKernel, ParseFaults, Stage1, BootInv, TagsKnown
  <2>3. CASE ParseMemoryMap
    <3>1. /\ boot = "parse" /\ todo # <<>> /\ Head(todo) = "memmap" /\ todo' = Tail(todo)
          /\ boot' = "panic" \/ memoryMap' = Sections
      BY <2>3 DEF ParseMemoryMap, Parse, Sections
    <3>2. todo \in {<<"memmap", "cmdline">>, <<"memmap">>}
      BY <3>1 DEF BootInv, TagsKnown, Orders
    <3>3. todo' \in {<<"cmdline">>, <<>>}
      <4>1. Tail(<<"memmap", "cmdline">>) = <<"cmdline">> /\ Tail(<<"memmap">>) = <<>>
        BY TailOfOne, TailOfTwo
      <4>2. \A x : x \in {<<"memmap", "cmdline">>, <<"memmap">>} => Tail(x) \in {<<"cmdline">>, <<>>}
        BY <4>1, Zenon
      <4> QED
        BY <3>1, <3>2, <4>2, Zenon
    <3> QED
      BY <1>1, <2>1, <3>1, <3>3 DEF TagsKnown
  <2>4. CASE ParseCommandLine(<<"a", "b">>) \/ ParseOther
    <3>1. /\ boot = "parse" /\ boot' = "parse" /\ todo # <<>> /\ Head(todo) # "memmap" /\ todo' = Tail(todo)
          /\ memoryMap' = memoryMap
      BY <2>4 DEF ParseCommandLine, ParseOther, Parse
    <3>2. \/ todo \in {<<"cmdline", "framebuffer", "memmap">>, <<"framebuffer", "memmap">>}
          \/ todo = <<"cmdline">> /\ memoryMap = Sections
      BY <3>1 DEF BootInv, TagsKnown, Orders
    <3>3. \/ todo' \in {<<"framebuffer", "memmap">>, <<"memmap">>}
          \/ todo' = <<>> /\ memoryMap = Sections
      <4>1. /\ Tail(<<"cmdline", "framebuffer", "memmap">>) = <<"framebuffer", "memmap">>
            /\ Tail(<<"framebuffer", "memmap">>) = <<"memmap">> /\ Tail(<<"cmdline">>) = <<>>
        BY TailOfOne, TailOfTwo, TailOfThree
      <4>2. todo' = Tail(todo)
        BY <3>1
      <4> QED
        BY <3>2, <4>1, <4>2, Zenon
    <3> QED
      BY <2>1, <3>1, <3>3 DEF TagsKnown
  <2> QED
    BY <2>2, <2>3, <2>4
<1> QED
  BY <1>2, <1>3, <1>4 DEF BootInv, BootKeepsMemory

LEMMA PhysicalKeeps ==
  ASSUME BootInv, InitializePhysical
  PROVE  BootInv'
<1>1. /\ info' = info /\ directory' = directory /\ pageTables' = pageTables /\ memoryMap' = memoryMap
      /\ boot = "parse" /\ todo = <<>> /\ boot' = "memory"
  BY DEF InitializePhysical
<1>2. TablesTyped' /\ InfoTyped' /\ Blank' /\ AfterLow' /\ AfterHigh' /\ KernelMapped'
  BY <1>1, TablesStay
<1>3. memoryMap = Sections /\ reserved = AllPages
  BY <1>1 DEF BootInv, TagsKnown, ReservedKnown, Orders
<1>4. UsableFrames' = UsableFrames
  BY <1>1 DEF UsableFrames, Sections, Section, Initialized, FramesOf
<1>5. reserved' = AllPages \ UsableFrames
  BY <1>3 DEF InitializePhysical, UsableFrames
<1> QED
  BY <1>1, <1>2, <1>4, <1>5 DEF BootInv, BootKeepsMemory, TagsKnown, ReservedKnown, OffersUsableMemory

(* A section below 4 GB has the pages of its entry, unless it is not         *)
(* initialised, and then the entry is empty or begins at page 0.             *)
LEMMA SectionIs ==
  ASSUME NEW n \in MapEntry, n.base + n.length <= SpacePages
  PROVE  /\ Section(n).type = n.type
         /\ Initialized(Section(n)) <=> n.base # 0 /\ n.length # 0
         /\ Initialized(Section(n)) => FramesOf(Section(n)) = n.base..(n.base + n.length - 1)
<1> DEFINE b == n.base  l == n.length  S == SpacePages
<1>1. b \in Nat /\ l \in Nat /\ S \in Nat \ {0} /\ b + l <= S
  BY BootAssumption DEF MapEntry
<1>2. /\ Section(n).base = b % S /\ Section(n).length = l % S /\ Section(n).type = n.type
  BY DEF Section
<1> HIDE DEF b, l, S
<1>3. \A a \in Nat : a < S => a % S = a
  <2> SUFFICES ASSUME NEW a \in Nat, a < S PROVE a % S = a
    OBVIOUS
  <2>1. a \in 0..(S - 1) /\ a = S * 0 + a /\ 0 \in Nat
    BY <1>1
  <2> QED
    BY <1>1, <2>1, DivIs
<1>4. S % S = 0
  <2>1. S \in Nat /\ S = S * 1 + 0 /\ 1 \in Nat /\ 0 \in 0..(S - 1)
    BY <1>1
  <2> QED
    BY <1>1, <2>1, DivIs
<1>5. CASE b # 0 /\ l # 0
  <2>1. b < S /\ l < S
    BY <1>1, <1>5
  <2>2. b % S = b /\ l % S = l
    BY <1>1, <1>3, <2>1
  <2> QED
    <3>1. \A f \in b..(b + l - 1) : f % S = f
      BY <1>1, <1>3
    <3>2. {f % S : f \in b..(b + l - 1)} = b..(b + l - 1)
      BY <3>1
    <3>3. FramesOf(Section(n)) = {f % S : f \in b..(b + l - 1)}
      BY <1>2, <2>2 DEF FramesOf, S
    <3> QED
      BY <1>2, <1>5, <2>2, <3>2, <3>3 DEF Initialized, b, l
<1>6. CASE b = 0
  <2>1. b % S = 0
    BY <1>1, <1>3, <1>6
  <2> QED
    BY <1>2, <1>6, <2>1 DEF Initialized, b
<1>7. CASE l = 0
  <2>1. l % S = 0
    BY <1>1, <1>3, <1>7
  <2> QED
    BY <1>2, <1>7, <2>1 DEF Initialized, l
<1> QED
  BY <1>5, <1>6, <1>7

LEMMA MemoryKeeps ==
  ASSUME BootInv, InitializeMemory
  PROVE  BootInv'
<1>1. /\ info' = info /\ directory' = directory /\ pageTables' = pageTables
      /\ boot = "memory" /\ boot' = "up" /\ reserved' = reserved \cup MapEarlyMem \cup MapKernel
  BY DEF InitializeMemory
<1>2. TablesTyped' /\ InfoTyped' /\ Blank' /\ AfterLow' /\ AfterHigh' /\ KernelMapped'
  BY <1>1, TablesStay
<1>3. info.map \in Seq(MapEntry) /\ reserved = AllPages \ UsableFrames
  BY <1>1 DEF BootInv, InfoTyped, ReservedKnown
<1>4. OffersUsableMemory'
  <2>0. Below4G' = Below4G
    BY <1>1 DEF Below4G
  <2> DEFINE In(f, i) == f \in info.map[i].base..(info.map[i].base + info.map[i].length - 1)
             Usable(i) == info.map[i].type = "usable" /\ info.map[i].base # 0
             OwnFrames == (LinkStart - LinkBase)..(LinkEnd - LinkBase - 1)
  <2> SUFFICES ASSUME Below4G, NEW f \in AllPages
               PROVE  f \notin reserved' <=>
                        /\ \E i \in DOMAIN info.map : Usable(i) /\ In(f, i)
                        /\ f >= EarlyStart /\ f \notin OwnFrames
    BY <1>1, <2>0 DEF OffersUsableMemory
  <2>1. f \in UsableFrames <=> \E i \in DOMAIN info.map : Usable(i) /\ In(f, i)
    <3>1. f \in UsableFrames <=> \E s \in BX!ToSet(Sections) : Initialized(s) /\ s.type = "usable" /\ f \in FramesOf(s)
      BY DEF UsableFrames
    <3>2. f \in UsableFrames <=> \E i \in DOMAIN info.map :
                                   /\ Initialized(Section(info.map[i]))
                                   /\ Section(info.map[i]).type = "usable"
                                   /\ f \in FramesOf(Section(info.map[i]))
      BY <3>1 DEF BX!ToSet, Sections
    <3>3. ASSUME NEW i \in DOMAIN info.map
          PROVE  (/\ Initialized(Section(info.map[i]))
                  /\ Section(info.map[i]).type = "usable"
                  /\ f \in FramesOf(Section(info.map[i]))) <=> Usable(i) /\ In(f, i)
      <4> DEFINE n == info.map[i]
      <4>1. n \in MapEntry /\ n.base + n.length <= SpacePages
        BY <1>3 DEF Below4G
      <4> HIDE DEF n
      <4>2. /\ Section(n).type = n.type
            /\ Initialized(Section(n)) <=> n.base # 0 /\ n.length # 0
            /\ Initialized(Section(n)) => FramesOf(Section(n)) = n.base..(n.base + n.length - 1)
        BY <4>1, SectionIs
      <4>3. n.base \in Nat /\ n.length \in Nat
        BY <4>1 DEF MapEntry
      <4>4. n.length = 0 => f \notin n.base..(n.base + n.length - 1)
        BY <4>3
      <4>5. (Initialized(Section(n)) /\ Section(n).type = "usable" /\ f \in FramesOf(Section(n)))
            <=> (n.type = "usable" /\ n.base # 0 /\ f \in n.base..(n.base + n.length - 1))
        BY <4>2, <4>4
      <4> QED
        BY <4>5 DEF n
    <3> QED
      BY <3>2, <3>3
  <2>2. f \in Nat /\ EarlyStart \in Nat /\ LinkBase \in Nat /\ LinkStart \in Nat /\ LinkEnd \in Nat
    BY BootAssumption DEF AllPages
  <2>3. f \notin MapEarlyMem <=> f >= EarlyStart
    BY <2>2 DEF MapEarlyMem
  <2>4. f \in MapKernel <=> f \in OwnFrames
    <3>1. ASSUME f \in MapKernel PROVE f \in OwnFrames
      BY <2>2, <3>1 DEF MapKernel
    <3>2. ASSUME f \in OwnFrames PROVE f \in MapKernel
      <4>1. f + LinkBase \in LinkStart..(LinkEnd - 1) /\ f = (f + LinkBase) - LinkBase
        BY <2>2, <3>2
      <4> QED
        BY <4>1 DEF MapKernel
    <3> QED
      BY <3>1, <3>2
  <2> QED
    BY <1>1, <1>3, <2>1, <2>3, <2>4
<1> QED
  BY <1>1, <1>2, <1>4 DEF BootInv, BootKeepsMemory, TagsKnown, ReservedKnown

(* stivale2.c, Handoff.cpp and Memory::init, for any memory map of the       *)
(* bootloader, any sizes of the tables and any kernel that linker.ld admits: *)
(* stage 2 runs with the pages of the kernel that two tables reach mapped    *)
(* and, if the tags begin with their entry, with the early kernel and all of *)
(* the entry; and the frames offered at the end are the usable ones that     *)
(* nothing of the kernel lies in.                                           *)
THEOREM BootAlwaysKeepsMemory == BootSpec => []BootKeepsMemory
<1>1. BootInv /\ [BootNext]_bootVars => BootInv'
  <2> SUFFICES ASSUME BootInv, [BootNext]_bootVars PROVE BootInv'
    OBVIOUS
  <2>1. CASE UNCHANGED bootVars
    <3>1. /\ boot' = boot /\ info' = info /\ directory' = directory /\ pageTables' = pageTables
          /\ todo' = todo /\ memoryMap' = memoryMap /\ reserved' = reserved
      BY <2>1 DEF bootVars
    <3>2. TablesTyped' /\ InfoTyped' /\ Blank' /\ AfterLow'
      BY <3>1 DEF BootInv, TablesTyped, InfoTyped, Blank, AfterLow, LowTable
    <3>3. \A v : Walk(v)' = Walk(v)
      BY <3>1 DEF Walk
    <3>4. AfterHigh'
      BY <3>1, <3>3 DEF BootInv, AfterHigh, LowTable
    <3>5. Sections' = Sections /\ InfoArea' = InfoArea /\ InfoInOneTable' = InfoInOneTable /\ Below4G' = Below4G
      BY <3>1 DEF Sections, Section, InfoArea, InfoInOneTable, InfoLength, InfoEntries, Below4G
    <3>6. UsableFrames' = UsableFrames
      BY <3>5 DEF UsableFrames, Initialized, FramesOf
    <3>7. TagsKnown' /\ ReservedKnown'
      BY <3>1, <3>5, <3>6 DEF BootInv, TagsKnown, ReservedKnown
    <3>8. KernelMapped'
      BY <3>1, <3>3, <3>5 DEF BootInv, BootKeepsMemory, KernelMapped
    <3>9. OffersUsableMemory'
      BY <3>1, <3>5 DEF BootInv, BootKeepsMemory, OffersUsableMemory
    <3> QED
      BY <3>2, <3>4, <3>7, <3>8, <3>9 DEF BootInv, BootKeepsMemory
  <2>2. ASSUME boot = "off", NEW map \in MemoryMaps, NEW i \in DOMAIN map,
               NEW order \in {<<>>, <<"memmap", "cmdline">>},
               Load(map, map[i].base % SpacePages, map[i].base % SpacePages, order)
        PROVE  BootInv'
    BY <2>2, LoadKeeps
  <2>3. ASSUME boot = "off", NEW map \in MemoryMaps, NEW i \in DOMAIN map, NEW tags \in AllPages,
               Load(map, tags, map[i].base % SpacePages, <<"cmdline", "framebuffer", "memmap">>)
        PROVE  BootInv'
    BY <2>3, LoadKeeps
  <2> QED
    BY <2>1, <2>2, <2>3, LowKeeps, HighKeeps, BootloaderKeeps, ParseKeeps, PhysicalKeeps, MemoryKeeps DEF BootNext
<1>2. BootInv => BootKeepsMemory
  BY DEF BootInv
<1> QED
  BY BootStart, <1>1, <1>2, PTL DEF BootSpec
=============================================================================
