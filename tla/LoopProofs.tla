----------------------------- MODULE LoopProofs -----------------------------
(***************************************************************************)
(* The parts whose work is in their loops: the search of the virtual        *)
(* address manager, the string functions and the conversions of printf, for *)
(* any size of memory, any strings and any arguments.                       *)
(***************************************************************************)
EXTENDS Virtual, Strings, Printf, SequenceTheorems, WellFoundedInduction, TLAPS

(***************************************************************************)
(* Induction and loops.  Induction is over a set of numbers, since no       *)
(* operator can be a parameter here; and what a loop computes is the        *)
(* function of the rounds that its definition chooses, once there is one.   *)
(***************************************************************************)
(* A set of natural numbers that is not empty has a least element.          *)
LEMMA LeastNumber ==
  ASSUME NEW F, F \subseteq Nat, F # {}
  PROVE  \E i \in F : \A j \in F : i <= j
<1> DEFINE R == OpToRel(<, Nat)
<1>1. IsWellFoundedOn(R, Nat)
  BY NatLessThanWellFounded
<1>2. \A i, j \in Nat : <<j, i>> \in R <=> j < i
  BY DEF OpToRel
<1> HIDE DEF R
<1>3. PICK i \in F : \A j \in F : ~(<<j, i>> \in R)
  BY <1>1, WFMin
<1>4. ASSUME NEW j \in F PROVE i <= j
  <2>1. i \in Nat /\ j \in Nat /\ ~(<<j, i>> \in R)
    BY <1>3
  <2>2. ~(j < i)
    BY <1>2, <2>1
  <2> QED
    BY <2>1, <2>2, SMT
<1> QED
  BY <1>4

(* What holds of lo, and of every number after one it holds of, holds of     *)
(* lo..hi: induction, with the numbers it holds of as a set.                 *)
LEMMA CountUp ==
  ASSUME NEW lo \in Int, NEW hi \in Int, NEW Q,
         lo \in Q, \A i \in (lo + 1)..hi : i - 1 \in Q => i \in Q
  PROVE  \A i \in lo..hi : i \in Q
<1> DEFINE F == {k \in Nat : lo + k <= hi /\ lo + k \notin Q}
<1>1. F = {}
  <2> SUFFICES ASSUME F # {} PROVE FALSE
    OBVIOUS
  <2>1. F \subseteq Nat
    OBVIOUS
  <2>2. PICK k \in F : \A j \in F : k <= j
    BY <2>1, LeastNumber
  <2>3. k \in Nat /\ lo + k <= hi /\ lo + k \notin Q
    BY <2>2
  <2>4. k # 0
    <3> SUFFICES ASSUME k = 0 PROVE FALSE
      OBVIOUS
    <3>1. lo + k = lo
      OBVIOUS
    <3> QED BY <2>3, <3>1
  <2>5. k - 1 \in Nat /\ lo + (k - 1) <= hi /\ ~(k <= k - 1) /\ lo + (k - 1) = (lo + k) - 1
        /\ lo + k \in (lo + 1)..hi
    BY <2>3, <2>4
  <2>6. k - 1 \notin F
    BY <2>2, <2>5
  <2>7. lo + (k - 1) \in Q
    BY <2>5, <2>6
  <2> QED BY <2>3, <2>5, <2>7
<1> HIDE DEF F
<1>2. ASSUME NEW i \in lo..hi PROVE i \in Q
  <2>1. i - lo \in Nat /\ lo + (i - lo) = i /\ i <= hi
    OBVIOUS
  <2>2. i - lo \notin F
    BY <1>1
  <2> QED BY <2>1, <2>2 DEF F
<1> QED BY <1>2

(* A loop over lo + 1..hi: f gives the state after each round, beginning with *)
(* base.  There is one if every round keeps the state in A.                  *)
Rounds(A, lo, hi) == [(lo + 1)..hi -> [A -> A]]
IsLoop(f, A, lo, hi, base, round) ==
  f \in [lo..hi -> A] /\ f[lo] = base /\ \A i \in (lo + 1)..hi : f[i] = round[i][f[i - 1]]

LEMMA LoopDefined ==
  ASSUME NEW A, NEW base \in A, NEW lo \in Int, NEW hi \in Int, lo <= hi,
         NEW round \in Rounds(A, lo, hi)
  PROVE  \E f : IsLoop(f, A, lo, hi, base, round)
<1> USE DEF Rounds
<1> DEFINE Up(k, f) == f[lo] = base /\ \A i \in (lo + 1)..k : f[i] = round[i][f[i - 1]]
           Q == {k \in lo..hi : \E f \in [lo..k -> A] : Up(k, f)}
<1>1. lo \in Q
  <2> DEFINE g == [i \in lo..lo |-> base]
  <2>1. g \in [lo..lo -> A] /\ g[lo] = base
    OBVIOUS
  <2>2. Up(lo, g)
    BY <2>1
  <2> HIDE DEF g, Up
  <2> QED BY <2>1, <2>2
<1>2. ASSUME NEW k \in (lo + 1)..hi, k - 1 \in Q PROVE k \in Q
  <2>1. PICK f \in [lo..(k - 1) -> A] : Up(k - 1, f)
    BY <1>2
  <2>2. f[k - 1] \in A /\ round[k][f[k - 1]] \in A
    OBVIOUS
  <2> DEFINE g == [i \in lo..k |-> IF i = k THEN round[k][f[k - 1]] ELSE f[i]]
  <2>3. g \in [lo..k -> A]
    BY <2>2
  <2>4. \A i \in lo..(k - 1) : g[i] = f[i]
    OBVIOUS
  <2>5. g[k] = round[k][f[k - 1]]
    OBVIOUS
  <2> HIDE DEF g
  <2>6. g[lo] = base
    BY <2>1, <2>4
  <2>7. ASSUME NEW i \in (lo + 1)..k PROVE g[i] = round[i][g[i - 1]]
    <3>1. CASE i = k
      BY <2>4, <2>5, <3>1
    <3>2. CASE i # k
      <4>1. i \in (lo + 1)..(k - 1) /\ i \in lo..(k - 1) /\ i - 1 \in lo..(k - 1)
        BY <3>2
      <4>2. f[i] = round[i][f[i - 1]]
        BY <2>1, <4>1
      <4> QED BY <2>4, <4>1, <4>2
    <3> QED BY <3>1, <3>2
  <2>8. Up(k, g)
    BY <2>6, <2>7
  <2> HIDE DEF Up
  <2>9. k \in lo..hi
    OBVIOUS
  <2> QED BY <2>3, <2>8, <2>9
<1> HIDE DEF Q
<1>3. hi \in Q
  <2>1. \A i \in lo..hi : i \in Q
    BY <1>1, <1>2, CountUp
  <2> QED BY <2>1
<1> QED BY <1>3 DEF Q, IsLoop

(***************************************************************************)
(* Virtual::Manager: what the scan of the address space finds.             *)
(***************************************************************************)
LEMMA TableBounds ==
  ASSUME NEW v \in Nat
  PROVE  /\ TableOf(v) \in Nat /\ TableOf(v) * TablePages <= v
         /\ v < (TableOf(v) + 1) * TablePages
<1> DEFINE T == TablePages  p == v \div T  r == v % T
<1>1. T \in Nat /\ T >= 1
  BY VirtualAssumption
<1> HIDE DEF T
<1>2. p \in Int /\ r \in Int /\ 0 <= r /\ r < T /\ v = T * p + r
  BY <1>1, SMT
<1> HIDE DEF p, r
<1>3. p < 0 => T * p <= -T
  BY <1>1, <1>2
<1>4. p \in Nat
  BY <1>1, <1>2, <1>3
<1>5. p * T <= v /\ v < (p + 1) * T
  BY <1>1, <1>2
<1> QED BY <1>4, <1>5 DEF TableOf, p, T

LEMMA TablesApart ==
  ASSUME NEW d \in Int, NEW e \in Int, d < e
  PROVE  (d + 1) * TablePages <= e * TablePages
<1> DEFINE T == TablePages
<1>1. T \in Nat
  BY VirtualAssumption
<1> HIDE DEF T
<1>2. e - (d + 1) \in Nat
  OBVIOUS
<1>3. (e - (d + 1)) * T >= 0
  BY <1>1, <1>2
<1>4. (d + 1) * T <= e * T
  BY <1>1, <1>3
<1> QED BY <1>4 DEF T

LEMMA TableIs ==
  ASSUME NEW v \in Nat, NEW d \in Nat, d * TablePages <= v, v < (d + 1) * TablePages
  PROVE  TableOf(v) = d
<1> DEFINE e == TableOf(v)
<1>1. e \in Nat /\ e * TablePages <= v /\ v < (e + 1) * TablePages /\ TablePages \in Nat
  BY TableBounds, VirtualAssumption
<1> HIDE DEF e
<1>2. CASE d < e
  <2>1. (d + 1) * TablePages <= e * TablePages
    BY <1>1, <1>2, TablesApart
  <2> QED BY <1>1, <2>1
<1>3. CASE e < d
  <2>1. (e + 1) * TablePages <= d * TablePages
    BY <1>1, <1>3, TablesApart
  <2> QED BY <1>1, <2>1
<1> QED BY <1>1, <1>2, <1>3 DEF e

LEMMA TablesOfSpace ==
  /\ VirtualPages = (VirtualPages \div TablePages) * TablePages
  /\ VirtualPages \div TablePages \in Nat
<1> DEFINE T == TablePages  p == VirtualPages \div T  r == VirtualPages % T
<1>1. T \in Nat /\ T >= 1 /\ VirtualPages \in Nat /\ r = 0
  BY VirtualAssumption
<1> HIDE DEF T
<1>2. p \in Int /\ r \in Int /\ VirtualPages = T * p + r
  BY <1>1, SMT
<1> HIDE DEF p, r
<1>3. p < 0 => T * p < 0
  BY <1>1, <1>2
<1>4. p \in Nat /\ VirtualPages = p * T
  BY <1>1, <1>2, <1>3
<1> QED BY <1>4 DEF p, T

LEMMA TableInDirectory ==
  ASSUME NEW v \in VPage
  PROVE  TableOf(v) \in DirectoryIndex
<1> DEFINE p == VirtualPages \div TablePages  e == TableOf(v)
<1>1. p \in Nat /\ VirtualPages = p * TablePages /\ v \in Nat /\ v < VirtualPages /\ TablePages \in Nat
  BY TablesOfSpace, VirtualAssumption DEF VPage
<1>2. e \in Nat /\ e * TablePages <= v
  BY <1>1, TableBounds
<1> HIDE DEF p, e
<1>3. CASE p <= e
  <2>1. p - 1 \in Int /\ p - 1 < e /\ (p - 1) + 1 = p
    BY <1>1, <1>2, <1>3
  <2>2. p * TablePages <= e * TablePages
    BY <1>2, <2>1, TablesApart
  <2>3. p * TablePages \in Int /\ e * TablePages \in Int
    BY <1>1, <1>2
  <2> QED BY <1>1, <1>2, <2>2, <2>3
<1>4. e < p => e \in 0..(p - 1)
  BY <1>1, <1>2
<1> QED BY <1>1, <1>2, <1>3, <1>4 DEF DirectoryIndex, e, p

(***************************************************************************)
(* The search.                                                             *)
(***************************************************************************)
ScanType == [run : Nat, at : Nat, found : BOOLEAN]
SearchStart == TableOf(FirstPage) * TablePages

(* A used page below limit is in the way of a range that begins at v.       *)
InTheWay(v, range, limit) ==
  \E w \in v..(v + range - 1) : w < limit /\ w \in VPage /\ ~Free(w)

(* Before page pos: the run of free pages ends there and is too short, and  *)
(* nothing fits before it.                                                  *)
Searching(acc, pos, range) ==
  /\ ~acc.found /\ acc.run < range /\ SearchStart <= pos - acc.run
  /\ acc.run > 0 => acc.at = pos - acc.run
  /\ \A w \in (pos - acc.run)..(pos - 1) : Free(w)
  /\ \A v \in FirstPage..(pos - acc.run - 1) : InTheWay(v, range, pos - acc.run)

(* The first fit, below end.                                                *)
FirstFit(acc, end, range) ==
  /\ acc.found /\ SearchStart <= acc.at /\ acc.at + range <= end
  /\ \A w \in acc.at..(acc.at + range - 1) : Free(w)
  /\ \A v \in FirstPage..(acc.at - 1) : InTheWay(v, range, acc.at)

Scanned(acc, pos, range) ==
  acc \in ScanType /\ (Searching(acc, pos, range) \/ FirstFit(acc, pos, range))

LEMMA SearchStartIs ==
  /\ SearchStart \in Nat /\ SearchStart <= FirstPage /\ FirstPage \in Nat /\ TablePages \in Nat
  /\ TableOf(FirstPage) \in Nat /\ FirstPage < (TableOf(FirstPage) + 1) * TablePages
<1>1. FirstPage \in Nat /\ TablePages \in Nat
  BY VirtualAssumption
<1>2. /\ TableOf(FirstPage) \in Nat /\ TableOf(FirstPage) * TablePages <= FirstPage
      /\ FirstPage < (TableOf(FirstPage) + 1) * TablePages
  BY <1>1, TableBounds
<1>3. TableOf(FirstPage) * TablePages \in Nat
  BY <1>1, <1>2
<1> QED BY <1>1, <1>2, <1>3 DEF SearchStart

LEMMA ScanInitScans ==
  ASSUME NEW pos \in SearchStart..FirstPage, NEW range \in Nat \ {0}
  PROVE  Scanned(ScanInit, pos, range)
<1>1. ScanInit \in ScanType /\ ScanInit.run = 0 /\ ScanInit.found = FALSE
  BY DEF ScanInit, ScanType
<1>2. Searching(ScanInit, pos, range)
  BY <1>1, SearchStartIs DEF Searching
<1> QED BY <1>1, <1>2 DEF Scanned

(* The run grows by n free pages: it may be long enough now.                *)
LEMMA LongerScans ==
  ASSUME NEW range \in Nat \ {0}, NEW pos \in Nat, NEW acc \in ScanType,
         Searching(acc, pos, range), NEW n \in Nat \ {0},
         \A w \in pos..(pos + n - 1) : Free(w)
  PROVE  Scanned(Longer(acc, pos, n, range), pos + n, range)
<1> DEFINE r == Longer(acc, pos, n, range)  at == pos - acc.run
<1>1. acc.run \in Nat /\ acc.at \in Nat /\ SearchStart \in Nat /\ at \in Nat /\ SearchStart <= at
  BY SearchStartIs DEF ScanType, Searching
<1>2. r = [run |-> acc.run + n, at |-> at, found |-> acc.run + n >= range]
  BY <1>1 DEF Longer, Searching
<1>3. r \in ScanType /\ r.run = acc.run + n /\ r.at = at /\ r.found = (acc.run + n >= range)
  BY <1>1, <1>2 DEF ScanType
<1>4. ASSUME NEW w \in at..(pos + n - 1) PROVE Free(w)
  <2>1. CASE w < pos
    BY <1>1, <2>1 DEF Searching
  <2>2. CASE w >= pos
    BY <1>1, <2>2
  <2> QED BY <1>1, <2>1, <2>2
<1>5. \A v \in FirstPage..(at - 1) : InTheWay(v, range, at)
  BY DEF Searching
<1>6. pos + n - (acc.run + n) = at /\ at + range - 1 \in Int
  BY <1>1
<1> HIDE DEF r, at
<1>7. CASE acc.run + n >= range
  <2>1. at + range <= pos + n
    BY <1>1, <1>7 DEF at
  <2>2. \A w \in at..(at + range - 1) : Free(w)
    BY <1>1, <1>4, <2>1
  <2>3. FirstFit(r, pos + n, range)
    BY <1>1, <1>3, <1>5, <1>7, <2>1, <2>2 DEF FirstFit
  <2> QED BY <1>3, <2>3 DEF Scanned, r
<1>8. CASE ~(acc.run + n >= range)
  <2>1. pos + n - r.run = at /\ r.run < range
    BY <1>1, <1>3, <1>6, <1>8
  <2>2. ~r.found
    BY <1>3, <1>8, Zenon
  <2>3. Searching(r, pos + n, range)
    BY <1>1, <1>3, <1>4, <1>5, <2>1, <2>2 DEF Searching
  <2> QED BY <1>3, <2>3 DEF Scanned, r
<1> QED BY <1>7, <1>8

(* A fit stays one when the search goes on.                                 *)
LEMMA FitStays ==
  ASSUME NEW range \in Nat, NEW p \in Nat, NEW q \in Nat, p <= q, NEW acc \in ScanType,
         FirstFit(acc, p, range)
  PROVE  Scanned(acc, q, range)
<1>1. acc.at \in Nat
  BY DEF ScanType
<1> QED BY <1>1 DEF FirstFit, Scanned

(* One table entry.                                                         *)
LEMMA EntryScans ==
  ASSUME NEW range \in Nat \ {0}, NEW pos \in VPage, NEW acc, Scanned(acc, pos, range),
         present[TableOf(pos)] # NoFrame
  PROVE  Scanned(ScanEntry(acc, pos, range), pos + 1, range)
<1>1. pos \in Nat /\ pos + 1 \in Nat /\ acc \in ScanType
  BY VirtualAssumption DEF VPage, Scanned
<1>2. CASE acc.found
  <2>1. FirstFit(acc, pos, range)
    BY <1>2 DEF Scanned, Searching
  <2>2. ScanEntry(acc, pos, range) = acc
    BY <1>2 DEF ScanEntry
  <2> QED BY <1>1, <2>1, <2>2, FitStays
<1>3. CASE ~acc.found
  <2>1. Searching(acc, pos, range)
    BY <1>3 DEF Scanned, FirstFit
  <2>2. CASE entry[pos] = NoFrame
    <3>1. ScanEntry(acc, pos, range) = Longer(acc, pos, 1, range)
      BY <1>3, <2>2 DEF ScanEntry
    <3>2. \A w \in pos..(pos + 1 - 1) : Free(w)
      BY <1>1, <2>2 DEF Free
    <3>3. 1 \in Nat \ {0}
      OBVIOUS
    <3>4. Scanned(Longer(acc, pos, 1, range), pos + 1, range)
      BY <1>1, <2>1, <3>2, <3>3, LongerScans
    <3> QED BY <3>1, <3>4
  <2>3. CASE entry[pos] # NoFrame
    <3> DEFINE r == [acc EXCEPT !.run = 0]
    <3>1. ScanEntry(acc, pos, range) = r
      BY <1>3, <2>3 DEF ScanEntry
    <3>2. r \in ScanType /\ r.run = 0 /\ ~r.found
      BY <1>1, <1>3 DEF ScanType
    <3>3. acc.run \in Nat /\ acc.run < range /\ SearchStart \in Nat /\ SearchStart <= pos - acc.run
          /\ FirstPage \in Nat
      BY <1>1, <2>1, SearchStartIs DEF ScanType, Searching
    <3>4. ~Free(pos)
      BY <2>3 DEF Free
    <3>5. ASSUME NEW v \in FirstPage..pos PROVE InTheWay(v, range, pos + 1)
      <4>1. CASE v < pos - acc.run
        <5>1. InTheWay(v, range, pos - acc.run)
          BY <1>1, <2>1, <3>3, <4>1 DEF Searching
        <5>2. PICK w \in v..(v + range - 1) : w < pos - acc.run /\ w \in VPage /\ ~Free(w)
          BY <5>1 DEF InTheWay
        <5>3. w < pos + 1
          BY <1>1, <3>3, <5>2
        <5> QED BY <5>2, <5>3 DEF InTheWay
      <4>2. CASE ~(v < pos - acc.run)
        <5>1. pos \in v..(v + range - 1) /\ pos < pos + 1
          BY <1>1, <3>3, <4>2
        <5> QED BY <3>4, <5>1 DEF InTheWay
      <4> QED BY <4>1, <4>2
    <3> HIDE DEF r
    <3>6. pos + 1 - r.run = pos + 1 /\ pos + 1 - 1 = pos
      BY <1>1, <3>2
    <3>7. Searching(r, pos + 1, range)
      BY <1>1, <3>2, <3>3, <3>5, <3>6 DEF Searching
    <3> QED BY <3>1, <3>2, <3>7 DEF Scanned
  <2> QED BY <2>2, <2>3
<1> QED BY <1>2, <1>3

(* The entries of one table, or all of a table that is not there.           *)
LEMMA TableScans ==
  ASSUME NEW range \in Nat \ {0}, NEW d \in Nat, TableOf(FirstPage) <= d,
         (d + 1) * TablePages <= VirtualPages, NEW acc, Scanned(acc, d * TablePages, range),
         d = TableOf(FirstPage) => acc = ScanInit
  PROVE  Scanned(ScanTable(acc, d, range), (d + 1) * TablePages, range)
<1> DEFINE lo == IF d = TableOf(FirstPage) THEN FirstPage ELSE d * TablePages
           hi == (d + 1) * TablePages
           step(f) == [v \in lo..hi |-> IF v = lo THEN acc ELSE ScanEntry(f[v - 1], v - 1, range)]
           sweep == CHOOSE f : f = step(f)
<1>1. /\ d * TablePages \in Nat /\ hi \in Nat /\ hi = d * TablePages + TablePages /\ TablePages \in Nat \ {0}
      /\ VirtualPages \in Nat /\ acc \in ScanType
  BY VirtualAssumption DEF Scanned
<1>2. lo \in Nat /\ d * TablePages <= lo /\ lo < hi
  <2>1. CASE d = TableOf(FirstPage)
    BY <1>1, <2>1, SearchStartIs DEF SearchStart
  <2>2. CASE d # TableOf(FirstPage)
    BY <1>1, <2>2
  <2> QED BY <2>1, <2>2
<1>3. Scanned(acc, lo, range)
  <2>1. CASE d = TableOf(FirstPage)
    <3>1. acc = ScanInit /\ lo = FirstPage /\ FirstPage \in SearchStart..FirstPage
      BY <2>1, SearchStartIs
    <3> QED BY <3>1, ScanInitScans
  <2>2. CASE d # TableOf(FirstPage)
    BY <2>2
  <2> QED BY <2>1, <2>2
<1>4. ScanTable(acc, d, range) =
        IF acc.found THEN acc
        ELSE IF present[d] = NoFrame THEN Longer(acc, d * TablePages, TablePages, range)
        ELSE sweep[hi]
  BY DEF ScanTable
<1> HIDE DEF lo
<1>5. \A v \in lo..(hi - 1) : v \in VPage /\ TableOf(v) = d
  <2> SUFFICES ASSUME NEW v \in lo..(hi - 1) PROVE v \in VPage /\ TableOf(v) = d
    OBVIOUS
  <2>1. v \in Nat /\ d * TablePages <= v /\ v < (d + 1) * TablePages /\ v < VirtualPages
    BY <1>1, <1>2
  <2>2. v \in VPage
    BY <1>1, <2>1 DEF VPage
  <2> QED BY <2>1, <2>2, TableIs
<1>6. CASE acc.found
  <2>1. FirstFit(acc, d * TablePages, range)
    BY <1>6 DEF Scanned, Searching
  <2>2. d * TablePages <= hi
    BY <1>1
  <2> HIDE DEF hi, sweep
  <2> QED BY <1>1, <1>4, <1>6, <2>1, <2>2, FitStays DEF hi
<1>7. CASE ~acc.found /\ present[d] = NoFrame
  <2>1. Searching(acc, d * TablePages, range)
    BY <1>7 DEF Scanned, FirstFit
  <2>2. ASSUME NEW w \in (d * TablePages)..(d * TablePages + TablePages - 1) PROVE Free(w)
    <3>1. w \in Nat /\ d * TablePages <= w /\ w < (d + 1) * TablePages
      BY <1>1
    <3>2. TableOf(w) = d
      BY <3>1, TableIs
    <3> QED BY <1>7, <3>2 DEF Free
  <2>3. Scanned(Longer(acc, d * TablePages, TablePages, range), d * TablePages + TablePages, range)
    BY <1>1, <2>1, <2>2, LongerScans
  <2> HIDE DEF hi, sweep
  <2> QED BY <1>1, <1>4, <1>7, <2>3 DEF hi
<1>8. CASE ~acc.found /\ present[d] # NoFrame
  <2> DEFINE round == [i \in (lo + 1)..hi |-> [a \in ScanType |-> ScanEntry(a, i - 1, range)]]
  <2>0. lo \in Int /\ hi \in Int /\ lo <= hi /\ acc \in ScanType
    BY <1>1, <1>2
  <2> HIDE DEF hi
  <2>1. round \in Rounds(ScanType, lo, hi)
    <3>1. ASSUME NEW i \in (lo + 1)..hi, NEW a \in ScanType PROVE ScanEntry(a, i - 1, range) \in ScanType
      <4>1. i - 1 \in Nat
        BY <1>1, <1>2
      <4> QED BY <1>1, <4>1 DEF ScanEntry, Longer, ScanType
    <3> QED BY <3>1 DEF Rounds
  <2> HIDE DEF round
  <2>2. PICK f : IsLoop(f, ScanType, lo, hi, acc, round)
    BY <2>0, <2>1, LoopDefined
  <2> USE DEF IsLoop
  <2>3. ASSUME NEW i \in (lo + 1)..hi
        PROVE  f[i] = ScanEntry(f[i - 1], i - 1, range)
    <3>1. f[i - 1] \in ScanType
      BY <1>1, <1>2, <2>2
    <3> QED BY <2>2, <3>1 DEF round
  <2>4. f = step(f)
    <3>1. ASSUME NEW i \in lo..hi
          PROVE  f[i] = (IF i = lo THEN acc ELSE ScanEntry(f[i - 1], i - 1, range))
      <4>1. i # lo => i \in (lo + 1)..hi
        BY <1>1, <1>2
      <4> QED BY <2>2, <2>3, <4>1
    <3> QED BY <2>2, <3>1
  <2>5. sweep = step(sweep)
    <3> HIDE DEF step
    <3>1. \E g : g = step(g)
      BY <2>4
    <3> QED BY <3>1, Zenon
  <2> HIDE DEF sweep
  <2>6. sweep[lo] = acc /\ \A i \in (lo + 1)..hi : sweep[i] = ScanEntry(sweep[i - 1], i - 1, range)
    <3>1. \A i \in lo..hi : sweep[i] = IF i = lo THEN acc ELSE ScanEntry(sweep[i - 1], i - 1, range)
      BY <2>5
    <3> HIDE DEF step
    <3> QED BY <1>1, <1>2, <3>1
  <2> DEFINE Q == {v \in lo..hi : Scanned(sweep[v], v, range)}
  <2>7. lo \in Q
    BY <1>1, <1>2, <1>3, <2>6
  <2>8. ASSUME NEW i \in (lo + 1)..hi, i - 1 \in Q PROVE i \in Q
    <3>1. i \in lo..hi /\ i - 1 \in lo..(hi - 1) /\ (i - 1) + 1 = i
      BY <1>1, <1>2
    <3>2. i - 1 \in VPage /\ TableOf(i - 1) = d
      BY <1>5, <3>1 DEF hi
    <3>3. Scanned(ScanEntry(sweep[i - 1], i - 1, range), i, range)
      BY <1>8, <2>8, <3>1, <3>2, EntryScans
    <3> QED BY <2>6, <3>1, <3>3
  <2> HIDE DEF Q
  <2>9. \A v \in lo..hi : v \in Q
    BY <2>0, <2>7, <2>8, CountUp
  <2>10. Scanned(sweep[hi], hi, range)
    BY <1>1, <1>2, <2>9 DEF Q
  <2> QED BY <1>4, <1>8, <2>10 DEF hi
<1> QED BY <1>6, <1>7, <1>8

(* findFirstFreePageRange: what it finds is the first fit below m_rangeEnd.  *)
LEMMA SearchFinds ==
  ASSUME NEW range \in Nat \ {0}, rangeEnd \in 0..VirtualPages,
         findFirstFreePageRange(range).found
  PROVE  /\ findFirstFreePageRange(range) \in ScanType
         /\ FirstFit(findFirstFreePageRange(range), rangeEnd, range)
<1> DEFINE lo == TableOf(FirstPage)
           hi == TableOf(rangeEnd)
           step(f) == [d \in lo..hi |->
                         IF d = lo THEN ScanInit ELSE ScanTable(f[d - 1], d - 1, range)]
           sweep == CHOOSE f : f = step(f)
<1>1. findFirstFreePageRange(range) = IF lo < hi THEN sweep[hi] ELSE ScanInit
  BY DEF findFirstFreePageRange
<1>2. VirtualPages \in Nat /\ rangeEnd \in Nat /\ rangeEnd <= VirtualPages /\ TablePages \in Nat
  BY VirtualAssumption
<1>3. hi \in Nat /\ hi * TablePages <= rangeEnd /\ lo \in Nat /\ lo * TablePages = SearchStart
  BY <1>2, TableBounds, SearchStartIs DEF SearchStart
<1>4. lo < hi
  <2> HIDE DEF sweep, lo, hi
  <2> QED BY <1>1 DEF ScanInit
<1> HIDE DEF lo, hi
<1>5. \A d \in (lo + 1)..hi : (d - 1) + 1 = d /\ d - 1 \in Nat /\ lo <= d - 1
                             /\ d * TablePages <= VirtualPages
  <2> SUFFICES ASSUME NEW d \in (lo + 1)..hi
               PROVE  /\ (d - 1) + 1 = d /\ d - 1 \in Nat /\ lo <= d - 1
                      /\ d * TablePages <= VirtualPages
    OBVIOUS
  <2>1. (d - 1) + 1 = d /\ d - 1 \in Nat /\ lo <= d - 1 /\ d - 1 < hi
    BY <1>3
  <2>2. d * TablePages <= hi * TablePages
    BY <1>3, <2>1, TablesApart
  <2>3. d * TablePages \in Int /\ hi * TablePages \in Int
    BY <1>2, <1>3
  <2> QED BY <1>2, <1>3, <2>1, <2>2, <2>3
<1>6. sweep = step(sweep)
  <2> DEFINE round == [i \in (lo + 1)..hi |-> [a \in ScanType |->
                         IF ScanTable(a, i - 1, range) \in ScanType
                         THEN ScanTable(a, i - 1, range) ELSE ScanInit]]
  <2>1. round \in Rounds(ScanType, lo, hi) /\ ScanInit \in ScanType
    BY DEF Rounds, ScanInit, ScanType
  <2>2. lo \in Int /\ hi \in Int /\ lo <= hi
    BY <1>3, <1>4
  <2> HIDE DEF round
  <2>3. PICK f : IsLoop(f, ScanType, lo, hi, ScanInit, round)
    BY <2>1, <2>2, LoopDefined
  <2> DEFINE Q == {d \in lo..hi : /\ Scanned(f[d], d * TablePages, range)
                                  /\ (d = lo => f[d] = ScanInit)
                                  /\ (d # lo => f[d] = ScanTable(f[d - 1], d - 1, range))}
  <2>4. lo \in Q
    <3>1. Scanned(ScanInit, lo * TablePages, range)
      <4>1. lo * TablePages \in SearchStart..FirstPage
        BY <1>3, SearchStartIs
      <4> QED BY <4>1, ScanInitScans
    <3> QED BY <2>2, <2>3, <3>1 DEF IsLoop
  <2>5. ASSUME NEW d \in (lo + 1)..hi, d - 1 \in Q PROVE d \in Q
    <3>1. /\ Scanned(f[d - 1], (d - 1) * TablePages, range) /\ (d - 1 = lo => f[d - 1] = ScanInit)
          /\ f[d - 1] \in ScanType
      BY <2>5 DEF Scanned
    <3>2. /\ (d - 1) + 1 = d /\ d - 1 \in Nat /\ lo <= d - 1 /\ d * TablePages <= VirtualPages
      BY <1>5
    <3>3. Scanned(ScanTable(f[d - 1], d - 1, range), d * TablePages, range)
      BY <3>1, <3>2, TableScans DEF lo
    <3>4. f[d] = ScanTable(f[d - 1], d - 1, range)
      <4>1. f[d] = round[d][f[d - 1]]
        BY <2>3 DEF IsLoop
      <4>2. ScanTable(f[d - 1], d - 1, range) \in ScanType
        BY <3>3 DEF Scanned
      <4> QED BY <3>1, <4>1, <4>2 DEF round
    <3>5. d \in lo..hi /\ d # lo
      BY <1>3
    <3> QED BY <3>3, <3>4, <3>5
  <2> HIDE DEF Q
  <2>6. \A d \in lo..hi : d \in Q
    BY <2>2, <2>4, <2>5, CountUp
  <2>7. \A d \in lo..hi : f[d] = IF d = lo THEN ScanInit ELSE ScanTable(f[d - 1], d - 1, range)
    BY <2>6 DEF Q
  <2>8. f = step(f)
    BY <2>3, <2>7 DEF IsLoop
  <2> HIDE DEF step
  <2>9. \E g : g = step(g)
    BY <2>8
  <2> QED BY <2>9, Zenon
<1> HIDE DEF sweep
<1>7. sweep[lo] = ScanInit /\ \A d \in (lo + 1)..hi : sweep[d] = ScanTable(sweep[d - 1], d - 1, range)
  <2>1. \A d \in lo..hi : sweep[d] = IF d = lo THEN ScanInit ELSE ScanTable(sweep[d - 1], d - 1, range)
    BY <1>6
  <2> HIDE DEF step
  <2> QED BY <1>3, <1>4, <2>1
<1> DEFINE Q == {d \in lo..hi : /\ Scanned(sweep[d], d * TablePages, range)
                                /\ (d = lo => sweep[d] = ScanInit)}
<1>8. lo \in Q
  <2>1. lo * TablePages \in SearchStart..FirstPage
    BY <1>3, SearchStartIs
  <2> QED BY <1>3, <1>4, <1>7, <2>1, ScanInitScans
<1>9. ASSUME NEW d \in (lo + 1)..hi, d - 1 \in Q PROVE d \in Q
  <2>1. Scanned(sweep[d - 1], (d - 1) * TablePages, range) /\ (d - 1 = lo => sweep[d - 1] = ScanInit)
    BY <1>9
  <2>2. /\ (d - 1) + 1 = d /\ d - 1 \in Nat /\ lo <= d - 1 /\ d * TablePages <= VirtualPages
    BY <1>5
  <2>3. Scanned(ScanTable(sweep[d - 1], d - 1, range), d * TablePages, range)
    BY <2>1, <2>2, TableScans DEF lo
  <2>4. d \in lo..hi /\ d # lo
    BY <1>3
  <2> QED BY <1>7, <2>3, <2>4
<1> HIDE DEF Q
<1>10. hi \in Q
  <2>1. lo \in Int /\ hi \in Int /\ hi \in lo..hi
    BY <1>3, <1>4
  <2>2. \A d \in lo..hi : d \in Q
    BY <1>8, <1>9, <2>1, CountUp
  <2> QED BY <2>1, <2>2
<1>11. findFirstFreePageRange(range) = sweep[hi] /\ Scanned(sweep[hi], hi * TablePages, range)
  BY <1>1, <1>4, <1>10 DEF Q
<1>12. sweep[hi] \in ScanType /\ FirstFit(sweep[hi], hi * TablePages, range)
  BY <1>11 DEF Scanned, Searching
<1>13. Scanned(sweep[hi], rangeEnd, range)
  <2>1. hi * TablePages \in Nat
    BY <1>2, <1>3
  <2> QED BY <1>2, <1>3, <1>12, <2>1, FitStays
<1>14. FirstFit(sweep[hi], rangeEnd, range)
  BY <1>11, <1>13 DEF Scanned, Searching
<1> QED BY <1>11, <1>12, <1>14

(***************************************************************************)
(* The loop of map.                                                        *)
(***************************************************************************)
Slot == Nat \cup {NoFrame, OldFrame}
MapType == [present : [DirectoryIndex -> Slot], entry : [VPage -> Slot], used : Nat,
            panic : {"none", "memory", "inUse"}]
FreeIn(m, v) == m.present[TableOf(v)] = NoFrame \/ m.entry[v] = NoFrame
Taken(m, v) == m.entry[v] \notin {NoFrame, OldFrame}

VirtualTyped ==
  /\ rangeEnd \in {EndPage, 0} /\ framesUsed \in Nat
  /\ present \in [DirectoryIndex -> Slot] /\ entry \in [VPage -> Slot]
  /\ lastMap.lost \in BOOLEAN

LEMMA MapPageTyped ==
  ASSUME NEW m \in MapType, NEW v \in VPage
  PROVE  MapPage(m, v) \in MapType
<1> DEFINE d == TableOf(v)
           newTable == m.present[d] = NoFrame
           used == m.used + (IF newTable THEN 2 ELSE 1)
           cleared == [w \in VPage |-> IF newTable /\ TableOf(w) = d THEN NoFrame ELSE m.entry[w]]
           pr == [m.present EXCEPT ![d] = IF newTable THEN m.used + 1 ELSE @]
           en == IF cleared[v] = NoFrame THEN [cleared EXCEPT ![v] = m.used] ELSE cleared
           pa == IF cleared[v] = NoFrame THEN "none" ELSE "inUse"
<1>1. MapPage(m, v) = IF m.panic # "none" THEN m
                      ELSE IF used > PhysicalPages THEN [m EXCEPT !.panic = "memory"]
                      ELSE [present |-> pr, entry |-> en, used |-> used, panic |-> pa]
  BY DEF MapPage
<1>2. used \in Nat
  BY DEF MapType
<1>3. pr \in [DirectoryIndex -> Slot]
  <2>1. m.present \in [DirectoryIndex -> Slot] /\ d \in DirectoryIndex /\ m.used + 1 \in Slot
    BY TableInDirectory DEF MapType, Slot
  <2> HIDE DEF d
  <2> QED BY <2>1
<1>4. cleared \in [VPage -> Slot]
  BY DEF MapType, Slot
<1>5. en \in [VPage -> Slot]
  <2> HIDE DEF cleared
  <2> QED BY <1>4 DEF MapType, Slot
<1>6. pa \in {"none", "memory", "inUse"}
  OBVIOUS
<1> HIDE DEF used, pr, en, pa
<1>7. [m EXCEPT !.panic = "memory"] \in MapType
  BY DEF MapType
<1>8. [present |-> pr, entry |-> en, used |-> used, panic |-> pa] \in MapType
  BY <1>2, <1>3, <1>5, <1>6 DEF MapType
<1> QED BY <1>1, <1>7, <1>8

(* mapPhysicalToVirtual on a free page: nothing but memory can be missing,   *)
(* the other free pages stay free, and only this page is taken.             *)
LEMMA MapPageFree ==
  ASSUME NEW m \in MapType, NEW v \in VPage, FreeIn(m, v), m.panic # "inUse"
  PROVE  LET r == MapPage(m, v) IN
           /\ r.panic # "inUse"
           /\ \A w \in VPage : w # v /\ FreeIn(m, w) => FreeIn(r, w)
           /\ \A w \in VPage : Taken(r, w) => w = v \/ Taken(m, w)
<1> DEFINE d == TableOf(v)
           newTable == m.present[d] = NoFrame
           used == m.used + (IF newTable THEN 2 ELSE 1)
           cleared == [w \in VPage |-> IF newTable /\ TableOf(w) = d THEN NoFrame ELSE m.entry[w]]
           pr == [m.present EXCEPT ![d] = IF newTable THEN m.used + 1 ELSE @]
           r == MapPage(m, v)
<1>1. cleared[v] = NoFrame
  BY DEF FreeIn
<1>2. CASE m.panic # "none"
  <2>1. r = m
    BY <1>2 DEF MapPage
  <2> QED BY <2>1
<1>3. CASE m.panic = "none" /\ used > PhysicalPages
  <2>1. r = [m EXCEPT !.panic = "memory"]
    BY <1>3 DEF MapPage
  <2>2. r.panic = "memory" /\ r.present = m.present /\ r.entry = m.entry
    BY <2>1 DEF MapType
  <2> HIDE DEF r
  <2> QED BY <2>2 DEF FreeIn, Taken, r
<1>4. CASE m.panic = "none" /\ ~(used > PhysicalPages)
  <2>1. r = [present |-> pr, entry |-> [cleared EXCEPT ![v] = m.used], used |-> used, panic |-> "none"]
    BY <1>1, <1>4 DEF MapPage
  <2> HIDE DEF r
  <2>2. r.panic = "none" /\ r.present = pr /\ r.entry = [cleared EXCEPT ![v] = m.used]
    BY <2>1
  <2>3. ASSUME NEW w \in VPage, w # v PROVE r.entry[w] = cleared[w]
    <3> HIDE DEF cleared
    <3>1. DOMAIN cleared = VPage
      BY DEF cleared
    <3> QED BY <2>2, <2>3, <3>1
  <2>4. ASSUME NEW w \in VPage, w # v, FreeIn(m, w) PROVE FreeIn(r, w)
    <3>1. CASE newTable /\ TableOf(w) = d
      BY <2>3, <2>4, <3>1 DEF FreeIn
    <3>2. CASE ~newTable \/ TableOf(w) # d
      <4>1. cleared[w] = m.entry[w]
        BY <3>2
      <4>2. TableOf(w) \in DirectoryIndex /\ d \in DirectoryIndex
        BY TableInDirectory
      <4>3. pr[TableOf(w)] = m.present[TableOf(w)]
        BY <3>2, <4>2 DEF MapType
      <4> HIDE DEF cleared, pr
      <4> QED BY <2>2, <2>3, <2>4, <4>1, <4>3 DEF FreeIn
    <3> QED BY <3>1, <3>2
  <2>5. ASSUME NEW w \in VPage, Taken(r, w), w # v PROVE Taken(m, w)
    <3>1. cleared[w] \notin {NoFrame, OldFrame}
      BY <2>3, <2>5 DEF Taken
    <3> QED BY <3>1 DEF Taken
  <2> QED BY <2>2, <2>4, <2>5 DEF r
<1> QED BY <1>2, <1>3, <1>4

(* On a page in use it panics and maps nothing.                             *)
LEMMA MapPageUsed ==
  ASSUME NEW m \in MapType, NEW v \in VPage, ~FreeIn(m, v) \/ m.panic # "none"
  PROVE  LET r == MapPage(m, v) IN
           r.panic # "none" /\ r.present = m.present /\ r.entry = m.entry
<1> DEFINE used == m.used + (IF m.present[TableOf(v)] = NoFrame THEN 2 ELSE 1)
           r == MapPage(m, v)
<1>1. CASE m.panic # "none"
  BY <1>1 DEF MapPage
<1>2. CASE m.panic = "none" /\ used > PhysicalPages
  <2>1. r = [m EXCEPT !.panic = "memory"]
    BY <1>2 DEF MapPage
  <2> QED BY <2>1 DEF MapType
<1>3. CASE m.panic = "none" /\ ~(used > PhysicalPages)
  <2> DEFINE cleared == [w \in VPage |-> m.entry[w]]
             pr == [m.present EXCEPT ![TableOf(v)] = m.present[TableOf(v)]]
  <2>1. m.present[TableOf(v)] # NoFrame /\ m.entry[v] # NoFrame
    BY <1>3 DEF FreeIn
  <2>2. r = [present |-> pr, entry |-> cleared, used |-> used, panic |-> "inUse"]
    BY <1>3, <2>1 DEF MapPage
  <2>3. pr = m.present /\ cleared = m.entry
    BY DEF MapType
  <2> HIDE DEF r, pr, cleared
  <2> QED BY <2>2, <2>3 DEF r
<1> QED BY <1>1, <1>2, <1>3

(* The loop, and what it leaves.                                            *)
IsMapping(f, v, n) ==
  /\ f \in [0..n -> MapType] /\ f[0] = Mapping
  /\ \A i \in 1..n : f[i] = MapPage(f[i - 1], (v + i - 1) % VirtualPages)

LEMMA InSpace ==
  ASSUME NEW v \in Nat
  PROVE  v % VirtualPages \in VPage /\ (v < VirtualPages => v % VirtualPages = v)
<1>1. VirtualPages \in Nat /\ VirtualPages > 0
  BY VirtualAssumption
<1> QED BY <1>1, SMT DEF VPage

LEMMA MappingLoop ==
  ASSUME VirtualTyped, NEW v \in Nat, NEW n \in Nat, MapPages(v, n)
  PROVE  \E f : /\ IsMapping(f, v, n)
                /\ present' = f[n].present /\ entry' = f[n].entry /\ framesUsed' = f[n].used
                /\ vpanic' = f[n].panic
<1> DEFINE step(f) == [i \in 0..n |-> IF i = 0 THEN Mapping
                                      ELSE MapPage(f[i - 1], (v + i - 1) % VirtualPages)]
           mapped == CHOOSE f : f = step(f)
           round == [i \in (0 + 1)..n |-> [m \in MapType |-> MapPage(m, (v + i - 1) % VirtualPages)]]
<1>1. Mapping \in MapType
  BY DEF Mapping, MapType, VirtualTyped
<1>2. \A i \in 1..n : (v + i - 1) % VirtualPages \in VPage
  <2> SUFFICES ASSUME NEW i \in 1..n PROVE (v + i - 1) % VirtualPages \in VPage
    OBVIOUS
  <2>1. v + i - 1 \in Nat
    OBVIOUS
  <2> QED BY <2>1, InSpace
<1>3. round \in Rounds(MapType, 0, n)
  <2>1. ASSUME NEW i \in (0 + 1)..n, NEW m \in MapType
        PROVE  MapPage(m, (v + i - 1) % VirtualPages) \in MapType
    <3>1. (v + i - 1) % VirtualPages \in VPage
      BY <1>2
    <3> QED BY <3>1, MapPageTyped
  <2> QED BY <2>1 DEF Rounds
<1> HIDE DEF round
<1>4. PICK f : IsLoop(f, MapType, 0, n, Mapping, round)
  BY <1>1, <1>3, LoopDefined
<1>5. ASSUME NEW i \in 1..n PROVE f[i] = MapPage(f[i - 1], (v + i - 1) % VirtualPages)
  <2>1. i \in (0 + 1)..n /\ i - 1 \in 0..n
    OBVIOUS
  <2>2. f[i] = round[i][f[i - 1]] /\ f[i - 1] \in MapType
    BY <1>4, <2>1 DEF IsLoop
  <2> QED BY <2>1, <2>2 DEF round
<1>6. f = step(f)
  <2>1. f \in [0..n -> MapType] /\ f[0] = Mapping
    BY <1>4 DEF IsLoop
  <2>2. ASSUME NEW i \in 0..n
        PROVE  f[i] = IF i = 0 THEN Mapping ELSE MapPage(f[i - 1], (v + i - 1) % VirtualPages)
    BY <1>5, <2>1
  <2> QED BY <2>1, <2>2
<1>7. mapped = step(mapped)
  <2> HIDE DEF step
  <2>1. \E g : g = step(g)
    BY <1>6
  <2> QED BY <2>1, Zenon
<1>8. present' = mapped[n].present /\ entry' = mapped[n].entry /\ framesUsed' = mapped[n].used
      /\ vpanic' = mapped[n].panic
  BY DEF MapPages
<1> HIDE DEF mapped
<1>9. \A i \in 0..n : mapped[i] = IF i = 0 THEN Mapping
                                  ELSE MapPage(mapped[i - 1], (v + i - 1) % VirtualPages)
  BY <1>7
<1>10. DOMAIN mapped = 0..n /\ mapped = [i \in 0..n |-> mapped[i]]
  BY <1>7
<1> HIDE DEF step
<1> DEFINE Q == {i \in 0..n : mapped[i] \in MapType}
<1>11. 0 \in Q
  BY <1>1, <1>9
<1>12. ASSUME NEW i \in (0 + 1)..n, i - 1 \in Q PROVE i \in Q
  <2>1. i \in 0..n /\ i \in 1..n /\ i # 0
    OBVIOUS
  <2>2. mapped[i] = MapPage(mapped[i - 1], (v + i - 1) % VirtualPages) /\ mapped[i - 1] \in MapType
    BY <1>9, <1>12, <2>1
  <2> QED BY <1>2, <2>1, <2>2, MapPageTyped
<1> HIDE DEF Q
<1>13. \A i \in 0..n : i \in Q
  BY <1>11, <1>12, CountUp
<1>14. \A i \in 0..n : mapped[i] \in MapType
  BY <1>13 DEF Q
<1>15. mapped \in [0..n -> MapType]
  BY <1>10, <1>14
<1>16. IsMapping(mapped, v, n)
  BY <1>9, <1>15 DEF IsMapping
<1> QED BY <1>8, <1>16

(* Mapping the range that was found.                                        *)
LEMMA FoundMapped ==
  ASSUME VirtualTyped, NEW n \in Nat \ {0}, NEW v \in Nat, v + n <= VirtualPages,
         \A w \in v..(v + n - 1) : Free(w), MapPages(v, n)
  PROVE  /\ vpanic' # "inUse"
         /\ \A w \in VPage : entry'[w] \notin {NoFrame, OldFrame} =>
              w \in v..(v + n - 1) \/ entry[w] \notin {NoFrame, OldFrame}
<1>1. VirtualPages \in Nat /\ VirtualPages > 0
  BY VirtualAssumption
<1>2. PICK f : /\ IsMapping(f, v, n)
               /\ present' = f[n].present /\ entry' = f[n].entry /\ vpanic' = f[n].panic
  BY MappingLoop
<1> DEFINE Good(i) == /\ f[i].panic # "inUse"
                      /\ \A w \in (v + i)..(v + n - 1) : FreeIn(f[i], w)
                      /\ \A w \in VPage : Taken(f[i], w) =>
                           w \in v..(v + n - 1) \/ entry[w] \notin {NoFrame, OldFrame}
           Q == {i \in 0..n : Good(i)}
<1>3. 0 \in Q
  <2>1. f[0].panic = "none" /\ f[0].present = present /\ f[0].entry = entry
    BY <1>2 DEF IsMapping, Mapping
  <2>2. \A w \in (v + 0)..(v + n - 1) : FreeIn(f[0], w)
    BY <2>1 DEF FreeIn, Free
  <2> QED BY <2>1, <2>2 DEF Taken
<1>4. ASSUME NEW i \in (0 + 1)..n, i - 1 \in Q PROVE i \in Q
  <2> DEFINE p == v + i - 1
  <2>1. Good(i - 1) /\ i \in 0..n /\ i \in 1..n /\ i - 1 \in 0..n
    BY <1>4
  <2>2. p \in Nat /\ p < VirtualPages /\ p \in VPage /\ p \in v..(v + n - 1) /\ v + (i - 1) = p
    BY <1>1 DEF VPage
  <2>3. f[i] = MapPage(f[i - 1], p) /\ f[i - 1] \in MapType
    <3>1. f[i] = MapPage(f[i - 1], p % VirtualPages) /\ f[i - 1] \in MapType
      BY <1>2, <2>1 DEF IsMapping
    <3> HIDE DEF p
    <3> QED BY <2>2, <3>1, InSpace
  <2>4. FreeIn(f[i - 1], p) /\ f[i - 1].panic # "inUse"
    BY <2>1, <2>2
  <2> HIDE DEF p
  <2>5. /\ f[i].panic # "inUse"
        /\ \A w \in VPage : w # p /\ FreeIn(f[i - 1], w) => FreeIn(f[i], w)
        /\ \A w \in VPage : Taken(f[i], w) => w = p \/ Taken(f[i - 1], w)
    BY <2>2, <2>3, <2>4, MapPageFree
  <2>6. ASSUME NEW w \in (v + i)..(v + n - 1) PROVE FreeIn(f[i], w)
    <3>1. w \in VPage /\ w # p /\ w \in (v + (i - 1))..(v + n - 1)
      BY <1>1 DEF VPage, p
    <3> QED BY <2>1, <2>5, <3>1
  <2>7. Good(i)
    BY <2>1, <2>2, <2>5, <2>6
  <2> HIDE DEF Good
  <2> QED BY <2>1, <2>7
<1> HIDE DEF Q
<1>5. n \in Q
  <2>1. \A i \in 0..n : i \in Q
    BY <1>3, <1>4, CountUp
  <2> QED BY <2>1
<1>6. Good(n)
  <2> HIDE DEF Good
  <2> QED BY <1>5 DEF Q
<1> QED BY <1>2, <1>6 DEF Taken

(* Mapping over a page in use.                                              *)
LEMMA UsedNotMapped ==
  ASSUME VirtualTyped, vpanic = "none", NEW n \in Nat \ {0}, NEW v \in VPage, ~Free(v), MapPages(v, n)
  PROVE  vpanic' # "none" /\ entry' = entry
<1>1. VirtualPages \in Nat /\ v \in Nat /\ v < VirtualPages
  BY VirtualAssumption DEF VPage
<1>2. PICK f : IsMapping(f, v, n) /\ entry' = f[n].entry /\ vpanic' = f[n].panic
  BY <1>1, MappingLoop
<1> DEFINE Q == {i \in 1..n : f[i].panic # "none" /\ f[i].entry = entry}
<1>3. 1 \in Q
  <2>1. f[0] \in MapType /\ f[0] = Mapping /\ f[1] = MapPage(f[0], (v + 1 - 1) % VirtualPages)
    BY <1>2 DEF IsMapping
  <2>2. (v + 1 - 1) % VirtualPages = v
    <3>1. v + 1 - 1 = v
      BY <1>1
    <3> QED BY <1>1, <3>1, InSpace
  <2>3. ~FreeIn(f[0], v)
    BY <2>1 DEF FreeIn, Free, Mapping
  <2>4. f[1].panic # "none" /\ f[1].entry = f[0].entry
    BY <2>1, <2>2, <2>3, MapPageUsed
  <2> QED BY <2>1, <2>4 DEF Mapping
<1>4. ASSUME NEW i \in (1 + 1)..n, i - 1 \in Q PROVE i \in Q
  <2>1. i \in 1..n /\ i - 1 \in 0..n /\ v + i - 1 \in Nat
    BY <1>1
  <2>2. f[i] = MapPage(f[i - 1], (v + i - 1) % VirtualPages) /\ f[i - 1] \in MapType
    BY <1>2, <2>1 DEF IsMapping
  <2>3. (v + i - 1) % VirtualPages \in VPage
    BY <2>1, InSpace
  <2>4. f[i - 1].panic # "none" /\ f[i - 1].entry = entry
    BY <1>4
  <2>5. f[i].panic # "none" /\ f[i].entry = f[i - 1].entry
    BY <2>2, <2>3, <2>4, MapPageUsed
  <2> QED BY <2>1, <2>4, <2>5
<1> HIDE DEF Q
<1>5. n \in Q
  <2>1. \A i \in 1..n : i \in Q
    BY <1>3, <1>4, CountUp
  <2> QED BY <2>1
<1> QED BY <1>2, <1>5 DEF Q

(***************************************************************************)
(* The two kinds of calls.                                                 *)
(***************************************************************************)
VirtualInv == VirtualTyped /\ MapsOnlyFreeRanges

LEMMA TypedStays ==
  ASSUME VirtualTyped, NEW v \in Nat, NEW n \in Nat, MapPages(v, n), UNCHANGED rangeEnd,
         lastMap'.lost \in BOOLEAN
  PROVE  VirtualTyped'
<1>1. PICK f : /\ IsMapping(f, v, n)
               /\ present' = f[n].present /\ entry' = f[n].entry /\ framesUsed' = f[n].used
  BY MappingLoop
<1>2. f[n] \in MapType
  BY <1>1 DEF IsMapping
<1>3. /\ present' \in [DirectoryIndex -> Slot] /\ entry' \in [VPage -> Slot] /\ framesUsed' \in Nat
  BY <1>1, <1>2 DEF MapType
<1> QED BY <1>3 DEF VirtualTyped, Slot, DirectoryIndex, VPage

LEMMA AnywhereKeeps ==
  ASSUME VirtualInv, NEW n \in 1..MaxPages, MapAnywhere(n)
  PROVE  VirtualInv'
<1> DEFINE found == findFirstFreePageRange(n)
           v == IF found.found THEN found.at ELSE Npos
<1>1. n \in Nat \ {0} /\ VirtualPages \in Nat \ {0} /\ Npos \in Nat /\ rangeEnd \in 0..VirtualPages
  BY VirtualAssumption DEF Npos, VirtualInv, VirtualTyped
<1>2. found.found => found \in ScanType /\ FirstFit(found, rangeEnd, n)
  BY <1>1, SearchFinds
<1>3. /\ MapPages(v, n) /\ UNCHANGED rangeEnd
      /\ lastMap' = [kind |-> IF found.found THEN "found" ELSE "npos", at |-> v, pages |-> n,
                     result |-> PastRange(IF found.found THEN v * PageBytes ELSE SpaceBytes - 1, n),
                     free |-> FreeNow, lost |-> lastMap.lost \/ ~found.found]
  BY DEF MapAnywhere
<1> HIDE DEF found
<1>4. v \in Nat
  BY <1>1, <1>2 DEF ScanType
<1> HIDE DEF v
<1>5. lastMap'.lost = (lastMap.lost \/ ~found.found) /\ lastMap'.lost \in BOOLEAN
  BY <1>3 DEF VirtualInv, VirtualTyped
<1>6. lastMap'.kind = (IF found.found THEN "found" ELSE "npos") /\ lastMap'.at = v
      /\ lastMap'.pages = n /\ lastMap'.free = FreeNow
  BY <1>3
<1>7. VirtualTyped'
  BY <1>1, <1>3, <1>4, <1>5, TypedStays DEF VirtualInv
<1>9. CASE found.found
  <2>1. /\ v = found.at /\ SearchStart <= v /\ v + n <= rangeEnd /\ v + n <= VirtualPages
        /\ \A w \in v..(v + n - 1) : Free(w)
        /\ \A u \in FirstPage..(v - 1) : InTheWay(u, n, v)
    BY <1>1, <1>2, <1>4, <1>9 DEF FirstFit, v
  <2>2. /\ vpanic' # "inUse"
        /\ \A w \in VPage : entry'[w] \notin {NoFrame, OldFrame} =>
             w \in v..(v + n - 1) \/ entry[w] \notin {NoFrame, OldFrame}
    BY <1>1, <1>3, <1>4, <2>1, FoundMapped DEF VirtualInv
  <2>3. v..(v + n - 1) \subseteq FreeNow
    BY <1>1, <1>4, <2>1 DEF FreeNow, VPage
  <2>4. ASSUME NEW u \in FirstPage..(v - 1) PROVE ~(u..(u + n - 1) \subseteq FreeNow)
    <3>1. PICK w \in u..(u + n - 1) : ~Free(w)
      BY <2>1 DEF InTheWay
    <3> QED BY <3>1 DEF FreeNow
  <2>5. FindsFirstFit'
    <3>1. SearchStart = (FirstPage \div TablePages) * TablePages
      BY DEF SearchStart, TableOf
    <3> QED BY <1>6, <2>1, <2>2, <2>3, <2>4, <3>1 DEF FindsFirstFit
  <2>6. MappedInRange'
    <3> SUFFICES ASSUME ~lastMap'.lost, NEW w \in VPage, entry'[w] \notin {NoFrame, OldFrame}
                 PROVE  w \in SearchStart..(rangeEnd - 1)
      BY <1>3 DEF MappedInRange, SearchStart, TableOf, VPage
    <3>1. CASE w \in v..(v + n - 1)
      <4>1. SearchStart \in Nat /\ rangeEnd \in Nat
        BY <1>1, SearchStartIs
      <4> QED BY <1>1, <1>4, <2>1, <3>1, <4>1
    <3>2. CASE entry[w] \notin {NoFrame, OldFrame}
      <4>1. ~lastMap.lost
        BY <1>5
      <4> QED BY <3>2, <4>1 DEF VirtualInv, MapsOnlyFreeRanges, MappedInRange, SearchStart, TableOf
    <3> QED BY <2>2, <3>1, <3>2
  <2> QED BY <1>7, <2>5, <2>6 DEF VirtualInv, MapsOnlyFreeRanges
<1>10. CASE ~found.found
  <2>1. lastMap'.lost /\ lastMap'.kind = "npos"
    BY <1>5, <1>6, <1>10
  <2> QED BY <1>7, <2>1 DEF VirtualInv, MapsOnlyFreeRanges, FindsFirstFit, MappedInRange
<1> QED BY <1>9, <1>10

LEMMA PageOfAddress ==
  ASSUME NEW addr \in 0..(SpaceBytes - 2)
  PROVE  addr \div PageBytes \in VPage
<1> DEFINE B == PageBytes  p == addr \div B  r == addr % B
<1>1. B \in Nat /\ B >= 1 /\ VirtualPages \in Nat /\ VirtualPages * B \in Nat
  BY VirtualAssumption
<1>2. addr \in Nat /\ addr < VirtualPages * B
  BY <1>1 DEF SpaceBytes
<1> HIDE DEF B
<1>3. p \in Int /\ r \in Int /\ 0 <= r /\ r < B /\ addr = B * p + r
  BY <1>1, <1>2, SMT
<1> HIDE DEF p, r
<1>4. p < 0 => B * p <= -B
  BY <1>1, <1>3
<1>5. p >= VirtualPages => B * p >= VirtualPages * B
  BY <1>1, <1>3
<1>6. p \in 0..(VirtualPages - 1)
  BY <1>1, <1>2, <1>3, <1>4, <1>5
<1> QED BY <1>6 DEF VPage, p, B

LEMMA AtLeastOnePage ==
  ASSUME NEW n \in Nat \ {0}
  PROVE  TestedPages(n) \in Nat \ {0}
<1> DEFINE B == PageBytes  a == n + B - 1  p == a \div B  r == a % B
<1>1. B \in Nat /\ B >= 1
  BY VirtualAssumption
<1> HIDE DEF B
<1>2. a \in Nat /\ a >= B
  BY <1>1
<1>3. p \in Int /\ r \in Int /\ 0 <= r /\ r < B /\ a = B * p + r
  BY <1>1, <1>2, SMT
<1> HIDE DEF p, r
<1>4. p <= 0 => B * p <= 0
  BY <1>1, <1>3
<1>5. p >= 1
  BY <1>1, <1>2, <1>3, <1>4
<1> QED BY <1>3, <1>5 DEF TestedPages, p, B

(* A range that does not wrap is let through over a used page, so that the   *)
(* loop of map ends in the panic before it has mapped anything.              *)
LEMMA AtKeeps ==
  ASSUME VirtualInv, NEW n \in 1..MaxPages, NEW addr \in 0..(SpaceBytes - 2), MapAt(addr, n)
  PROVE  VirtualInv'
<1> DEFINE v == addr \div PageBytes
<1>1. n \in Nat \ {0} /\ v \in VPage /\ v \in Nat
  BY PageOfAddress, VirtualAssumption DEF VPage
<1>2. /\ vpanic = "none" /\ UNCHANGED rangeEnd
      /\ lastMap'.lost = (lastMap.lost \/ (Allowed(addr, n) /\ Wraps(addr, n)))
      /\ lastMap'.kind = (IF Allowed(addr, n) THEN "at" ELSE "refused")
  BY DEF MapAt
<1>3. lastMap'.lost \in BOOLEAN
  BY <1>2 DEF VirtualInv, VirtualTyped
<1>4. FindsFirstFit'
  BY <1>2 DEF FindsFirstFit
<1>5. CASE Allowed(addr, n)
  <2>1. MapPages(v, n)
    BY <1>5 DEF MapAt
  <2>2. ASSUME ~Wraps(addr, n) PROVE ~Free(v)
    <3>1. v + TestedPages(n) \in Nat /\ v + TestedPages(n) < VirtualPages /\ TestedPages(n) >= 1
      BY <1>1, <2>2, AtLeastOnePage, VirtualAssumption DEF Wraps
    <3>2. (v + TestedPages(n)) % VirtualPages = v + TestedPages(n)
      BY <3>1, InSpace
    <3>3. v \in v..(((v + TestedPages(n)) % VirtualPages) - 1)
      BY <1>1, <3>1, <3>2, AtLeastOnePage
    <3>4. isPageFree(v)
      BY <1>5, <3>3 DEF Allowed, isPageRangeFree
    <3> QED BY <3>4 DEF isPageFree
  <2> HIDE DEF v
  <2>3. VirtualTyped'
    BY <1>1, <1>2, <1>3, <2>1, TypedStays DEF VirtualInv
  <2>4. CASE Wraps(addr, n)
    <3>1. lastMap'.lost
      BY <1>2, <1>5, <2>4
    <3> QED BY <1>4, <2>3, <3>1 DEF VirtualInv, MapsOnlyFreeRanges, MappedInRange
  <2>5. CASE ~Wraps(addr, n)
    <3>1. vpanic' # "none" /\ entry' = entry
      BY <1>1, <1>2, <2>1, <2>2, <2>5, UsedNotMapped DEF VirtualInv
    <3>2. MappedInRange'
      BY <1>2, <2>5, <3>1 DEF VirtualInv, MapsOnlyFreeRanges, MappedInRange, VPage
    <3> QED BY <1>4, <2>3, <3>2 DEF VirtualInv, MapsOnlyFreeRanges
  <2> QED BY <2>4, <2>5
<1>6. CASE ~Allowed(addr, n)
  <2>1. UNCHANGED <<present, entry, framesUsed, vpanic, rangeEnd>> /\ lastMap'.lost = lastMap.lost
    BY <1>2, <1>6 DEF MapAt, VirtualInv, VirtualTyped
  <2>2. VirtualTyped'
    BY <1>3, <2>1 DEF VirtualInv, VirtualTyped, Slot, DirectoryIndex, VPage
  <2>3. MappedInRange'
    BY <2>1 DEF VirtualInv, MapsOnlyFreeRanges, MappedInRange, VPage
  <2> QED BY <1>4, <2>2, <2>3 DEF VirtualInv, MapsOnlyFreeRanges
<1> QED BY <1>5, <1>6

(* Memory/Virtual.cpp, for every size of pages, tables and ranges and any     *)
(* pages mapped before: a search that succeeds gives the first fit and maps  *)
(* just that; before a search has failed or a range was let through that     *)
(* wraps around the address space, nothing is mapped outside the tables.     *)
THEOREM MapsAlwaysFreeRanges == VirtualSpec => []MapsOnlyFreeRanges
<1>1. VirtualInit => VirtualInv
  <2> SUFFICES ASSUME VirtualInit PROVE VirtualInv
    OBVIOUS
  <2>1. PICK old \in SUBSET (FirstPage..(EndPage - 1)) :
          /\ entry = [v \in VPage |-> IF v \in old THEN OldFrame ELSE NoFrame]
          /\ present = [d \in DirectoryIndex |->
                          IF \E v \in old : TableOf(v) = d THEN OldFrame ELSE NoFrame]
    BY DEF VirtualInit
  <2>2. VirtualTyped
    BY <2>1 DEF VirtualInit, VirtualTyped, Slot
  <2>3. MapsOnlyFreeRanges
    BY <2>1 DEF VirtualInit, MapsOnlyFreeRanges, FindsFirstFit, MappedInRange
  <2> QED BY <2>2, <2>3 DEF VirtualInv
<1>2. VirtualInv /\ [VirtualNext]_virtualVars => VirtualInv'
  <2> SUFFICES ASSUME VirtualInv, [VirtualNext]_virtualVars PROVE VirtualInv'
    OBVIOUS
  <2>1. CASE UNCHANGED virtualVars
    BY <2>1 DEF virtualVars, VirtualInv, VirtualTyped, MapsOnlyFreeRanges, FindsFirstFit,
                MappedInRange, Slot, DirectoryIndex, VPage
  <2> QED BY <2>1, AnywhereKeeps, AtKeeps DEF VirtualNext
<1>3. VirtualInv => MapsOnlyFreeRanges
  BY DEF VirtualInv
<1> QED BY <1>1, <1>2, <1>3, PTL DEF VirtualSpec

(***************************************************************************)
(* Strings.                                                                *)
(***************************************************************************)
LEMMA MemoryIs ==
  ASSUME NEW m \in Memory, NEW a \in Address
  PROVE  /\ a \in Nat /\ a < Cells /\ Cells \in Nat /\ m[a] \in Nat /\ m[a] \in Char \cup {0}
         /\ (m[a] # 0 => m[a] \in Char)
<1>1. m[a] \in Char \cup {0}
  BY DEF Memory
<1>2. a \in Nat /\ a < Cells /\ Cells \in Nat
  BY StringsAssumption DEF Address
<1>3. ASSUME NEW c \in Char PROVE c \in Nat
  BY StringsAssumption
<1>4. m[a] \in Nat
  BY <1>1, <1>3
<1> QED BY <1>1, <1>2, <1>4

(* strlen is the distance to the first terminator.                          *)
LEMMA StrlenIs ==
  ASSUME NEW m \in Memory, NEW p \in Address, Terminated(m, p)
  PROVE  /\ strlen(m, p) \in Nat /\ p + strlen(m, p) \in Address
         /\ m[p + strlen(m, p)] = 0 /\ \A b \in p..(p + strlen(m, p) - 1) : m[b] # 0
<1> DEFINE P(a) == a >= p /\ m[a] = 0 /\ \A b \in p..(a - 1) : m[b] # 0
           F == {a \in Address : a >= p /\ m[a] = 0}
           e == CHOOSE a \in Address : P(a)
<1>1. Address \subseteq Nat /\ p \in Nat
  BY DEF Address
<1>2. PICK a \in F : \A b \in F : a <= b
  <2>1. F \subseteq Nat /\ F # {}
    BY <1>1 DEF Terminated
  <2> HIDE DEF F
  <2> QED BY <2>1, LeastNumber
<1>3. P(a)
  <2>1. ASSUME NEW b \in p..(a - 1), m[b] = 0 PROVE FALSE
    <3>1. b \in F /\ b \in Nat /\ a \in Nat /\ b < a
      BY <1>1, <1>2, <2>1, StringsAssumption DEF Address
    <3> QED BY <1>2, <3>1
  <2> QED BY <1>2, <2>1
<1>4. e \in Address /\ P(e)
  <2>1. \E x \in Address : P(x)
    BY <1>2, <1>3
  <2> HIDE DEF P
  <2> QED BY <2>1
<1> HIDE DEF e
<1>5. strlen(m, p) = e - p
  BY DEF strlen, e
<1> QED BY <1>1, <1>4, <1>5

LEMMA StrlenOf ==
  ASSUME NEW m \in Memory, NEW p \in Address, NEW n \in Nat, p + n \in Address, m[p + n] = 0,
         \A i \in 0..(n - 1) : m[p + i] # 0
  PROVE  Terminated(m, p) /\ strlen(m, p) = n
<1> DEFINE l == strlen(m, p)
<1>1. p \in Nat /\ Address \subseteq Nat
  BY DEF Address
<1>2. Terminated(m, p)
  BY <1>1 DEF Terminated
<1>3. l \in Nat /\ m[p + l] = 0 /\ \A b \in p..(p + l - 1) : m[b] # 0
  BY <1>2, StrlenIs
<1> HIDE DEF l
<1>4. ~(l < n)
  BY <1>3
<1>5. ~(n < l)
  BY <1>1, <1>3
<1> QED BY <1>2, <1>3, <1>4, <1>5 DEF l

(* The text of a string, character by character.                            *)
LEMMA TextIs ==
  ASSUME NEW m \in Memory, NEW p \in Address, Terminated(m, p)
  PROVE  /\ Text(m, p) \in Seq(Char) /\ Len(Text(m, p)) = strlen(m, p)
         /\ \A i \in 1..strlen(m, p) : Text(m, p)[i] = m[p + i - 1]
         /\ Text(m, p) = [i \in 1..strlen(m, p) |-> m[p + i - 1]]
<1> DEFINE l == strlen(m, p)
           f == [i \in 1..Cells |-> m[i - 1]]
           t == SubSeq(f, p + 1, p + l)
<1>1. /\ p \in Nat /\ l \in Nat /\ p + l < Cells /\ Cells \in Nat /\ p + l \in Address
      /\ \A b \in p..(p + l - 1) : m[b] # 0
  BY StrlenIs, StringsAssumption DEF Address
<1> HIDE DEF l
<1>2. f \in Seq(Char \cup {0}) /\ Len(f) = Cells
  <2>1. \A i \in 1..Cells : i - 1 \in Address
    BY <1>1 DEF Address
  <2>2. \A i \in 1..Cells : m[i - 1] \in Char \cup {0}
    BY <2>1 DEF Memory
  <2> QED BY <1>1, <2>2
<1>3. t \in Seq(Char \cup {0}) /\ Len(t) = l /\ \A i \in 1..l : t[i] = f[(p + 1) + i - 1]
  <2> HIDE DEF f
  <2>1. p + 1 \in Int /\ p + l \in Int
    BY <1>1
  <2>2. /\ \A i \in (p + 1)..(p + l) : f[i] \in Char \cup {0}
        /\ (p + l) - (p + 1) + 1 = l /\ (IF p + 1 <= p + l + 1 THEN (p + l) - (p + 1) + 1 ELSE 0) = l
    BY <1>1, <1>2
  <2>3. t \in Seq(Char \cup {0})
    BY <1>1, <1>2, <2>1, <2>2, SubSeqProperties
  <2>4. Len(t) = l
    BY <1>1, <1>2, <2>1, <2>2, SubSeqProperties
  <2>5. ASSUME NEW i \in 1..l PROVE t[i] = f[(p + 1) + i - 1]
    BY <1>1, <1>2, <2>1, <2>2, SubSeqProperties
  <2> QED BY <2>3, <2>4, <2>5
<1>4. ASSUME NEW i \in 1..l PROVE t[i] = m[p + i - 1] /\ t[i] \in Char
  <2>1. (p + 1) + i - 1 \in 1..Cells /\ ((p + 1) + i - 1) - 1 = p + i - 1 /\ p + i - 1 \in Address
        /\ p + i - 1 \in p..(p + l - 1)
    BY <1>1 DEF Address
  <2>2. f[(p + 1) + i - 1] = m[p + i - 1]
    BY <2>1
  <2> HIDE DEF f, t
  <2>3. m[p + i - 1] \in Char
    BY <1>1, <2>1, MemoryIs
  <2> QED BY <1>3, <2>2, <2>3
<1> HIDE DEF t
<1>5. t = [i \in 1..l |-> m[p + i - 1]]
  <2>1. DOMAIN t = 1..l /\ t = [i \in DOMAIN t |-> t[i]]
    BY <1>1, <1>3
  <2> QED BY <1>4, <2>1
<1>6. t \in Seq(Char)
  BY <1>1, <1>3, <1>4
<1>7. Text(m, p) = t
  BY DEF Text, t, l
<1> QED BY <1>3, <1>4, <1>5, <1>6, <1>7 DEF l

(* The loops of memcpy and memmove: the assignments one after the other.    *)
Assigning(f, m, d, s, order, n) ==
  /\ f \in [0..n -> Memory] /\ f[0] = m /\ Assign(m, d, s, order) = f[n]
  /\ \A k \in 1..n : \A a \in Address :
       f[k][a] = IF a = d + order[k] THEN f[k - 1][s + order[k]] ELSE f[k - 1][a]

LEMMA AssignLoop ==
  ASSUME NEW m \in Memory, NEW d \in Int, NEW s \in Int, NEW n \in Nat,
         NEW order \in [1..n -> Int],
         \A k \in 1..n : d + order[k] \in Address /\ s + order[k] \in Address
  PROVE  \E f : Assigning(f, m, d, s, order, n)
<1> DEFINE step(f) == [k \in 0..n |->
                         IF k = 0 THEN m
                         ELSE [f[k - 1] EXCEPT ![d + order[k]] = f[k - 1][s + order[k]]]]
           done == CHOOSE f : f = step(f)
           round == [k \in (0 + 1)..n |->
                       [o \in Memory |-> [o EXCEPT ![d + order[k]] = o[s + order[k]]]]]
<1>0. Len(order) = n
  <2>1. order \in Seq(Int)
    OBVIOUS
  <2> QED BY <2>1
<1>1. Assign(m, d, s, order) = done[n]
  BY <1>0 DEF Assign
<1>2. ASSUME NEW k \in 1..n, NEW o \in Memory
      PROVE  [o EXCEPT ![d + order[k]] = o[s + order[k]]] \in Memory
  BY DEF Memory
<1>3. round \in Rounds(Memory, 0, n)
  BY <1>2 DEF Rounds
<1> HIDE DEF round
<1>4. PICK f : IsLoop(f, Memory, 0, n, m, round)
  BY <1>3, LoopDefined
<1>5. ASSUME NEW k \in 1..n
      PROVE  f[k] = [f[k - 1] EXCEPT ![d + order[k]] = f[k - 1][s + order[k]]] /\ f[k - 1] \in Memory
  <2>1. f[k] = round[k][f[k - 1]] /\ f[k - 1] \in Memory
    BY <1>4 DEF IsLoop
  <2> QED BY <2>1 DEF round
<1>6. f = step(f)
  <2>1. \A k \in 0..n : f[k] = IF k = 0 THEN m
                               ELSE [f[k - 1] EXCEPT ![d + order[k]] = f[k - 1][s + order[k]]]
    <3> SUFFICES ASSUME NEW k \in 0..n
                 PROVE  f[k] = IF k = 0 THEN m
                               ELSE [f[k - 1] EXCEPT ![d + order[k]] = f[k - 1][s + order[k]]]
      OBVIOUS
    <3>1. CASE k = 0
      BY <1>4, <3>1 DEF IsLoop
    <3>2. CASE k # 0
      <4>1. k \in 1..n
        BY <3>2
      <4> QED BY <1>5, <3>2, <4>1
    <3> QED BY <3>1, <3>2
  <2>2. f = [k \in 0..n |-> f[k]]
    BY <1>4 DEF IsLoop
  <2> QED BY <2>1, <2>2
<1>7. done = step(done)
  <2> HIDE DEF step
  <2>1. \E g : g = step(g)
    BY <1>6
  <2> QED BY <2>1, Zenon
<1> HIDE DEF done
<1>8. \A k \in 0..n : done[k] = IF k = 0 THEN m
                                ELSE [done[k - 1] EXCEPT ![d + order[k]] = done[k - 1][s + order[k]]]
  BY <1>7
<1>9. done[0] = m
  <2>1. 0 \in 0..n
    OBVIOUS
  <2> QED BY <1>8, <2>1, Zenon
<1>10. ASSUME NEW k \in 1..n
       PROVE  done[k] = [done[k - 1] EXCEPT ![d + order[k]] = done[k - 1][s + order[k]]]
  <2>1. k \in 0..n /\ k # 0
    OBVIOUS
  <2> QED BY <1>8, <2>1, Zenon
<1>11. DOMAIN done = 0..n /\ done = [k \in 0..n |-> done[k]]
  BY <1>7
<1> HIDE DEF step
<1> DEFINE Q == {k \in 0..n : done[k] \in Memory}
<1>12. 0 \in Q
  BY <1>9
<1>13. ASSUME NEW k \in (0 + 1)..n, k - 1 \in Q PROVE k \in Q
  <2>1. k \in 0..n /\ k \in 1..n /\ k # 0
    OBVIOUS
  <2>2. done[k] = [done[k - 1] EXCEPT ![d + order[k]] = done[k - 1][s + order[k]]]
    BY <1>10, <2>1
  <2> QED BY <1>2, <1>13, <2>1, <2>2
<1> HIDE DEF Q
<1>14. \A k \in 0..n : k \in Q
  <2>1. 0 \in Int /\ n \in Int
    OBVIOUS
  <2> QED BY <1>12, <1>13, <2>1, CountUp
<1>15. \A k \in 0..n : done[k] \in Memory
  BY <1>14 DEF Q
<1>16. done \in [0..n -> Memory] /\ done[0] = m
  BY <1>9, <1>11, <1>15
<1>17. ASSUME NEW k \in 1..n, NEW a \in Address
       PROVE  done[k][a] = IF a = d + order[k] THEN done[k - 1][s + order[k]] ELSE done[k - 1][a]
  <2>1. done[k] = [done[k - 1] EXCEPT ![d + order[k]] = done[k - 1][s + order[k]]]
    BY <1>10
  <2>2. DOMAIN done[k - 1] = Address
    BY <1>15 DEF Memory
  <2> QED BY <2>1, <2>2
<1>18. Assigning(done, m, d, s, order, n)
  BY <1>1, <1>16, <1>17 DEF Assigning
<1> QED BY <1>18

(* Bytes d..d + n - 1 of r are a copy of the ones at s of m; others as in m. *)
IsCopy(r, m, d, s, n) ==
  /\ r \in Memory
  /\ \A i \in 0..(n - 1) : r[d + i] = m[s + i]
  /\ \A a \in Address : a \notin d..(d + n - 1) => r[a] = m[a]

(* Upward, each byte is read before it is written over.                     *)
LEMMA CopyUp ==
  ASSUME NEW m \in Memory, NEW d \in Address, NEW s \in Address, NEW n \in Nat, Fits(d, n), Fits(s, n),
         d < s \/ d >= s + n
  PROVE  IsCopy(Assign(m, d, s, Upward(n)), m, d, s, n)
<1> DEFINE order == Upward(n)
<1>1. d \in Nat /\ s \in Nat /\ Cells \in Nat /\ d + n <= Cells /\ s + n <= Cells
  BY StringsAssumption DEF Address, Fits
<1>2. order \in [1..n -> Int] /\ \A k \in 1..n : order[k] = k - 1
  BY DEF Upward
<1> HIDE DEF order
<1>3. \A k \in 1..n : d + order[k] \in Address /\ s + order[k] \in Address
  BY <1>1, <1>2 DEF Address
<1>4. PICK f : Assigning(f, m, d, s, order, n)
  <2>1. d \in Int /\ s \in Int
    BY <1>1
  <2> QED BY <1>2, <1>3, <2>1, AssignLoop
<1>5. /\ f \in [0..n -> Memory] /\ f[0] = m /\ Assign(m, d, s, order) = f[n]
      /\ \A k \in 1..n : \A a \in Address :
           f[k][a] = IF a = d + order[k] THEN f[k - 1][s + order[k]] ELSE f[k - 1][a]
  BY <1>4 DEF Assigning
<1> DEFINE Good(k) == /\ \A i \in 0..(k - 1) : f[k][d + i] = m[s + i]
                      /\ \A a \in Address : a \notin d..(d + k - 1) => f[k][a] = m[a]
           Q == {k \in 0..n : Good(k)}
<1>6. 0 \in Q
  BY <1>5
<1>7. ASSUME NEW k \in (0 + 1)..n, k - 1 \in Q PROVE k \in Q
  <2>1. Good(k - 1) /\ k \in 1..n /\ k \in 0..n
    BY <1>7
  <2>2. d + (k - 1) \in Address /\ s + (k - 1) \in Address /\ s + (k - 1) \notin d..(d + (k - 1) - 1)
    BY <1>1 DEF Address
  <2>3. f[k - 1][s + (k - 1)] = m[s + (k - 1)]
    BY <2>1, <2>2
  <2>4. \A a \in Address : f[k][a] = IF a = d + (k - 1) THEN m[s + (k - 1)] ELSE f[k - 1][a]
    BY <1>2, <1>5, <2>1, <2>3
  <2>5. ASSUME NEW i \in 0..(k - 1) PROVE f[k][d + i] = m[s + i]
    <3>1. CASE i = k - 1
      BY <2>2, <2>4, <3>1
    <3>2. CASE i # k - 1
      <4>1. i \in 0..((k - 1) - 1) /\ d + i \in Address /\ d + i # d + (k - 1)
        BY <1>1, <3>2 DEF Address
      <4> QED BY <2>1, <2>4, <4>1
    <3> QED BY <3>1, <3>2
  <2>6. ASSUME NEW a \in Address, a \notin d..(d + k - 1) PROVE f[k][a] = m[a]
    <3>1. a # d + (k - 1) /\ a \notin d..(d + (k - 1) - 1)
      BY <1>1, <2>6 DEF Address
    <3> QED BY <2>1, <2>4, <3>1
  <2> QED BY <2>1, <2>5, <2>6
<1> HIDE DEF Q
<1>8. n \in Q
  <2>1. 0 \in Int /\ n \in Int
    OBVIOUS
  <2>2. \A k \in 0..n : k \in Q
    BY <1>6, <1>7, <2>1, CountUp
  <2> QED BY <2>2
<1>9. Good(n) /\ f[n] \in Memory
  BY <1>5, <1>8 DEF Q
<1> QED BY <1>5, <1>9 DEF IsCopy, order

(* Downward, when the destination is not below the source.                  *)
LEMMA CopyDown ==
  ASSUME NEW m \in Memory, NEW d \in Address, NEW s \in Address, NEW n \in Nat, Fits(d, n), Fits(s, n),
         d >= s
  PROVE  IsCopy(Assign(m, d, s, Downward(n)), m, d, s, n)
<1> DEFINE order == Downward(n)
<1>1. d \in Nat /\ s \in Nat /\ Cells \in Nat /\ d + n <= Cells /\ s + n <= Cells
  BY StringsAssumption DEF Address, Fits
<1>2. order \in [1..n -> Int] /\ \A k \in 1..n : order[k] = n - k
  BY DEF Downward
<1> HIDE DEF order
<1>3. \A k \in 1..n : d + order[k] \in Address /\ s + order[k] \in Address
  BY <1>1, <1>2 DEF Address
<1>4. PICK f : Assigning(f, m, d, s, order, n)
  <2>1. d \in Int /\ s \in Int
    BY <1>1
  <2> QED BY <1>2, <1>3, <2>1, AssignLoop
<1>5. /\ f \in [0..n -> Memory] /\ f[0] = m /\ Assign(m, d, s, order) = f[n]
      /\ \A k \in 1..n : \A a \in Address :
           f[k][a] = IF a = d + order[k] THEN f[k - 1][s + order[k]] ELSE f[k - 1][a]
  BY <1>4 DEF Assigning
<1> DEFINE Good(k) == /\ \A i \in (n - k)..(n - 1) : f[k][d + i] = m[s + i]
                      /\ \A a \in Address : a \notin (d + n - k)..(d + n - 1) => f[k][a] = m[a]
           Q == {k \in 0..n : Good(k)}
<1>6. 0 \in Q
  BY <1>5
<1>7. ASSUME NEW k \in (0 + 1)..n, k - 1 \in Q PROVE k \in Q
  <2>1. Good(k - 1) /\ k \in 1..n /\ k \in 0..n
    BY <1>7
  <2>2. d + (n - k) \in Address /\ s + (n - k) \in Address
        /\ s + (n - k) \notin (d + n - (k - 1))..(d + n - 1)
    BY <1>1 DEF Address
  <2>3. f[k - 1][s + (n - k)] = m[s + (n - k)]
    BY <2>1, <2>2
  <2>4. \A a \in Address : f[k][a] = IF a = d + (n - k) THEN m[s + (n - k)] ELSE f[k - 1][a]
    BY <1>2, <1>5, <2>1, <2>3
  <2>5. ASSUME NEW i \in (n - k)..(n - 1) PROVE f[k][d + i] = m[s + i]
    <3>1. CASE i = n - k
      BY <2>2, <2>4, <3>1
    <3>2. CASE i # n - k
      <4>1. i \in (n - (k - 1))..(n - 1) /\ d + i \in Address /\ d + i # d + (n - k)
        BY <1>1, <3>2 DEF Address
      <4> QED BY <2>1, <2>4, <4>1
    <3> QED BY <3>1, <3>2
  <2>6. ASSUME NEW a \in Address, a \notin (d + n - k)..(d + n - 1) PROVE f[k][a] = m[a]
    <3>1. a # d + (n - k) /\ a \notin (d + n - (k - 1))..(d + n - 1)
      BY <1>1, <2>6 DEF Address
    <3> QED BY <2>1, <2>4, <3>1
  <2> QED BY <2>1, <2>5, <2>6
<1> HIDE DEF Q
<1>8. n \in Q
  <2>1. 0 \in Int /\ n \in Int
    OBVIOUS
  <2>2. \A k \in 0..n : k \in Q
    BY <1>6, <1>7, <2>1, CountUp
  <2> QED BY <2>2
<1>9. Good(n) /\ f[n] \in Memory
  BY <1>5, <1>8 DEF Q
<1>10. n - n = 0 /\ d + n - n = d
  BY <1>1
<1> QED BY <1>5, <1>9, <1>10 DEF IsCopy, order

(* A copy that ends in a terminator is a string: the first n characters.    *)
LEMMA CopiedText ==
  ASSUME NEW m \in Memory, NEW r \in Memory, NEW d \in Address, NEW s \in Address, NEW n \in Nat,
         Terminated(m, s), n <= strlen(m, s), d + n \in Address, r[d + n] = 0,
         \A i \in 0..(n - 1) : r[d + i] = m[s + i]
  PROVE  Terminated(r, d) /\ Text(r, d) = SubSeq(Text(m, s), 1, n)
<1> DEFINE t == Text(m, s)  l == strlen(m, s)
<1>1. d \in Nat /\ s \in Nat /\ l \in Nat /\ \A b \in s..(s + l - 1) : m[b] # 0
  BY StrlenIs DEF Address
<1>2. t \in Seq(Char) /\ Len(t) = l /\ \A i \in 1..l : t[i] = m[s + i - 1]
  BY TextIs
<1>3. n <= l
  OBVIOUS
<1> HIDE DEF t, l
<1>4. \A i \in 0..(n - 1) : r[d + i] # 0
  <2> SUFFICES ASSUME NEW i \in 0..(n - 1) PROVE r[d + i] # 0
    OBVIOUS
  <2>1. s + i \in s..(s + l - 1)
    BY <1>1, <1>3
  <2> QED BY <1>1, <2>1
<1>5. Terminated(r, d) /\ strlen(r, d) = n
  BY <1>4, StrlenOf
<1>6. Text(r, d) \in Seq(Char) /\ Len(Text(r, d)) = n /\ \A i \in 1..n : Text(r, d)[i] = r[d + i - 1]
  BY <1>5, TextIs
<1>7. /\ SubSeq(t, 1, n) \in Seq(Char) /\ Len(SubSeq(t, 1, n)) = n
      /\ \A i \in 1..n : SubSeq(t, 1, n)[i] = t[i]
  <2>1. \A i \in 1..n : t[i] \in Char
    BY <1>1, <1>2, <1>3
  <2>2. \A i \in 1..(n - 1 + 1) : SubSeq(t, 1, n)[i] = t[1 + i - 1]
    BY <2>1, SubSeqProperties
  <2>3. SubSeq(t, 1, n) \in Seq(Char) /\ Len(SubSeq(t, 1, n)) = IF 1 <= n THEN n - 1 + 1 ELSE 0
    BY <2>1, SubSeqProperties
  <2>4. ASSUME NEW i \in 1..n PROVE SubSeq(t, 1, n)[i] = t[i]
    <3>1. i \in 1..(n - 1 + 1) /\ 1 + i - 1 = i
      OBVIOUS
    <3> QED BY <2>2, <3>1
  <2> QED BY <2>3, <2>4
<1>8. \A i \in 1..n : Text(r, d)[i] = SubSeq(t, 1, n)[i]
  <2> SUFFICES ASSUME NEW i \in 1..n PROVE Text(r, d)[i] = SubSeq(t, 1, n)[i]
    OBVIOUS
  <2>1. i - 1 \in 0..(n - 1) /\ i \in 1..l /\ d + (i - 1) = d + i - 1 /\ s + (i - 1) = s + i - 1
    BY <1>1, <1>3
  <2>2. r[d + (i - 1)] = m[s + (i - 1)]
    BY <2>1
  <2> QED BY <1>2, <1>6, <1>7, <2>1, <2>2
<1>9. Text(r, d) = SubSeq(t, 1, n)
  BY <1>6, <1>7, <1>8, SeqEqual
<1> QED BY <1>5, <1>9 DEF t

(* strcpy and strncpy.                                                      *)
LEMMA CopyStringIs ==
  ASSUME NEW m \in Memory, NEW d \in Address, NEW s \in Address, NEW n \in Nat,
         Terminated(m, s), n <= strlen(m, s), Fits(d, n + 1), d + n < s \/ s + n < d
  PROVE  /\ Terminated(CopyString(m, d, s, n), d)
         /\ Text(CopyString(m, d, s, n), d) = SubSeq(Text(m, s), 1, n)
         /\ \A a \in Address : a \notin d..(d + n) => CopyString(m, d, s, n)[a] = m[a]
<1> DEFINE c == memcpy(m, d, s, n)  r == CopyString(m, d, s, n)
<1>1. d \in Nat /\ s \in Nat /\ d + n + 1 <= Cells /\ strlen(m, s) \in Nat
      /\ s + strlen(m, s) < Cells /\ Cells \in Nat
  BY StrlenIs, StringsAssumption DEF Address, Fits
<1>2. Fits(d, n) /\ Fits(s, n) /\ (d < s \/ d >= s + n) /\ d + n \in Address
  BY <1>1 DEF Fits, Address
<1>3. IsCopy(c, m, d, s, n)
  BY <1>2, CopyUp DEF memcpy
<1> HIDE DEF c
<1>4. r = [c EXCEPT ![d + n] = 0]
  BY DEF CopyString, c
<1> HIDE DEF r
<1>5. r \in Memory /\ r[d + n] = 0 /\ \A a \in Address : a # d + n => r[a] = c[a]
  BY <1>2, <1>3, <1>4 DEF Memory, IsCopy
<1>6. ASSUME NEW i \in 0..(n - 1) PROVE r[d + i] = m[s + i]
  <2>1. d + i \in Address /\ d + i # d + n
    BY <1>1 DEF Address
  <2> QED BY <1>3, <1>5, <2>1 DEF IsCopy
<1>7. ASSUME NEW a \in Address, a \notin d..(d + n) PROVE r[a] = m[a]
  <2>1. a \notin d..(d + n - 1) /\ a # d + n
    BY <1>1, <1>7 DEF Address
  <2> QED BY <1>3, <1>5, <2>1 DEF IsCopy
<1>8. Terminated(r, d) /\ Text(r, d) = SubSeq(Text(m, s), 1, n)
  BY <1>2, <1>5, <1>6, CopiedText
<1> QED BY <1>7, <1>8 DEF r

(* strcat: the copy begins at the terminator of the first string.           *)
LEMMA AppendIs ==
  ASSUME NEW m \in Memory, NEW d \in Address, NEW s \in Address,
         Terminated(m, s), Terminated(m, d), NEW r, NEW e, NEW n,
         n = strlen(m, s), e = d + strlen(m, d),
         Fits(e, n + 1), e + n < s \/ s + n < d, r = memcpy(m, e, s, n + 1)
  PROVE  /\ Terminated(r, d) /\ Text(r, d) = Text(m, d) \o Text(m, s)
         /\ \A a \in Address : a \notin d..(d + Len(Text(r, d))) => r[a] = m[a]
<1> DEFINE l == strlen(m, d)
<1>1. d \in Nat /\ s \in Nat /\ Cells \in Nat
  BY StringsAssumption DEF Address
<1>2. /\ n \in Nat /\ s + n \in Address /\ m[s + n] = 0 /\ \A b \in s..(s + n - 1) : m[b] # 0
  BY StrlenIs
<1>3. /\ l \in Nat /\ e = d + l /\ e \in Address /\ m[e] = 0
      /\ \A b \in d..(d + l - 1) : m[b] # 0
  BY StrlenIs
<1>4. e + (n + 1) <= Cells /\ s + n < Cells
  BY <1>1, <1>2 DEF Fits, Address
<1>5. /\ Text(m, d) \in Seq(Char) /\ Len(Text(m, d)) = l
      /\ \A i \in 1..l : Text(m, d)[i] = m[d + i - 1]
  BY TextIs
<1>6. /\ Text(m, s) \in Seq(Char) /\ Len(Text(m, s)) = n
      /\ \A i \in 1..n : Text(m, s)[i] = m[s + i - 1]
  BY TextIs
<1> HIDE DEF l
<1>7. IsCopy(r, m, e, s, n + 1)
  <2>1. Fits(s, n + 1) /\ (e < s \/ e >= s + (n + 1)) /\ n + 1 \in Nat
    BY <1>1, <1>2, <1>3, <1>4 DEF Fits
  <2> QED BY <1>2, <1>3, <2>1, CopyUp DEF memcpy
<1>8. r \in Memory /\ \A i \in 0..n : r[e + i] = m[s + i]
  <2>1. (n + 1) - 1 = n
    BY <1>2
  <2> QED BY <1>7, <2>1 DEF IsCopy
<1>9. \A a \in Address : a \notin e..(e + n) => r[a] = m[a]
  <2>1. e + (n + 1) - 1 = e + n
    BY <1>1, <1>2, <1>3
  <2> QED BY <1>7, <2>1 DEF IsCopy
<1>10. /\ d + (l + n) \in Address /\ d + (l + n) = e + n /\ r[d + (l + n)] = 0 /\ l + n \in Nat
  BY <1>1, <1>2, <1>3, <1>4, <1>8 DEF Address
<1>11. ASSUME NEW i \in 0..(l + n - 1)
       PROVE  r[d + i] = IF i < l THEN m[d + i] ELSE m[s + (i - l)]
  <2>1. CASE i < l
    <3>1. d + i \in Address /\ d + i \notin e..(e + n)
      BY <1>1, <1>2, <1>3, <1>4, <2>1 DEF Address
    <3> QED BY <1>9, <2>1, <3>1
  <2>2. CASE ~(i < l)
    <3>1. i - l \in 0..n /\ e + (i - l) = d + i
      BY <1>1, <1>2, <1>3, <2>2
    <3> QED BY <1>8, <2>2, <3>1
  <2> QED BY <2>1, <2>2
<1>12. ASSUME NEW i \in 0..(l + n - 1) PROVE r[d + i] # 0
  <2>1. CASE i < l
    <3>1. d + i \in d..(d + l - 1)
      BY <1>1, <1>3, <2>1
    <3> QED BY <1>3, <1>11, <2>1, <3>1
  <2>2. CASE ~(i < l)
    <3>1. s + (i - l) \in s..(s + n - 1)
      BY <1>1, <1>2, <1>3, <2>2
    <3> QED BY <1>2, <1>11, <2>2, <3>1
  <2> QED BY <2>1, <2>2
<1>13. Terminated(r, d) /\ strlen(r, d) = l + n
  <2> DEFINE k == l + n
  <2>1. k \in Nat /\ d + k \in Address /\ r[d + k] = 0
    BY <1>10
  <2>2. k = l + n
    OBVIOUS
  <2>3. \A i \in 0..(k - 1) : r[d + i] # 0
    BY <1>2, <1>3, <1>12, <2>2
  <2> HIDE DEF k
  <2>4. Terminated(r, d) /\ strlen(r, d) = k
    BY <1>8, <2>1, <2>3, StrlenOf
  <2> QED BY <2>2, <2>4
<1>14. /\ Text(r, d) \in Seq(Char) /\ Len(Text(r, d)) = l + n
       /\ \A i \in 1..(l + n) : Text(r, d)[i] = r[d + i - 1]
  BY <1>8, <1>13, TextIs
<1> DEFINE u == Text(m, d) \o Text(m, s)
<1>15. /\ u \in Seq(Char) /\ Len(u) = l + n
       /\ \A i \in 1..(l + n) : u[i] = IF i <= l THEN Text(m, d)[i] ELSE Text(m, s)[i - l]
  <2> DEFINE t1 == Text(m, d)  t2 == Text(m, s)
  <2>1. t1 \in Seq(Char) /\ t2 \in Seq(Char) /\ Len(t1) = l /\ Len(t2) = n
    BY <1>5, <1>6
  <2> HIDE DEF t1, t2
  <2>2. /\ t1 \o t2 \in Seq(Char) /\ Len(t1 \o t2) = Len(t1) + Len(t2)
        /\ \A i \in 1..(Len(t1) + Len(t2)) :
             (t1 \o t2)[i] = IF i <= Len(t1) THEN t1[i] ELSE t2[i - Len(t1)]
    BY <2>1, ConcatProperties
  <2> QED BY <2>1, <2>2 DEF t1, t2
<1> HIDE DEF u
<1>16. ASSUME NEW i \in 1..(l + n) PROVE Text(r, d)[i] = u[i]
  <2>1. i - 1 \in 0..(l + n - 1) /\ d + (i - 1) = d + i - 1
    BY <1>1, <1>2, <1>3
  <2>2. r[d + i - 1] = IF i - 1 < l THEN m[d + i - 1] ELSE m[s + ((i - 1) - l)]
    BY <1>11, <2>1
  <2>3. CASE i <= l
    <3>1. i - 1 < l /\ i \in 1..l
      BY <1>2, <1>3, <2>3
    <3> QED BY <1>5, <1>14, <1>15, <2>2, <2>3, <3>1
  <2>4. CASE ~(i <= l)
    <3>1. ~(i - 1 < l) /\ i - l \in 1..n /\ s + (i - l) - 1 = s + ((i - 1) - l)
      BY <1>1, <1>2, <1>3, <2>4
    <3> QED BY <1>6, <1>14, <1>15, <2>2, <2>4, <3>1
  <2> QED BY <2>3, <2>4
<1>17. Text(r, d) = u
  BY <1>14, <1>15, <1>16, SeqEqual
<1>18. ASSUME NEW a \in Address, a \notin d..(d + (l + n)) PROVE r[a] = m[a]
  <2>1. a \notin e..(e + n)
    BY <1>1, <1>2, <1>3, <1>18 DEF Address
  <2> QED BY <1>9, <2>1
<1> QED BY <1>13, <1>14, <1>17, <1>18 DEF u

(* What the two orders on sequences say, element by element.                *)
LEMMA PrefixIs ==
  ASSUME NEW S, NEW s \in Seq(S), NEW t \in Seq(S)
  PROVE  SX!IsPrefix(s, t) <=> Len(s) <= Len(t) /\ \A i \in 1..Len(s) : s[i] = t[i]
<1> DEFINE n == Len(s)
<1>1. n \in Nat /\ Len(t) \in Nat
  OBVIOUS
<1> HIDE DEF n
<1>2. ASSUME NEW x \in Seq(S), n <= Len(x)
      PROVE  /\ SubSeq(x, 1, n) \in Seq(S) /\ Len(SubSeq(x, 1, n)) = n
             /\ \A i \in 1..n : SubSeq(x, 1, n)[i] = x[i]
  <2>1. \A i \in 1..n : x[i] \in S
    BY <1>1, <1>2
  <2>2. \A i \in 1..(n - 1 + 1) : SubSeq(x, 1, n)[i] = x[1 + i - 1]
    BY <1>1, <2>1, SubSeqProperties
  <2>3. SubSeq(x, 1, n) \in Seq(S) /\ Len(SubSeq(x, 1, n)) = IF 1 <= n THEN n - 1 + 1 ELSE 0
    BY <1>1, <2>1, SubSeqProperties
  <2>4. ASSUME NEW i \in 1..n PROVE SubSeq(x, 1, n)[i] = x[i]
    <3>1. i \in 1..(n - 1 + 1) /\ 1 + i - 1 = i
      BY <1>1
    <3> QED BY <2>2, <3>1
  <2> QED BY <1>1, <2>3, <2>4
<1>3. n <= Len(s)
  BY <1>1 DEF n
<1>4. ASSUME n <= Len(t)
      PROVE  SubSeq(s, 1, n) = SubSeq(t, 1, n) <=> \A i \in 1..n : s[i] = t[i]
  <2> DEFINE u == SubSeq(s, 1, n)  v == SubSeq(t, 1, n)
  <2>1. u \in Seq(S) /\ Len(u) = n /\ \A i \in 1..n : u[i] = s[i]
    BY <1>2, <1>3
  <2>2. v \in Seq(S) /\ Len(v) = n /\ \A i \in 1..n : v[i] = t[i]
    BY <1>2, <1>4
  <2> HIDE DEF u, v
  <2>3. (\A i \in 1..n : s[i] = t[i]) => u = v
    <3> SUFFICES ASSUME \A i \in 1..n : s[i] = t[i] PROVE u = v
      OBVIOUS
    <3>1. \A i \in 1..Len(u) : u[i] = v[i]
      BY <2>1, <2>2
    <3> QED BY <2>1, <2>2, <3>1, SeqEqual
  <2>4. u = v => \A i \in 1..n : s[i] = t[i]
    BY <2>1, <2>2
  <2> QED BY <2>3, <2>4 DEF u, v
<1>5. SX!IsPrefix(s, t) <=> n <= Len(t) /\ SubSeq(s, 1, n) = SubSeq(t, 1, n)
  BY DEF SX!IsPrefix, n
<1> QED BY <1>4, <1>5 DEF n

LEMMA ReverseIs ==
  ASSUME NEW S, NEW s \in Seq(S)
  PROVE  /\ SX!Reverse(s) \in Seq(S) /\ Len(SX!Reverse(s)) = Len(s)
         /\ \A i \in 1..Len(s) : SX!Reverse(s)[i] = s[Len(s) - i + 1]
<1> DEFINE n == Len(s)
<1>1. n \in Nat /\ s \in [1..n -> S]
  OBVIOUS
<1> HIDE DEF n
<1>2. SX!Reverse(s) = [i \in 1..n |-> s[n - i + 1]]
  BY DEF SX!Reverse, n
<1>3. ASSUME NEW i \in 1..n PROVE s[n - i + 1] \in S
  <2>1. n - i + 1 \in 1..n
    BY <1>1
  <2> QED BY <1>1, <2>1
<1>4. SX!Reverse(s) \in [1..n -> S]
  BY <1>2, <1>3
<1>5. SX!Reverse(s) \in Seq(S) /\ Len(SX!Reverse(s)) = n
  BY <1>1, <1>4
<1> QED BY <1>2, <1>5 DEF n

LEMMA SuffixIs ==
  ASSUME NEW S, NEW s \in Seq(S), NEW t \in Seq(S)
  PROVE  SX!IsSuffix(t, s) <=>
           Len(t) <= Len(s) /\ \A i \in 1..Len(t) : t[i] = s[Len(s) - Len(t) + i]
<1> DEFINE n == Len(t)  l == Len(s)  u == SX!Reverse(t)  v == SX!Reverse(s)
<1>1. n \in Nat /\ l \in Nat
  OBVIOUS
<1>2. u \in Seq(S) /\ Len(u) = n /\ \A i \in 1..n : u[i] = t[n - i + 1]
  BY ReverseIs
<1>3. v \in Seq(S) /\ Len(v) = l /\ \A i \in 1..l : v[i] = s[l - i + 1]
  BY ReverseIs
<1>4. SX!IsSuffix(t, s) <=> SX!IsPrefix(u, v)
  BY DEF SX!IsSuffix
<1> HIDE DEF n, l, u, v
<1>5. SX!IsPrefix(u, v) <=> n <= l /\ \A i \in 1..n : u[i] = v[i]
  <2>1. u \in Seq(S) /\ v \in Seq(S)
    BY <1>2, <1>3
  <2>2. SX!IsPrefix(u, v) <=> Len(u) <= Len(v) /\ \A i \in 1..Len(u) : u[i] = v[i]
    BY <2>1, PrefixIs
  <2> QED BY <1>2, <1>3, <2>2
<1>6. ASSUME n <= l PROVE (\A i \in 1..n : u[i] = v[i]) <=> \A i \in 1..n : t[i] = s[l - n + i]
  <2>1. ASSUME \A i \in 1..n : u[i] = v[i], NEW i \in 1..n PROVE t[i] = s[l - n + i]
    <3>1. /\ n - i + 1 \in 1..n /\ n - i + 1 \in 1..l
          /\ n - (n - i + 1) + 1 = i /\ l - (n - i + 1) + 1 = l - n + i
      BY <1>1, <1>6
    <3> DEFINE k == n - i + 1
    <3>2. u[k] = t[n - k + 1] /\ v[k] = s[l - k + 1] /\ u[k] = v[k]
      BY <1>2, <1>3, <2>1, <3>1
    <3> QED BY <3>1, <3>2
  <2>2. ASSUME \A i \in 1..n : t[i] = s[l - n + i], NEW i \in 1..n PROVE u[i] = v[i]
    <3>1. n - i + 1 \in 1..n /\ i \in 1..l /\ l - n + (n - i + 1) = l - i + 1
      BY <1>1, <1>6
    <3>2. u[i] = t[n - i + 1] /\ v[i] = s[l - i + 1]
      BY <1>2, <1>3, <3>1
    <3>3. t[n - i + 1] = s[l - n + (n - i + 1)]
      BY <2>2, <3>1
    <3> QED BY <3>1, <3>2, <3>3
  <2> QED BY <2>1, <2>2
<1> QED BY <1>4, <1>5, <1>6 DEF n, l

(* strcmp stops at the first difference or where both strings end.          *)
LEMMA FirstDifferenceIs ==
  ASSUME NEW m \in Memory, NEW p \in Address, NEW q \in Address, Terminated(m, p), Terminated(m, q),
         NEW i, i = FirstDifference(m, p, q)
  PROVE  /\ i \in Nat /\ i <= strlen(m, p) /\ i <= strlen(m, q)
         /\ m[p + i] # m[q + i] \/ m[p + i] = 0
         /\ \A j \in 0..(i - 1) : m[p + j] = m[q + j] /\ m[p + j] # 0
<1> DEFINE lp == strlen(m, p)  lq == strlen(m, q)
           P(k) == /\ m[p + k] # m[q + k] \/ m[p + k] = 0
                   /\ \A j \in 0..(k - 1) : m[p + j] = m[q + j] /\ m[p + j] # 0
           F == {k \in 0..lp : m[p + k] # m[q + k] \/ m[p + k] = 0}
<1>1. lp \in Nat /\ m[p + lp] = 0
  BY StrlenIs
<1>2. lq \in Nat /\ m[q + lq] = 0
  BY StrlenIs
<1> HIDE DEF lp, lq
<1>3. PICK k \in F : \A j \in F : k <= j
  <2>1. F \subseteq Nat /\ F # {}
    BY <1>1
  <2> HIDE DEF F
  <2> QED BY <2>1, LeastNumber
<1>4. k \in 0..lp /\ P(k)
  <2>1. ASSUME NEW j \in 0..(k - 1) PROVE m[p + j] = m[q + j] /\ m[p + j] # 0
    <3>1. j \in 0..lp /\ ~(k <= j)
      BY <1>1, <1>3
    <3>2. j \notin F
      BY <1>3, <3>1
    <3> QED BY <3>1, <3>2
  <2> QED BY <1>3, <2>1
<1> HIDE DEF F
<1>5. i = CHOOSE x \in 0..lp : P(x)
  BY DEF FirstDifference, lp
<1>6. i \in 0..lp /\ P(i)
  <2>1. \E x \in 0..lp : P(x)
    BY <1>4
  <2> HIDE DEF P
  <2> QED BY <1>5, <2>1
<1>7. ~(lq < i)
  <2> SUFFICES ASSUME lq < i PROVE FALSE
    OBVIOUS
  <2>1. lq \in 0..(i - 1)
    BY <1>1, <1>2, <1>6
  <2> QED BY <1>2, <1>6, <2>1
<1>8. i \in Nat /\ i <= lp /\ i <= lq
  BY <1>1, <1>2, <1>6, <1>7
<1> QED BY <1>6, <1>8 DEF lp, lq

(* ... so it is the lexicographic order of the two texts.                   *)
LEMMA StrcmpIs ==
  ASSUME NEW m \in Memory, NEW p \in Address, NEW q \in Address, Terminated(m, p), Terminated(m, q)
  PROVE  /\ strcmp(m, p, q) \in Int
         /\ strcmp(m, p, q) = 0 <=> Text(m, p) = Text(m, q)
         /\ strcmp(m, p, q) < 0 <=> Before(Text(m, p), Text(m, q))
<1> DEFINE i == FirstDifference(m, p, q)  lp == strlen(m, p)  lq == strlen(m, q)
           s == Text(m, p)  t == Text(m, q)  a == m[p + i]  b == m[q + i]
<1>1. /\ i \in Nat /\ i <= lp /\ i <= lq /\ (a # b \/ a = 0)
      /\ \A j \in 0..(i - 1) : m[p + j] = m[q + j] /\ m[p + j] # 0
  BY FirstDifferenceIs
<1>2. p \in Nat /\ q \in Nat /\ Cells \in Nat
  BY StringsAssumption DEF Address
<1>3. /\ lp \in Nat /\ p + lp \in Address /\ m[p + lp] = 0 /\ \A x \in p..(p + lp - 1) : m[x] # 0
  BY StrlenIs
<1>4. /\ lq \in Nat /\ q + lq \in Address /\ m[q + lq] = 0 /\ \A x \in q..(q + lq - 1) : m[x] # 0
  BY StrlenIs
<1>5. s \in Seq(Char) /\ Len(s) = lp /\ \A j \in 1..lp : s[j] = m[p + j - 1]
  BY TextIs
<1>6. t \in Seq(Char) /\ Len(t) = lq /\ \A j \in 1..lq : t[j] = m[q + j - 1]
  BY TextIs
<1>7. strcmp(m, p, q) = a - b
  BY DEF strcmp
<1> HIDE DEF i, lp, lq, s, t
<1>8. p + i \in Address /\ q + i \in Address
  BY <1>1, <1>2, <1>3, <1>4 DEF Address
<1>9. a \in Nat /\ b \in Nat
  BY <1>8, MemoryIs
<1>10. (a = 0 <=> i = lp) /\ (b = 0 <=> i = lq)
  <2>1. i < lp => p + i \in p..(p + lp - 1)
    BY <1>1, <1>2, <1>3
  <2>2. i < lq => q + i \in q..(q + lq - 1)
    BY <1>1, <1>2, <1>4
  <2>3. (i < lp \/ i = lp) /\ (i < lq \/ i = lq) /\ ~(lp < lp) /\ ~(lq < lq)
    BY <1>1, <1>3, <1>4
  <2>4. i < lp => a # 0
    BY <1>3, <2>1
  <2>5. i < lq => b # 0
    BY <1>4, <2>2
  <2> QED BY <1>3, <1>4, <2>3, <2>4, <2>5
<1>11. ASSUME NEW j \in 1..i PROVE s[j] = t[j]
  <2>1. j - 1 \in 0..(i - 1) /\ j \in 1..lp /\ j \in 1..lq /\ p + (j - 1) = p + j - 1
        /\ q + (j - 1) = q + j - 1
    BY <1>1, <1>2, <1>3, <1>4
  <2>2. m[p + (j - 1)] = m[q + (j - 1)]
    BY <1>1, <2>1
  <2> QED BY <1>5, <1>6, <2>1, <2>2
<1>12. (i < lp => s[i + 1] = a) /\ (i < lq => t[i + 1] = b)
  <2>1. (i < lp => i + 1 \in 1..lp) /\ (i < lq => i + 1 \in 1..lq) /\ p + (i + 1) - 1 = p + i
        /\ q + (i + 1) - 1 = q + i
    BY <1>1, <1>2, <1>3, <1>4
  <2> QED BY <1>5, <1>6, <2>1
<1>13. SX!IsPrefix(s, t) <=> lp <= lq /\ \A j \in 1..lp : s[j] = t[j]
  BY <1>5, <1>6, PrefixIs
<1>14. Before(s, t) <=> \/ SX!IsPrefix(s, t) /\ s # t
                        \/ \E k \in 1..Least(lp, lq) :
                             s[k] < t[k] /\ \A j \in 1..(k - 1) : s[j] = t[j]
  BY <1>5, <1>6 DEF Before, SX!IsStrictPrefix
<1>15. ASSUME NEW k \in 1..Least(lp, lq) PROVE k \in 1..lp /\ k \in 1..lq
  BY <1>3, <1>4 DEF Least
<1>16. Char \subseteq Int
  BY StringsAssumption
<1>17. ASSUME NEW k \in 1..Least(lp, lq), k <= i PROVE ~(s[k] < t[k])
  <2>1. k \in 1..i /\ k \in 1..lp
    BY <1>1, <1>3, <1>15, <1>17
  <2>2. s[k] \in Char
    BY <1>5, <2>1
  <2>3. s[k] = t[k] /\ s[k] \in Int
    BY <1>11, <1>16, <2>1, <2>2
  <2> QED BY <2>3
<1> HIDE DEF a, b
<1>18. CASE a = b
  <2>1. i = lp /\ i = lq
    BY <1>1, <1>10, <1>18
  <2>2. s = t
    BY <1>5, <1>6, <1>11, <2>1, SeqEqual
  <2>3. ~Before(s, t)
    <3>1. ASSUME NEW k \in 1..Least(lp, lq) PROVE ~(s[k] < t[k])
      BY <1>3, <1>15, <1>17, <2>1
    <3> QED BY <1>14, <2>2, <3>1
  <2>4. a - b = 0
    BY <1>9, <1>18
  <2> QED BY <1>7, <2>2, <2>3, <2>4 DEF s, t
<1>19. CASE a # b /\ a = 0
  <2>1. i = lp /\ i < lq
    BY <1>1, <1>4, <1>10, <1>19
  <2>2. s # t
    BY <1>3, <1>5, <1>6, <2>1
  <2>3. SX!IsPrefix(s, t)
    BY <1>3, <1>4, <1>11, <1>13, <2>1
  <2>4. a - b < 0 /\ a - b # 0 /\ a - b \in Int
    BY <1>9, <1>19
  <2> QED BY <1>7, <1>14, <2>2, <2>3, <2>4 DEF s, t
<1>20. CASE a # b /\ b = 0
  <2>1. i = lq /\ i < lp
    BY <1>1, <1>3, <1>10, <1>20
  <2>2. s # t
    BY <1>4, <1>5, <1>6, <2>1
  <2>3. ~SX!IsPrefix(s, t)
    BY <1>3, <1>4, <1>13, <2>1
  <2>4. ASSUME NEW k \in 1..Least(lp, lq) PROVE ~(s[k] < t[k])
    BY <1>4, <1>15, <1>17, <2>1
  <2>5. ~(a - b < 0) /\ a - b # 0 /\ a - b \in Int
    BY <1>9, <1>20
  <2> QED BY <1>7, <1>14, <2>2, <2>3, <2>4, <2>5 DEF s, t
<1>21. CASE a # b /\ a # 0 /\ b # 0
  <2>1. i < lp /\ i < lq
    BY <1>1, <1>3, <1>4, <1>10, <1>21
  <2>2. /\ s[i + 1] = a /\ t[i + 1] = b /\ i + 1 \in 1..lp /\ i + 1 \in 1..lq
        /\ i + 1 \in 1..Least(lp, lq) /\ (i + 1) - 1 = i
    BY <1>1, <1>3, <1>4, <1>12, <2>1 DEF Least
  <2>3. s # t
    BY <1>21, <2>2
  <2>4. ~SX!IsPrefix(s, t)
    BY <1>13, <1>21, <2>2
  <2>5. ASSUME a < b PROVE Before(s, t)
    <3>1. s[i + 1] < t[i + 1] /\ \A j \in 1..((i + 1) - 1) : s[j] = t[j]
      BY <1>11, <2>2, <2>5
    <3> QED BY <1>14, <2>2, <3>1
  <2>6. ASSUME ~(a < b), NEW k \in 1..Least(lp, lq), s[k] < t[k], \A j \in 1..(k - 1) : s[j] = t[j]
        PROVE  FALSE
    <3>1. k \in Nat /\ ~(k <= i)
      BY <1>3, <1>15, <1>17, <2>6
    <3>2. CASE k = i + 1
      BY <2>2, <2>6, <3>2
    <3>3. CASE k # i + 1
      <4>1. i + 1 \in 1..(k - 1)
        BY <1>1, <3>1, <3>3
      <4> QED BY <1>21, <2>2, <2>6, <4>1
    <3> QED BY <3>2, <3>3
  <2>7. Before(s, t) <=> a < b
    BY <1>14, <2>4, <2>5, <2>6
  <2>8. (a - b < 0 <=> a < b) /\ a - b # 0 /\ a - b \in Int
    BY <1>9, <1>21
  <2> QED BY <1>7, <2>3, <2>7, <2>8 DEF s, t
<1> QED BY <1>18, <1>19, <1>20, <1>21

(* The end of a string is a string.                                         *)
LEMMA TailIs ==
  ASSUME NEW m \in Memory, NEW h \in Address, Terminated(m, h), NEW a \in h..(h + strlen(m, h) - 1)
  PROVE  /\ a \in Address /\ Terminated(m, a) /\ m[a] # 0
         /\ strlen(m, a) = h + strlen(m, h) - a
<1> DEFINE l == strlen(m, h)  n == h + l - a
<1>1. h \in Nat /\ Cells \in Nat
  BY StringsAssumption DEF Address
<1>2. l \in Nat /\ h + l \in Address /\ m[h + l] = 0 /\ \A b \in h..(h + l - 1) : m[b] # 0
  BY StrlenIs
<1>3. a \in h..(h + l - 1)
  OBVIOUS
<1> HIDE DEF l
<1>4. n \in Nat /\ a + n = h + l /\ a \in Address /\ n = h + l - a
  BY <1>1, <1>2, <1>3 DEF Address
<1> HIDE DEF n
<1>5. ASSUME NEW i \in 0..(n - 1) PROVE m[a + i] # 0
  <2>1. a + i \in h..(h + l - 1)
    BY <1>1, <1>2, <1>3, <1>4
  <2> QED BY <1>2, <2>1
<1>6. Terminated(m, a) /\ strlen(m, a) = n
  BY <1>2, <1>4, <1>5, StrlenOf
<1> QED BY <1>2, <1>3, <1>4, <1>6 DEF l

(* strstr finds the needle only at the end of the haystack.                 *)
LEMMA StrstrIs ==
  ASSUME NEW m \in Memory, NEW h \in Address, NEW n \in Address, Terminated(m, h), Terminated(m, n)
  PROVE  /\ strstr(m, h, n) # NULLAddress <=>
              Text(m, n) # <<>> /\ SX!IsSuffix(Text(m, n), Text(m, h))
         /\ strstr(m, h, n) # NULLAddress =>
              /\ strstr(m, h, n) \in h..(h + strlen(m, h) - 1)
              /\ Text(m, strstr(m, h, n)) = Text(m, n)
<1> DEFINE lh == strlen(m, h)  ln == strlen(m, n)  s == Text(m, h)  t == Text(m, n)
           hits == {a \in h..(h + lh - 1) : m[a] = m[n] /\ strcmp(m, a, n) = 0}
<1>1. h \in Nat /\ n \in Nat /\ Cells \in Nat
  BY StringsAssumption DEF Address
<1>2. lh \in Nat /\ h + lh \in Address
  BY StrlenIs
<1>3. ln \in Nat
  BY StrlenIs
<1>4. s \in Seq(Char) /\ Len(s) = lh /\ \A j \in 1..lh : s[j] = m[h + j - 1]
  BY TextIs
<1>5. t \in Seq(Char) /\ Len(t) = ln /\ \A j \in 1..ln : t[j] = m[n + j - 1]
  BY TextIs
<1>6. ASSUME NEW a \in h..(h + lh - 1)
      PROVE  /\ strcmp(m, a, n) = 0 <=> Text(m, a) = t
             /\ Text(m, a) \in Seq(Char) /\ Len(Text(m, a)) = h + lh - a /\ m[a] # 0
             /\ \A j \in 1..(h + lh - a) : Text(m, a)[j] = m[a + j - 1]
  <2>1. a \in Address /\ Terminated(m, a) /\ m[a] # 0 /\ strlen(m, a) = h + lh - a
    BY <1>6, TailIs
  <2>2. strcmp(m, a, n) = 0 <=> Text(m, a) = t
    BY <2>1, StrcmpIs
  <2>3. /\ Text(m, a) \in Seq(Char) /\ Len(Text(m, a)) = strlen(m, a)
        /\ \A j \in 1..strlen(m, a) : Text(m, a)[j] = m[a + j - 1]
    BY <2>1, TextIs
  <2> HIDE DEF t
  <2> QED BY <2>1, <2>2, <2>3
<1>7. strstr(m, h, n) = IF hits = {} THEN NULLAddress ELSE CHOOSE a \in hits : \A b \in hits : a <= b
  BY DEF strstr
<1>8. hits \subseteq Nat
  BY <1>1, <1>2
<1> HIDE DEF s, t, lh, ln
<1>9. /\ strstr(m, h, n) # NULLAddress <=> hits # {}
      /\ hits # {} => strstr(m, h, n) \in hits
  <2> HIDE DEF hits
  <2>1. ASSUME hits # {} PROVE strstr(m, h, n) \in Nat /\ strstr(m, h, n) \in hits
    <3>1. \E a \in hits : \A b \in hits : a <= b
      BY <1>8, <2>1, LeastNumber
    <3>2. (CHOOSE a \in hits : \A b \in hits : a <= b) \in hits
      BY <3>1
    <3> QED BY <1>7, <1>8, <2>1, <3>2
  <2>2. NULLAddress \notin Nat
    BY DEF NULLAddress
  <2> QED BY <1>7, <2>1, <2>2
<1>10. SX!IsSuffix(t, s) <=> ln <= lh /\ \A i \in 1..ln : t[i] = s[lh - ln + i]
  <2>1. s \in Seq(Char) /\ t \in Seq(Char)
    BY <1>4, <1>5
  <2>2. SX!IsSuffix(t, s) <=>
          Len(t) <= Len(s) /\ \A i \in 1..Len(t) : t[i] = s[Len(s) - Len(t) + i]
    BY <2>1, SuffixIs
  <2> QED BY <1>4, <1>5, <2>2
<1>11. t # <<>> <=> ln # 0
  BY <1>5
<1>12. ASSUME NEW a \in hits PROVE t # <<>> /\ SX!IsSuffix(t, s)
  <2>1. a \in h..(h + lh - 1) /\ strcmp(m, a, n) = 0
    BY <1>12
  <2>2. Text(m, a) = t /\ ln = h + lh - a
    BY <1>5, <1>6, <2>1
  <2>3. ln # 0 /\ ln <= lh
    BY <1>1, <1>2, <2>1, <2>2
  <2>4. ASSUME NEW i \in 1..ln PROVE t[i] = s[lh - ln + i]
    <3>1. i \in 1..(h + lh - a) /\ lh - ln + i \in 1..lh /\ h + (lh - ln + i) - 1 = a + i - 1
      BY <1>1, <1>2, <1>3, <2>1, <2>2, <2>3
    <3>2. t[i] = m[a + i - 1]
      BY <1>6, <2>1, <2>2, <3>1
    <3>3. s[lh - ln + i] = m[h + (lh - ln + i) - 1]
      BY <1>4, <3>1
    <3> QED BY <3>1, <3>2, <3>3
  <2> QED BY <1>10, <1>11, <2>3, <2>4
<1>13. ASSUME t # <<>>, SX!IsSuffix(t, s) PROVE hits # {}
  <2> DEFINE a == h + lh - ln
  <2>1. ln # 0 /\ ln <= lh /\ \A i \in 1..ln : t[i] = s[lh - ln + i]
    BY <1>10, <1>11, <1>13
  <2>2. a \in h..(h + lh - 1) /\ h + lh - a = ln
    BY <1>1, <1>2, <1>3, <2>1
  <2> HIDE DEF a
  <2>3. /\ Text(m, a) \in Seq(Char) /\ Len(Text(m, a)) = ln
        /\ \A j \in 1..ln : Text(m, a)[j] = m[a + j - 1]
    BY <1>6, <2>2
  <2>4. ASSUME NEW i \in 1..ln PROVE Text(m, a)[i] = t[i]
    <3>1. lh - ln + i \in 1..lh /\ h + (lh - ln + i) - 1 = a + i - 1
      BY <1>1, <1>2, <1>3, <2>1 DEF a
    <3>2. s[lh - ln + i] = m[h + (lh - ln + i) - 1]
      BY <1>4, <3>1
    <3> QED BY <2>1, <2>3, <3>1, <3>2
  <2>5. Text(m, a) = t
    <3> DEFINE u == Text(m, a)
    <3>1. u \in Seq(Char) /\ t \in Seq(Char) /\ Len(u) = Len(t) /\ \A i \in 1..Len(u) : u[i] = t[i]
      BY <1>5, <2>3, <2>4
    <3> HIDE DEF u
    <3>2. u = t
      BY <3>1, SeqEqual
    <3> QED BY <3>2 DEF u
  <2>6. m[a] = m[n]
    <3>1. 1 \in 1..ln /\ a + 1 - 1 = a /\ n + 1 - 1 = n
      BY <1>1, <1>2, <1>3, <2>1, <2>2
    <3> QED BY <1>5, <2>3, <2>4, <3>1
  <2>7. a \in hits
    BY <1>6, <2>2, <2>5, <2>6
  <2> QED BY <2>7
<1>14. ASSUME NEW a \in hits PROVE a \in h..(h + lh - 1) /\ Text(m, a) = t
  <2>1. a \in h..(h + lh - 1) /\ strcmp(m, a, n) = 0
    BY <1>14
  <2> QED BY <1>6, <2>1
<1> HIDE DEF hits
<1> QED BY <1>9, <1>12, <1>13, <1>14 DEF s, t, lh

(* memcmp: minus or plus the index of the first difference.                 *)
LEMMA MemcmpIs ==
  ASSUME NEW m \in Memory, NEW p \in Address, NEW q \in Address, NEW n \in Nat, Fits(p, n), Fits(q, n)
  PROVE  /\ memcmp(m, p, q, n) < 0 <=>
              \E i \in 1..(n - 1) : FirstDiffers(m, p, q, i) /\ m[p + i] < m[q + i]
         /\ memcmp(m, p, q, n) > 0 <=>
              \E i \in 1..(n - 1) : FirstDiffers(m, p, q, i) /\ m[p + i] > m[q + i]
<1> DEFINE diffs == {i \in 0..(n - 1) : m[p + i] # m[q + i]}
           k == CHOOSE j \in diffs : \A x \in diffs : j <= x
           r == memcmp(m, p, q, n)
           First(i) == FirstDiffers(m, p, q, i)
<1> USE DEF FirstDiffers
<1>1. p \in Nat /\ q \in Nat /\ Cells \in Nat /\ p + n <= Cells /\ q + n <= Cells
  BY StringsAssumption DEF Address, Fits
<1>2. ASSUME NEW i \in 0..(n - 1) PROVE m[p + i] \in Nat /\ m[q + i] \in Nat
  <2>1. p + i \in Address /\ q + i \in Address
    BY <1>1 DEF Address
  <2> QED BY <2>1, MemoryIs
<1>3. r = IF diffs = {} THEN 0 ELSE IF m[p + k] < m[q + k] THEN -k ELSE k
  BY DEF memcmp
<1> HIDE DEF r
<1>4. CASE diffs = {}
  <2>1. r = 0
    BY <1>3, <1>4
  <2>2. ASSUME NEW i \in 1..(n - 1) PROVE ~First(i)
    <3>1. i \in 0..(n - 1)
      OBVIOUS
    <3> QED BY <1>4, <3>1
  <2> QED BY <2>1, <2>2 DEF r
<1>5. CASE diffs # {}
  <2>1. \E j \in diffs : \A x \in diffs : j <= x
    <3>1. diffs \subseteq Nat
      OBVIOUS
    <3> HIDE DEF diffs
    <3> QED BY <1>5, <3>1, LeastNumber
  <2>2. k \in diffs /\ \A x \in diffs : k <= x
    <3> HIDE DEF diffs
    <3> QED BY <2>1
  <2> HIDE DEF k
  <2>3. k \in 0..(n - 1) /\ m[p + k] # m[q + k]
    BY <2>2
  <2>4. ASSUME NEW j \in 0..(k - 1) PROVE m[p + j] = m[q + j]
    <3>1. j \in 0..(n - 1) /\ ~(k <= j)
      BY <2>3
    <3>2. j \notin diffs
      BY <2>2, <3>1
    <3> QED BY <3>1, <3>2
  <2>5. First(k)
    BY <2>3, <2>4
  <2>6. ASSUME NEW i \in 1..(n - 1), First(i) PROVE i = k
    <3>1. i \in diffs
      BY <2>6
    <3>2. ~(k < i)
      <4> SUFFICES ASSUME k < i PROVE FALSE
        OBVIOUS
      <4>1. k \in 0..(i - 1)
        BY <2>3
      <4> QED BY <2>3, <2>6, <4>1
    <3> QED BY <2>2, <2>3, <3>1, <3>2
  <2>7. r = IF m[p + k] < m[q + k] THEN -k ELSE k
    BY <1>3, <1>5
  <2> HIDE DEF First, diffs, FirstDiffers
  <2>8. m[p + k] \in Nat /\ m[q + k] \in Nat /\ k \in Nat
    BY <1>2, <2>3
  <2>9. CASE k = 0
    <3>1. r = 0
      <4>1. r = -k \/ r = k
        BY <2>7
      <4> QED BY <2>8, <2>9, <4>1
    <3>2. \A i \in 1..(n - 1) : ~First(i)
      BY <2>6, <2>9
    <3> QED BY <3>1, <3>2 DEF r, First
  <2>10. CASE k # 0
    <3>1. k \in 1..(n - 1)
      BY <2>3, <2>10
    <3>2. r < 0 <=> m[p + k] < m[q + k]
      BY <2>7, <2>8, <2>10
    <3>3. r > 0 <=> m[p + k] > m[q + k]
      BY <2>3, <2>7, <2>8, <2>10
    <3>4. (\E i \in 1..(n - 1) : First(i) /\ m[p + i] < m[q + i]) <=> m[p + k] < m[q + k]
      BY <2>5, <2>6, <3>1
    <3>5. (\E i \in 1..(n - 1) : First(i) /\ m[p + i] > m[q + i]) <=> m[p + k] > m[q + k]
      BY <2>5, <2>6, <3>1
    <3> QED BY <3>2, <3>3, <3>4, <3>5 DEF r, First
  <2> QED BY <2>9, <2>10
<1> QED BY <1>4, <1>5

(* The loop of reverse: before each round, the pairs outside have been       *)
(* exchanged.                                                               *)
Swapping(f, m, p, j, n) ==
  /\ f \in [0..n -> Memory] /\ f[0] = m
  /\ \A k \in 1..n :
       f[k] = [f[k - 1] EXCEPT ![p + (k - 1)] = f[k - 1][p + j - (k - 1)],
                               ![p + j - (k - 1)] = f[k - 1][p + (k - 1)]]

LEMMA SwapLoop ==
  ASSUME NEW m \in Memory, NEW p \in Address, Terminated(m, p), NEW j, NEW n,
         j = strlen(m, p) - 1, n = (j + 1) \div 2
  PROVE  \E f : Swapping(f, m, p, j, n) /\ SwapEnds(m, p) = f[n]
<1> DEFINE next(o, k) == [o EXCEPT ![p + (k - 1)] = o[p + j - (k - 1)],
                                   ![p + j - (k - 1)] = o[p + (k - 1)]]
           step(f) == [k \in 0..n |-> IF k = 0 THEN m ELSE next(f[k - 1], k)]
           swapped == CHOOSE f : f = step(f)
           round == [k \in (0 + 1)..n |-> [o \in Memory |-> next(o, k)]]
<1>1. /\ p \in Nat /\ Cells \in Nat /\ j \in Int /\ j >= -1 /\ p + j + 1 \in Address
  BY StrlenIs, StringsAssumption DEF Address
<1>2. n \in Nat /\ 2 * n <= j + 1
  BY <1>1
<1>3. SwapEnds(m, p) = swapped[n]
  BY DEF SwapEnds
<1>4. ASSUME NEW k \in 1..n, NEW o \in Memory PROVE next(o, k) \in Memory
  <2>1. p + (k - 1) \in Address /\ p + j - (k - 1) \in Address
    BY <1>1, <1>2 DEF Address
  <2> QED BY <2>1 DEF Memory
<1> HIDE DEF next
<1>5. round \in Rounds(Memory, 0, n)
  BY <1>4 DEF Rounds
<1> HIDE DEF round
<1>6. PICK f : IsLoop(f, Memory, 0, n, m, round)
  <2>1. 0 \in Int /\ n \in Int /\ 0 <= n
    BY <1>2
  <2> QED BY <1>5, <2>1, LoopDefined
<1>7. ASSUME NEW k \in 1..n PROVE f[k] = next(f[k - 1], k) /\ f[k - 1] \in Memory
  <2>1. f[k] = round[k][f[k - 1]] /\ f[k - 1] \in Memory
    BY <1>2, <1>6 DEF IsLoop
  <2> QED BY <2>1 DEF round
<1>8. f = step(f)
  <2>1. ASSUME NEW k \in 0..n PROVE f[k] = IF k = 0 THEN m ELSE next(f[k - 1], k)
    <3>1. CASE k = 0
      BY <1>6, <3>1 DEF IsLoop
    <3>2. CASE k # 0
      <4>1. k \in 1..n
        BY <1>2, <3>2
      <4> QED BY <1>7, <3>2, <4>1
    <3> QED BY <3>1, <3>2
  <2>2. f = [k \in 0..n |-> f[k]]
    BY <1>6 DEF IsLoop
  <2> QED BY <2>1, <2>2
<1>9. swapped = step(swapped)
  <2> HIDE DEF step
  <2>1. \E g : g = step(g)
    BY <1>8
  <2> QED BY <2>1, Zenon
<1> HIDE DEF swapped
<1>10. DOMAIN swapped = 0..n /\ swapped = [k \in 0..n |-> swapped[k]]
  BY <1>9
<1>11. swapped[0] = m
  <2>1. 0 \in 0..n
    BY <1>2
  <2> QED BY <1>9, <2>1
<1>12. ASSUME NEW k \in 1..n PROVE swapped[k] = next(swapped[k - 1], k)
  <2>1. k \in 0..n /\ k # 0
    BY <1>2
  <2> QED BY <1>9, <2>1
<1> HIDE DEF step
<1> DEFINE Q == {k \in 0..n : swapped[k] \in Memory}
<1>13. 0 \in Q
  BY <1>2, <1>11
<1>14. ASSUME NEW k \in (0 + 1)..n, k - 1 \in Q PROVE k \in Q
  <2>1. k \in 0..n /\ k \in 1..n
    BY <1>2
  <2> QED BY <1>4, <1>12, <1>14, <2>1
<1> HIDE DEF Q
<1>15. \A k \in 0..n : k \in Q
  <2>1. 0 \in Int /\ n \in Int
    BY <1>2
  <2> QED BY <1>13, <1>14, <2>1, CountUp
<1>16. swapped \in [0..n -> Memory]
  BY <1>10, <1>15 DEF Q
<1>17. Swapping(swapped, m, p, j, n)
  BY <1>11, <1>12, <1>16 DEF Swapping, next
<1> QED BY <1>3, <1>17

LEMMA SwapEndsIs ==
  ASSUME NEW m \in Memory, NEW p \in Address, Terminated(m, p)
  PROVE  /\ SwapEnds(m, p) \in Memory
         /\ \A i \in 0..(strlen(m, p) - 1) : SwapEnds(m, p)[p + i] = m[p + (strlen(m, p) - 1) - i]
         /\ \A a \in Address : a \notin p..(p + strlen(m, p) - 1) => SwapEnds(m, p)[a] = m[a]
<1> DEFINE l == strlen(m, p)  j == l - 1  n == (j + 1) \div 2
<1>1. /\ p \in Nat /\ Cells \in Nat /\ l \in Nat /\ p + l \in Address
  BY StrlenIs, StringsAssumption DEF Address
<1>2. PICK f : Swapping(f, m, p, j, n) /\ SwapEnds(m, p) = f[n]
  BY SwapLoop
<1> HIDE DEF l
<1>3. j \in Int /\ j >= -1 /\ j = l - 1 /\ n \in Nat /\ 2 * n <= j + 1 /\ j + 1 <= 2 * n + 1
  BY <1>1
<1> HIDE DEF j, n
<1>4. ASSUME NEW k \in 1..n
      PROVE  /\ f[k - 1] \in Memory
             /\ f[k] = [f[k - 1] EXCEPT ![p + (k - 1)] = f[k - 1][p + j - (k - 1)],
                                        ![p + j - (k - 1)] = f[k - 1][p + (k - 1)]]
  <2>1. k - 1 \in 0..n
    BY <1>3
  <2> QED BY <1>2, <2>1 DEF Swapping
<1> DEFINE Swapped(k, i) == i < k \/ i > j - k
           Good(k) == /\ \A i \in 0..j : f[k][p + i] = IF Swapped(k, i) THEN m[p + j - i] ELSE m[p + i]
                      /\ \A a \in Address : a \notin p..(p + j) => f[k][a] = m[a]
           Q == {k \in 0..n : Good(k)}
<1>5. 0 \in Q
  <2>1. f[0] = m
    BY <1>2 DEF Swapping
  <2>2. \A i \in 0..j : ~Swapped(0, i)
    BY <1>3
  <2> HIDE DEF Swapped
  <2>3. 0 \in 0..n
    BY <1>3
  <2> QED BY <2>1, <2>2, <2>3
<1>6. ASSUME NEW k \in (0 + 1)..n, k - 1 \in Q PROVE k \in Q
  <2> DEFINE u == k - 1  v == j - u  o == f[k - 1]
  <2>1. k \in 1..n /\ k \in 0..n /\ Good(u)
    BY <1>3, <1>6
  <2>2. /\ u \in 0..j /\ v \in 0..j /\ u < v /\ u = k - 1 /\ v = j - u
        /\ p + u \in Address /\ p + v \in Address /\ p + j - u = p + v
        /\ j - v = u /\ p + j - v = p + u
    BY <1>1, <1>3, <2>1 DEF Address
  <2>3. f[k] = [o EXCEPT ![p + u] = o[p + v], ![p + v] = o[p + u]] /\ o \in Memory
    <3>1. p + j - (k - 1) = p + v
      BY <2>2
    <3> QED BY <1>4, <2>1, <3>1
  <2>4. o[p + u] = m[p + u] /\ o[p + v] = m[p + v]
    <3>1. ~Swapped(u, u) /\ ~Swapped(u, v)
      BY <1>3, <2>2
    <3> HIDE DEF u, v, Swapped
    <3> QED BY <2>1, <2>2, <3>1 DEF u
  <2>5. /\ f[k][p + u] = m[p + v] /\ f[k][p + v] = m[p + u]
        /\ \A a \in Address : a # p + u /\ a # p + v => f[k][a] = o[a]
    <3> HIDE DEF u, v, o
    <3>1. p + u # p + v /\ DOMAIN o = Address
      BY <1>1, <2>2, <2>3 DEF Memory
    <3> QED BY <2>2, <2>3, <2>4, <3>1
  <2>6. ASSUME NEW i \in 0..j PROVE f[k][p + i] = IF Swapped(k, i) THEN m[p + j - i] ELSE m[p + i]
    <3>1. CASE i = u
      <4>1. Swapped(k, i) /\ p + j - i = p + v
        BY <2>2, <3>1
      <4> HIDE DEF Swapped, u, v, o
      <4> QED BY <2>5, <3>1, <4>1
    <3>2. CASE i = v
      <4>1. Swapped(k, i) /\ p + j - i = p + u
        BY <1>3, <2>2, <3>2
      <4> HIDE DEF Swapped, u, v, o
      <4> QED BY <2>5, <3>2, <4>1
    <3>3. CASE i # u /\ i # v
      <4>1. (Swapped(k, i) <=> Swapped(u, i)) /\ p + i \in Address /\ p + i # p + u /\ p + i # p + v
        BY <1>1, <1>3, <2>2, <3>3 DEF Address
      <4>2. f[u][p + i] = IF Swapped(u, i) THEN m[p + j - i] ELSE m[p + i]
        BY <2>1
      <4>3. f[k][p + i] = f[u][p + i]
        BY <2>5, <4>1
      <4> HIDE DEF Swapped, u, v, o
      <4> QED BY <4>1, <4>2, <4>3
    <3> QED BY <3>1, <3>2, <3>3
  <2>7. ASSUME NEW a \in Address, a \notin p..(p + j) PROVE f[k][a] = m[a]
    <3>1. a # p + u /\ a # p + v
      BY <1>1, <1>3, <2>2, <2>7
    <3> QED BY <2>1, <2>5, <2>7, <3>1
  <2> HIDE DEF Swapped
  <2> QED BY <2>1, <2>6, <2>7
<1> HIDE DEF Q
<1>7. n \in Q
  <2>1. 0 \in Int /\ n \in Int /\ n \in 0..n
    BY <1>3
  <2>2. \A k \in 0..n : k \in Q
    BY <1>5, <1>6, <2>1, CountUp
  <2> QED BY <2>1, <2>2
<1>8. Good(n)
  BY <1>7 DEF Q
<1>9. ASSUME NEW i \in 0..(l - 1) PROVE f[n][p + i] = m[p + (l - 1) - i]
  <2>1. i \in 0..j /\ p + (l - 1) - i = p + j - i
    BY <1>3
  <2>2. CASE Swapped(n, i)
    BY <1>8, <2>1, <2>2
  <2>3. CASE ~Swapped(n, i)
    <3>1. p + j - i = p + i
      BY <1>1, <1>3, <2>1, <2>3
    <3> HIDE DEF Swapped
    <3> QED BY <1>8, <2>1, <2>3, <3>1
  <2> QED BY <2>2, <2>3
<1>10. ASSUME NEW a \in Address, a \notin p..(p + l - 1) PROVE f[n][a] = m[a]
  <2>1. p + l - 1 = p + j
    BY <1>1, <1>3
  <2> QED BY <1>8, <1>10, <2>1
<1>11. f[n] \in Memory
  BY <1>2, <1>3 DEF Swapping
<1> QED BY <1>2, <1>9, <1>10, <1>11 DEF l

(* reverse: the text the other way around.                                  *)
LEMMA ReverseText ==
  ASSUME NEW m \in Memory, NEW p \in Address, Terminated(m, p)
  PROVE  Text(SwapEnds(m, p), p) = SX!Reverse(Text(m, p))
<1> DEFINE l == strlen(m, p)  r == SwapEnds(m, p)  t == Text(m, p)  u == Text(r, p)
<1>1. /\ p \in Nat /\ Cells \in Nat /\ l \in Nat /\ p + l \in Address /\ m[p + l] = 0
      /\ \A b \in p..(p + l - 1) : m[b] # 0
  BY StrlenIs, StringsAssumption DEF Address
<1>2. /\ r \in Memory /\ \A i \in 0..(l - 1) : r[p + i] = m[p + (l - 1) - i]
      /\ \A a \in Address : a \notin p..(p + l - 1) => r[a] = m[a]
  BY SwapEndsIs
<1>3. t \in Seq(Char) /\ Len(t) = l /\ \A i \in 1..l : t[i] = m[p + i - 1]
  BY TextIs
<1> HIDE DEF l, r, t
<1>4. r[p + l] = 0
  <2>1. p + l \notin p..(p + l - 1)
    BY <1>1
  <2> QED BY <1>1, <1>2, <2>1
<1>5. ASSUME NEW i \in 0..(l - 1) PROVE r[p + i] # 0
  <2>1. p + (l - 1) - i \in p..(p + l - 1)
    BY <1>1
  <2> QED BY <1>1, <1>2, <2>1
<1>6. Terminated(r, p) /\ strlen(r, p) = l
  BY <1>1, <1>2, <1>4, <1>5, StrlenOf
<1>7. u \in Seq(Char) /\ Len(u) = l /\ \A i \in 1..l : u[i] = r[p + i - 1]
  BY <1>2, <1>6, TextIs
<1> DEFINE w == SX!Reverse(t)
<1>8. w \in Seq(Char) /\ Len(w) = l /\ \A i \in 1..l : w[i] = t[l - i + 1]
  <2>1. /\ SX!Reverse(t) \in Seq(Char) /\ Len(SX!Reverse(t)) = Len(t)
        /\ \A i \in 1..Len(t) : SX!Reverse(t)[i] = t[Len(t) - i + 1]
    BY <1>3, ReverseIs
  <2> QED BY <1>3, <2>1
<1> HIDE DEF u, w
<1>9. ASSUME NEW i \in 1..l PROVE u[i] = w[i]
  <2>1. /\ i - 1 \in 0..(l - 1) /\ l - i + 1 \in 1..l /\ p + (i - 1) = p + i - 1
        /\ p + (l - 1) - (i - 1) = p + (l - i + 1) - 1
    BY <1>1
  <2>2. r[p + (i - 1)] = m[p + (l - 1) - (i - 1)]
    BY <1>2, <2>1
  <2>3. t[l - i + 1] = m[p + (l - i + 1) - 1]
    BY <1>3, <2>1
  <2>4. u[i] = r[p + i - 1] /\ w[i] = t[l - i + 1]
    BY <1>7, <1>8
  <2> QED BY <2>1, <2>2, <2>3, <2>4
<1>10. u = w
  BY <1>7, <1>8, <1>9, SeqEqual
<1> QED BY <1>10 DEF u, w, r, t

(* One call of each function, whatever memory it found.                     *)
LEMMA CallIs ==
  ASSUME NEW fn, NEW p, NEW q, NEW n, NEW result, Called(fn, p, q, n, result)
  PROVE  call'.fn = fn /\ call'.p = p /\ call'.q = q /\ call'.n = n /\ call'.result = result
BY DEF Called

LEMMA MemmoveKeeps ==
  ASSUME NEW d \in Address, NEW s \in Address, NEW n \in 0..Cells, Memmove(d, s, n)
  PROVE  StringsExact'
<1> DEFINE m == before'  r == mem'
<1>1. m \in Memory /\ Fits(d, n) /\ Fits(s, n) /\ r = memmove(m, d, s, n)
      /\ Called("memmove", d, s, n, d) /\ n \in Nat
  BY StringsAssumption DEF Memmove, Found
<1>2. call'.fn = "memmove" /\ call'.p = d /\ call'.q = s /\ call'.n = n
  BY <1>1, CallIs
<1> HIDE DEF m, r
<1>3. IsCopy(r, m, d, s, n)
  <2>1. CASE d < s
    BY <1>1, <2>1, CopyUp DEF memmove
  <2>2. CASE ~(d < s)
    <3>1. d >= s
      BY <2>2, StringsAssumption DEF Address
    <3> QED BY <1>1, <2>2, <3>1, CopyDown DEF memmove
  <2> QED BY <2>1, <2>2
<1>4. MemmoveExact'
  BY <1>2, <1>3 DEF MemmoveExact, OnlyWrites, IsCopy, m, r
<1>5. CopiesExact' /\ ComparisonsExact' /\ ReverseExact'
  BY <1>2 DEF CopiesExact, ComparisonsExact, ReverseExact
<1> QED BY <1>4, <1>5 DEF StringsExact

(* strcpy, and strncpy with any limit.                                      *)
LEMMA CopyKeeps ==
  ASSUME NEW d \in Address, NEW s \in Address, NEW len \in Nat, NEW n, before' \in Memory,
         Terminated(before', s), n = Least(len, strlen(before', s)),
         Fits(d, n + 1), d + n < s \/ s + n < d, mem' = CopyString(before', d, s, n),
         Called("strcpy", d, s, len, 0)
  PROVE  StringsExact'
<1> DEFINE m == before'  r == mem'
<1>1. call'.fn = "strcpy" /\ call'.p = d /\ call'.q = s /\ call'.n = len
  BY CallIs
<1>2. n \in Nat /\ n <= strlen(m, s)
  <2>1. strlen(m, s) \in Nat
    BY StrlenIs
  <2> QED BY <2>1 DEF Least
<1>3. /\ Terminated(r, d) /\ Text(r, d) = SubSeq(Text(m, s), 1, n)
      /\ \A a \in Address : a \notin d..(d + n) => r[a] = m[a]
  BY <1>2, CopyStringIs
<1>4. Least(len, Len(Text(m, s))) = n
  BY TextIs
<1> HIDE DEF m, r
<1>5. CopiesExact'
  BY <1>1, <1>3, <1>4 DEF CopiesExact, OnlyWrites, m, r
<1>6. MemmoveExact' /\ ComparisonsExact' /\ ReverseExact'
  BY <1>1 DEF MemmoveExact, ComparisonsExact, ReverseExact
<1> QED BY <1>5, <1>6 DEF StringsExact

LEMMA StrcatKeeps ==
  ASSUME NEW d \in Address, NEW s \in Address, Strcat(d, s)
  PROVE  StringsExact'
<1> DEFINE m == before'  r == mem'  n == strlen(m, s)  e == d + strlen(m, d)
<1>1. /\ m \in Memory /\ Terminated(m, s) /\ Terminated(m, d) /\ Fits(e, n + 1)
      /\ e + n < s \/ s + n < d
      /\ r = memcpy(m, e, s, n + 1) /\ Called("strcat", d, s, 0, d)
  BY DEF Strcat, Found
<1>2. call'.fn = "strcat" /\ call'.p = d /\ call'.q = s
  BY <1>1, CallIs
<1>3. /\ Terminated(r, d) /\ Text(r, d) = Text(m, d) \o Text(m, s)
      /\ \A a \in Address : a \notin d..(d + Len(Text(r, d))) => r[a] = m[a]
  BY <1>1, AppendIs
<1> HIDE DEF m, r
<1>4. CopiesExact'
  BY <1>2, <1>3 DEF CopiesExact, OnlyWrites, m, r
<1>5. MemmoveExact' /\ ComparisonsExact' /\ ReverseExact'
  BY <1>2 DEF MemmoveExact, ComparisonsExact, ReverseExact
<1> QED BY <1>4, <1>5 DEF StringsExact

LEMMA CompareKeeps ==
  ASSUME NEW p \in Address, NEW q \in Address, NEW n \in 0..Cells, Compare(p, q, n)
  PROVE  StringsExact'
<1> DEFINE m == before'
<1>1. m \in Memory /\ n \in Nat
  BY StringsAssumption DEF Compare, Found
<1>2. CASE Terminated(m, p) /\ Terminated(m, q) /\ Called("strcmp", p, q, 0, strcmp(m, p, q))
  <2>1. call'.fn = "strcmp" /\ call'.p = p /\ call'.q = q /\ call'.result = strcmp(m, p, q)
    BY <1>2, CallIs
  <2>2. /\ strcmp(m, p, q) = 0 <=> Text(m, p) = Text(m, q)
        /\ strcmp(m, p, q) < 0 <=> Before(Text(m, p), Text(m, q))
    BY <1>1, <1>2, StrcmpIs
  <2> HIDE DEF m
  <2>3. (strcmp(m, p, q) < 0) = Before(Text(m, p), Text(m, q))
    <3>1. Before(Text(m, p), Text(m, q)) \in BOOLEAN
      BY Zenon DEF Before
    <3>2. CASE strcmp(m, p, q) < 0
      BY <2>2, <3>1, <3>2
    <3>3. CASE ~(strcmp(m, p, q) < 0)
      BY <2>2, <3>1, <3>3
    <3> QED BY <3>2, <3>3
  <2>4. (strcmp(m, p, q) = 0) = (Text(m, p) = Text(m, q))
    BY <2>2
  <2>5. ComparisonsExact'
    BY <2>1, <2>3, <2>4 DEF ComparisonsExact, m
  <2>6. MemmoveExact' /\ CopiesExact' /\ ReverseExact'
    BY <2>1 DEF MemmoveExact, CopiesExact, ReverseExact
  <2> QED BY <2>5, <2>6 DEF StringsExact
<1>3. CASE Terminated(m, p) /\ Terminated(m, q) /\ Called("strstr", p, q, 0, strstr(m, p, q))
  <2>1. call'.fn = "strstr" /\ call'.p = p /\ call'.q = q /\ call'.result = strstr(m, p, q)
    BY <1>3, CallIs
  <2>2. /\ strstr(m, p, q) # NULLAddress <=>
             Text(m, q) # <<>> /\ SX!IsSuffix(Text(m, q), Text(m, p))
        /\ strstr(m, p, q) # NULLAddress =>
             /\ strstr(m, p, q) \in p..(p + strlen(m, p) - 1)
             /\ Text(m, strstr(m, p, q)) = Text(m, q)
    BY <1>1, <1>3, StrstrIs
  <2> HIDE DEF m
  <2>3. strstr(m, p, q) # NULLAddress => strstr(m, p, q) \in Occurrences(m, p, q)
    <3>1. SX!IsPrefix(Text(m, q), Text(m, q))
      BY <1>1, <1>3, TextIs DEF SX!IsPrefix
    <3> QED BY <2>2, <3>1 DEF Occurrences
  <2>5. ComparisonsExact'
    BY <2>1, <2>2, <2>3 DEF ComparisonsExact, m
  <2>4. MemmoveExact' /\ CopiesExact' /\ ReverseExact'
    BY <2>1 DEF MemmoveExact, CopiesExact, ReverseExact
  <2> QED BY <2>4, <2>5 DEF StringsExact
<1>4. CASE Fits(p, n) /\ Fits(q, n) /\ Called("memcmp", p, q, n, memcmp(m, p, q, n))
  <2>1. /\ call'.fn = "memcmp" /\ call'.p = p /\ call'.q = q /\ call'.n = n
        /\ call'.result = memcmp(m, p, q, n)
    BY <1>4, CallIs
  <2>2. /\ memcmp(m, p, q, n) < 0 <=>
             \E i \in 1..(n - 1) : FirstDiffers(m, p, q, i) /\ m[p + i] < m[q + i]
        /\ memcmp(m, p, q, n) > 0 <=>
             \E i \in 1..(n - 1) : FirstDiffers(m, p, q, i) /\ m[p + i] > m[q + i]
    BY <1>1, <1>4, MemcmpIs
  <2> HIDE DEF m
  <2>3. /\ memcmp(m, p, q, n) < 0 => Less(m, p, q, n)
        /\ memcmp(m, p, q, n) > 0 => Less(m, q, p, n)
    <3>1. \A i \in 1..(n - 1) : i \in 0..(n - 1)
      BY <1>1
    <3>2. memcmp(m, p, q, n) < 0 => Less(m, p, q, n)
      BY <2>2, <3>1 DEF Less
    <3>3. ASSUME NEW i \in 1..(n - 1), FirstDiffers(m, p, q, i), m[p + i] > m[q + i]
          PROVE  Less(m, q, p, n)
      <4>1. p + i \in Address /\ q + i \in Address
        BY <1>1, <1>4, StringsAssumption DEF Address, Fits
      <4>2. m[p + i] \in Nat /\ m[q + i] \in Nat
        BY <1>1, <4>1, MemoryIs
      <4>3. FirstDiffers(m, q, p, i) /\ m[q + i] < m[p + i]
        BY <3>3, <4>2 DEF FirstDiffers
      <4> QED BY <3>1, <4>3 DEF Less
    <3> QED BY <2>2, <3>2, <3>3
  <2>4. ComparisonsExact'
    BY <2>1, <2>3 DEF ComparisonsExact, m
  <2>5. MemmoveExact' /\ CopiesExact' /\ ReverseExact'
    BY <2>1 DEF MemmoveExact, CopiesExact, ReverseExact
  <2> QED BY <2>4, <2>5 DEF StringsExact
<1> QED BY <1>2, <1>3, <1>4 DEF Compare

LEMMA ReverseKeeps ==
  ASSUME NEW p \in Address, Reverse(p)
  PROVE  StringsExact'
<1> DEFINE m == before'  r == mem'
<1>1. m \in Memory /\ Terminated(m, p) /\ r = SwapEnds(m, p) /\ Called("reverse", p, p, 0, 0)
  BY DEF Reverse, Found
<1>2. call'.fn = "reverse" /\ call'.p = p
  BY <1>1, CallIs
<1>3. Text(r, p) = SX!Reverse(Text(m, p))
  BY <1>1, ReverseText
<1>4. \A a \in Address : a \notin p..(p + strlen(m, p) - 1) => r[a] = m[a]
  BY <1>1, SwapEndsIs
<1> HIDE DEF m, r
<1>5. ReverseExact'
  BY <1>2, <1>3, <1>4 DEF ReverseExact, OnlyWrites, m, r
<1>6. MemmoveExact' /\ CopiesExact' /\ ComparisonsExact'
  BY <1>2 DEF MemmoveExact, CopiesExact, ComparisonsExact
<1> QED BY <1>5, <1>6 DEF StringsExact

(* Every call of a string function of string.cpp does what its reference     *)
(* says, on a memory of any size, with any contents, any arguments and any   *)
(* overlap its contract allows; strstr and memcmp are never wrong when they  *)
(* answer.                                                                  *)
THEOREM StringsAlwaysExact == StringsSpec => []StringsExact
<1>1. StringsInit => StringsExact
  <2> SUFFICES ASSUME StringsInit PROVE StringsExact
    OBVIOUS
  <2>1. call.fn = "none"
    BY DEF StringsInit
  <2> QED BY <2>1 DEF StringsExact, MemmoveExact, CopiesExact, ComparisonsExact, ReverseExact
<1>2. StringsExact /\ [StringsNext]_stringVars => StringsExact'
  <2> SUFFICES ASSUME StringsExact, [StringsNext]_stringVars PROVE StringsExact'
    OBVIOUS
  <2>1. CASE StringsNext
    <3>1. PICK p \in Address, q \in Address :
            \/ \E n \in 0..Cells : Memmove(p, q, n) \/ Strncpy(p, q, n) \/ Compare(p, q, n)
            \/ Strcpy(p, q) \/ Strcat(p, q) \/ Reverse(p)
      BY <2>1 DEF StringsNext
    <3>2. ASSUME NEW n \in 0..Cells, Memmove(p, q, n) PROVE StringsExact'
      BY <3>2, MemmoveKeeps
    <3>3. ASSUME NEW n \in 0..Cells, Compare(p, q, n) PROVE StringsExact'
      BY <3>3, CompareKeeps
    <3>4. ASSUME NEW n \in 0..Cells, Strncpy(p, q, n) PROVE StringsExact'
      <4>1. n \in Nat
        BY StringsAssumption
      <4> QED BY <3>4, <4>1, CopyKeeps DEF Strncpy, Found, Copied
    <3>5. CASE Strcpy(p, q)
      <4> DEFINE n == strlen(before', q)
      <4>1. before' \in Memory /\ Terminated(before', q)
        BY <3>5 DEF Strcpy, Found
      <4>2. n \in Nat /\ q + n \in Address
        BY <4>1, StrlenIs
      <4>3. Cells \in Nat /\ n = Least(Cells, n)
        BY <4>2, StringsAssumption DEF Least, Address
      <4> QED BY <3>5, <4>1, <4>3, CopyKeeps DEF Strcpy
    <3>6. CASE Strcat(p, q)
      BY <3>6, StrcatKeeps
    <3>7. CASE Reverse(p)
      BY <3>7, ReverseKeeps
    <3> QED BY <3>1, <3>2, <3>3, <3>4, <3>5, <3>6, <3>7
  <2>2. CASE UNCHANGED stringVars
    <3>1. mem' = mem /\ before' = before /\ call' = call
      BY <2>2 DEF stringVars
    <3>2. MemmoveExact'
      BY <3>1 DEF StringsExact, MemmoveExact, OnlyWrites
    <3>3. CopiesExact'
      BY <3>1 DEF StringsExact, CopiesExact, OnlyWrites
    <3>4. ComparisonsExact'
      BY <3>1, Zenon DEF StringsExact, ComparisonsExact
    <3>5. ReverseExact'
      BY <3>1 DEF StringsExact, ReverseExact, OnlyWrites
    <3> QED BY <3>2, <3>3, <3>4, <3>5 DEF StringsExact
  <2> QED BY <2>1, <2>2
<1> QED BY <1>1, <1>2, PTL DEF StringsSpec

(***************************************************************************)
(* Printf.  What the references of the properties compute: the value of a  *)
(* row of digits and the width of a directive.                             *)
(***************************************************************************)
Valuation(v, digits, radix) ==
  /\ v \in [0..Len(digits) -> Int] /\ v[0] = 0 /\ Value(digits, radix) = v[Len(digits)]
  /\ \A i \in 1..Len(digits) : v[i] = radix * v[i - 1] + digits[i]

LEMMA ValueIs ==
  ASSUME NEW digits \in Seq(Int), NEW radix \in Nat
  PROVE  \E v : Valuation(v, digits, radix)
<1> DEFINE n == Len(digits)
           next(o, i) == radix * o + digits[i]
           step(f) == [i \in 0..n |-> IF i = 0 THEN 0 ELSE next(f[i - 1], i)]
           value == CHOOSE f : f = step(f)
           round == [i \in (0 + 1)..n |-> [o \in Int |-> next(o, i)]]
<1>1. n \in Nat /\ \A i \in 1..n : digits[i] \in Int
  OBVIOUS
<1>2. Value(digits, radix) = value[n]
  BY DEF Value
<1>3. n = Len(digits)
  OBVIOUS
<1> HIDE DEF n
<1>4. ASSUME NEW i \in 1..n, NEW o \in Int PROVE next(o, i) \in Int
  BY <1>1
<1> HIDE DEF next
<1>5. round \in Rounds(Int, 0, n)
  BY <1>4 DEF Rounds
<1> HIDE DEF round
<1>6. PICK f : IsLoop(f, Int, 0, n, 0, round)
  <2>1. 0 \in Int /\ n \in Int /\ 0 <= n
    BY <1>1
  <2> QED BY <1>5, <2>1, LoopDefined
<1>7. ASSUME NEW i \in 1..n PROVE f[i] = next(f[i - 1], i) /\ f[i - 1] \in Int
  <2>1. f[i] = round[i][f[i - 1]] /\ f[i - 1] \in Int
    BY <1>1, <1>6 DEF IsLoop
  <2> QED BY <2>1 DEF round
<1>8. f = step(f)
  <2>1. ASSUME NEW i \in 0..n PROVE f[i] = IF i = 0 THEN 0 ELSE next(f[i - 1], i)
    <3>1. CASE i = 0
      BY <1>6, <3>1 DEF IsLoop
    <3>2. CASE i # 0
      <4>1. i \in 1..n
        BY <1>1, <3>2
      <4> QED BY <1>7, <3>2, <4>1
    <3> QED BY <3>1, <3>2
  <2>2. f = [i \in 0..n |-> f[i]]
    BY <1>6 DEF IsLoop
  <2> QED BY <2>1, <2>2
<1>9. value = step(value)
  <2> HIDE DEF step
  <2>1. \E g : g = step(g)
    BY <1>8
  <2> QED BY <2>1, Zenon
<1> HIDE DEF value
<1>10. DOMAIN value = 0..n /\ value = [i \in 0..n |-> value[i]]
  BY <1>9
<1>11. value[0] = 0
  <2>1. 0 \in 0..n
    BY <1>1
  <2> QED BY <1>9, <2>1
<1>12. ASSUME NEW i \in 1..n PROVE value[i] = next(value[i - 1], i)
  <2>1. i \in 0..n /\ i # 0
    BY <1>1
  <2> QED BY <1>9, <2>1
<1> HIDE DEF step
<1> DEFINE Q == {i \in 0..n : value[i] \in Int}
<1>13. 0 \in Q
  BY <1>1, <1>11
<1>14. ASSUME NEW i \in (0 + 1)..n, i - 1 \in Q PROVE i \in Q
  <2>1. i \in 0..n /\ i \in 1..n
    BY <1>1
  <2> QED BY <1>4, <1>12, <1>14, <2>1
<1> HIDE DEF Q
<1>15. \A i \in 0..n : i \in Q
  <2>1. 0 \in Int /\ n \in Int
    BY <1>1
  <2> QED BY <1>13, <1>14, <2>1, CountUp
<1>16. value \in [0..n -> Int]
  BY <1>10, <1>15 DEF Q
<1>17. Valuation(value, digits, radix)
  BY <1>2, <1>3, <1>11, <1>12, <1>16 DEF Valuation, next
<1> QED BY <1>17

(* Zeroes in front do not count.                                            *)
LEMMA ValuePadded ==
  ASSUME NEW t \in Seq(Int), NEW b \in Seq(Int), NEW z \in Nat, NEW radix \in Nat,
         Len(t) = z + Len(b), \A i \in 1..z : t[i] = 0, \A i \in 1..Len(b) : t[z + i] = b[i]
  PROVE  Value(t, radix) = Value(b, radix)
<1>1. PICK v : Valuation(v, t, radix)
  BY ValueIs
<1>2. PICK w : Valuation(w, b, radix)
  BY ValueIs
<1> DEFINE l == Len(b)  n == z + l
<1>3. /\ v \in [0..n -> Int] /\ v[0] = 0 /\ Value(t, radix) = v[n]
      /\ \A i \in 1..n : v[i] = radix * v[i - 1] + t[i]
  BY <1>1 DEF Valuation
<1>4. /\ w \in [0..l -> Int] /\ w[0] = 0 /\ Value(b, radix) = w[l]
      /\ \A i \in 1..l : w[i] = radix * w[i - 1] + b[i]
  BY <1>2 DEF Valuation
<1>5. l \in Nat /\ n = z + l /\ n \in Nat /\ \A i \in 1..l : t[z + i] = b[i]
  OBVIOUS
<1> HIDE DEF l, n
<1> DEFINE Z == {i \in 0..z : v[i] = 0}
<1>6. \A i \in 0..z : i \in Z
  <2>1. 0 \in Z
    BY <1>3
  <2>2. ASSUME NEW i \in (0 + 1)..z, i - 1 \in Z PROVE i \in Z
    <3>1. i \in 1..z /\ i \in 1..n /\ i \in 0..z /\ v[i - 1] = 0 /\ t[i] = 0
      BY <1>5, <2>2
    <3>2. v[i] = radix * 0 + 0
      BY <1>3, <3>1
    <3> QED BY <3>1, <3>2
  <2> HIDE DEF Z
  <2>3. 0 \in Int /\ z \in Int
    OBVIOUS
  <2> QED BY <2>1, <2>2, <2>3, CountUp
<1>7. v[z] = 0
  BY <1>6
<1> DEFINE Q == {i \in 0..l : v[z + i] = w[i]}
<1>8. \A i \in 0..l : i \in Q
  <2>1. 0 \in Q
    <3>1. z + 0 = z
      OBVIOUS
    <3> QED BY <1>4, <1>5, <1>7, <3>1
  <2>2. ASSUME NEW i \in (0 + 1)..l, i - 1 \in Q PROVE i \in Q
    <3>1. /\ i \in 1..l /\ z + i \in 1..n /\ i \in 0..l /\ v[z + (i - 1)] = w[i - 1] /\ t[z + i] = b[i]
          /\ (z + i) - 1 = z + (i - 1)
      BY <1>5, <2>2
    <3>2. v[z + i] = radix * v[(z + i) - 1] + t[z + i] /\ w[i] = radix * w[i - 1] + b[i]
      BY <1>3, <1>4, <3>1
    <3>3. v[z + i] = w[i]
      <4>1. v[(z + i) - 1] = w[i - 1]
        BY <3>1, Zenon
      <4>2. radix * v[(z + i) - 1] + t[z + i] = radix * w[i - 1] + b[i]
        BY <3>1, <4>1, Zenon
      <4> QED BY <3>2, <4>2, Zenon
    <3> QED BY <3>1, <3>3
  <2> HIDE DEF Q
  <2>3. 0 \in Int /\ l \in Int
    BY <1>5
  <2> QED BY <2>1, <2>2, <2>3, CountUp
<1>9. v[z + l] = w[l]
  BY <1>5, <1>8
<1> QED BY <1>3, <1>4, <1>5, <1>9

(* One more digit behind.                                                   *)
LEMMA ValueAppend ==
  ASSUME NEW t \in Seq(Int), NEW d \in Int, NEW radix \in Nat
  PROVE  Value(Append(t, d), radix) = radix * Value(t, radix) + d /\ Value(t, radix) \in Int
<1> DEFINE u == Append(t, d)  n == Len(t)
<1>1. u \in Seq(Int) /\ Len(u) = n + 1 /\ u[n + 1] = d /\ n \in Nat /\ \A i \in 1..n : u[i] = t[i]
  OBVIOUS
<1>2. PICK w : Valuation(w, t, radix)
  BY ValueIs
<1>3. n = Len(t) /\ u = Append(t, d)
  OBVIOUS
<1> HIDE DEF u, n
<1>4. PICK v : Valuation(v, u, radix)
  BY <1>1, ValueIs
<1>5. /\ v \in [0..(n + 1) -> Int] /\ v[0] = 0 /\ Value(u, radix) = v[n + 1]
      /\ \A i \in 1..(n + 1) : v[i] = radix * v[i - 1] + u[i]
  BY <1>1, <1>4 DEF Valuation
<1>6. /\ w \in [0..n -> Int] /\ w[0] = 0 /\ Value(t, radix) = w[n]
      /\ \A i \in 1..n : w[i] = radix * w[i - 1] + t[i]
  BY <1>2, <1>3 DEF Valuation
<1> DEFINE Q == {i \in 0..n : v[i] = w[i]}
<1>7. \A i \in 0..n : i \in Q
  <2>1. 0 \in Q
    BY <1>1, <1>5, <1>6
  <2>2. ASSUME NEW i \in (0 + 1)..n, i - 1 \in Q PROVE i \in Q
    <3>1. i \in 1..n /\ i \in 1..(n + 1) /\ i \in 0..n /\ v[i - 1] = w[i - 1] /\ u[i] = t[i]
      BY <1>1, <2>2
    <3>2. v[i] = radix * v[i - 1] + u[i] /\ w[i] = radix * w[i - 1] + t[i]
      BY <1>5, <1>6, <3>1
    <3> QED BY <3>1, <3>2
  <2> HIDE DEF Q
  <2>3. 0 \in Int /\ n \in Int
    BY <1>1
  <2> QED BY <2>1, <2>2, <2>3, CountUp
<1>8. v[n] = w[n] /\ w[n] \in Int
  BY <1>1, <1>6, <1>7
<1>9. v[n + 1] = radix * v[n] + d
  <2>1. n + 1 \in 1..(n + 1) /\ (n + 1) - 1 = n
    BY <1>1
  <2> QED BY <1>1, <1>5, <2>1
<1> QED BY <1>3, <1>5, <1>6, <1>8, <1>9

LEMMA ValueOfOne ==
  ASSUME NEW d \in Int, NEW radix \in Nat
  PROVE  Value(<<d>>, radix) = d
<1>1. <<d>> \in Seq(Int) /\ Len(<<d>>) = 1 /\ <<d>>[1] = d
  OBVIOUS
<1>2. PICK v : Valuation(v, <<d>>, radix)
  BY <1>1, ValueIs
<1>3. v[0] = 0 /\ v[1] = radix * v[1 - 1] + d /\ Value(<<d>>, radix) = v[1]
  BY <1>1, <1>2 DEF Valuation
<1>4. v[1] = radix * 0 + d
  <2>1. 1 - 1 = 0
    OBVIOUS
  <2> QED BY <1>3, <2>1
<1> QED BY <1>3, <1>4

(* What one character adds to the width.                                    *)
Widened(wd, ch) == IF ch \in DOMAIN Numeral THEN 10 * wd + Numeral[ch] ELSE wd

LEMMA NumeralIs ==
  ASSUME NEW ch \in DOMAIN Numeral
  PROVE  Numeral[ch] \in Nat
BY DEF Numeral

LEMMA WidenedIs ==
  ASSUME NEW wd \in Nat, NEW ch
  PROVE  Widened(wd, ch) \in Nat
<1>1. CASE ch \in DOMAIN Numeral
  <2>1. Numeral[ch] \in Nat
    BY <1>1, NumeralIs
  <2> QED BY <1>1, <2>1 DEF Widened
<1> QED BY <1>1 DEF Widened

Widths(v, chars) ==
  /\ v \in [0..Len(chars) -> Nat] /\ v[0] = 0 /\ Spelled(chars) = v[Len(chars)]
  /\ \A i \in 1..Len(chars) : v[i] = Widened(v[i - 1], chars[i])

LEMMA SpelledIs ==
  ASSUME NEW S, NEW chars \in Seq(S)
  PROVE  \E v : Widths(v, chars)
<1> DEFINE n == Len(chars)
           step(f) == [i \in 0..n |-> IF i = 0 THEN 0
                                      ELSE IF chars[i] \in DOMAIN Numeral
                                        THEN 10 * f[i - 1] + Numeral[chars[i]]
                                      ELSE f[i - 1]]
           width == CHOOSE f : f = step(f)
           round == [i \in (0 + 1)..n |-> [o \in Nat |-> Widened(o, chars[i])]]
<1>1. n \in Nat /\ n = Len(chars)
  OBVIOUS
<1>2. Spelled(chars) = width[n]
  BY DEF Spelled
<1> HIDE DEF n
<1>5. round \in Rounds(Nat, 0, n)
  BY WidenedIs DEF Rounds
<1> HIDE DEF round
<1>6. PICK f : IsLoop(f, Nat, 0, n, 0, round)
  <2>1. 0 \in Int /\ n \in Int /\ 0 <= n /\ 0 \in Nat
    BY <1>1
  <2> QED BY <1>5, <2>1, LoopDefined
<1>7. ASSUME NEW i \in 1..n PROVE f[i] = Widened(f[i - 1], chars[i])
  <2>1. f[i] = round[i][f[i - 1]] /\ f[i - 1] \in Nat
    BY <1>1, <1>6 DEF IsLoop
  <2> QED BY <2>1 DEF round
<1>8. f = step(f)
  <2>1. ASSUME NEW i \in 0..n PROVE f[i] = step(f)[i]
    <3>1. CASE i = 0
      BY <1>6, <3>1 DEF IsLoop
    <3>2. CASE i # 0
      <4>1. i \in 1..n
        BY <1>1, <3>2
      <4>2. f[i] = Widened(f[i - 1], chars[i])
        BY <1>7, <4>1
      <4> QED BY <3>2, <4>2 DEF Widened
    <3> QED BY <3>1, <3>2
  <2>2. f = [i \in 0..n |-> f[i]] /\ DOMAIN f = 0..n
    BY <1>6 DEF IsLoop
  <2>3. step(f) = [i \in 0..n |-> step(f)[i]] /\ DOMAIN step(f) = 0..n
    OBVIOUS
  <2> HIDE DEF step
  <2> QED BY <2>1, <2>2, <2>3
<1>9. width = step(width)
  <2> HIDE DEF step
  <2>1. \E g : g = step(g)
    BY <1>8
  <2> QED BY <2>1, Zenon
<1> HIDE DEF width
<1>10. DOMAIN width = 0..n /\ width = [i \in 0..n |-> width[i]]
  BY <1>9
<1>11. width[0] = 0
  <2>1. 0 \in 0..n
    BY <1>1
  <2> QED BY <1>9, <2>1
<1>12. ASSUME NEW i \in 1..n PROVE width[i] = Widened(width[i - 1], chars[i])
  <2>1. i \in 0..n /\ i # 0
    BY <1>1
  <2> QED BY <1>9, <2>1 DEF Widened
<1> HIDE DEF step
<1> DEFINE Q == {i \in 0..n : width[i] \in Nat}
<1>13. 0 \in Q
  BY <1>1, <1>11
<1>14. ASSUME NEW i \in (0 + 1)..n, i - 1 \in Q PROVE i \in Q
  <2>1. i \in 0..n /\ i \in 1..n /\ width[i - 1] \in Nat
    BY <1>1, <1>14
  <2>2. width[i] \in Nat
    BY <1>12, <2>1, WidenedIs
  <2> QED BY <2>1, <2>2
<1> HIDE DEF Q
<1>15. \A i \in 0..n : i \in Q
  <2>1. 0 \in Int /\ n \in Int
    BY <1>1
  <2> QED BY <1>13, <1>14, <2>1, CountUp
<1>16. width \in [0..n -> Nat]
  BY <1>10, <1>15 DEF Q
<1>17. Widths(width, chars)
  BY <1>1, <1>2, <1>11, <1>12, <1>16 DEF Widths
<1> QED BY <1>17

LEMMA SpelledAppend ==
  ASSUME NEW S, NEW t \in Seq(S), NEW ch \in S
  PROVE  Spelled(Append(t, ch)) = Widened(Spelled(t), ch) /\ Spelled(t) \in Nat
<1> DEFINE u == Append(t, ch)  n == Len(t)
<1>1. u \in Seq(S) /\ Len(u) = n + 1 /\ u[n + 1] = ch /\ n \in Nat /\ \A i \in 1..n : u[i] = t[i]
  OBVIOUS
<1>2. PICK w : Widths(w, t)
  BY SpelledIs
<1>3. n = Len(t) /\ u = Append(t, ch)
  OBVIOUS
<1> HIDE DEF u, n
<1>4. PICK v : Widths(v, u)
  BY <1>1, SpelledIs
<1>5. /\ v \in [0..(n + 1) -> Nat] /\ v[0] = 0 /\ Spelled(u) = v[n + 1]
      /\ \A i \in 1..(n + 1) : v[i] = Widened(v[i - 1], u[i])
  BY <1>1, <1>4 DEF Widths
<1>6. /\ w \in [0..n -> Nat] /\ w[0] = 0 /\ Spelled(t) = w[n]
      /\ \A i \in 1..n : w[i] = Widened(w[i - 1], t[i])
  BY <1>2, <1>3 DEF Widths
<1> DEFINE Q == {i \in 0..n : v[i] = w[i]}
<1>7. \A i \in 0..n : i \in Q
  <2>1. 0 \in Q
    BY <1>1, <1>5, <1>6
  <2>2. ASSUME NEW i \in (0 + 1)..n, i - 1 \in Q PROVE i \in Q
    <3>1. i \in 1..n /\ i \in 1..(n + 1) /\ i \in 0..n /\ v[i - 1] = w[i - 1] /\ u[i] = t[i]
      BY <1>1, <2>2
    <3>2. v[i] = Widened(v[i - 1], u[i]) /\ w[i] = Widened(w[i - 1], t[i])
      BY <1>5, <1>6, <3>1
    <3> QED BY <3>1, <3>2
  <2> HIDE DEF Q
  <2>3. 0 \in Int /\ n \in Int
    BY <1>1
  <2> QED BY <2>1, <2>2, <2>3, CountUp
<1>8. v[n] = w[n] /\ w[n] \in Nat
  BY <1>1, <1>6, <1>7
<1>9. v[n + 1] = Widened(v[n], ch)
  <2>1. n + 1 \in 1..(n + 1) /\ (n + 1) - 1 = n
    BY <1>1
  <2> QED BY <1>1, <1>5, <2>1
<1> QED BY <1>3, <1>5, <1>6, <1>8, <1>9

(* The directives %, %- and %0 spell no width yet.                          *)
LEMMA SpelledNothing == Spelled(<<>>) = 0 /\ Spelled(<<"%">>) = 0
<1>1. <<>> \in Seq({"%"}) /\ Len(<<>>) = 0
  OBVIOUS
<1>0. "%" \in {"%"}
  OBVIOUS
<1>2. PICK v : Widths(v, <<>>)
  BY <1>1, SpelledIs
<1>3. Spelled(<<>>) = 0
  BY <1>1, <1>2 DEF Widths
<1>4. Append(<<>>, "%") = <<"%">> /\ "%" \notin DOMAIN Numeral
  BY DEF Numeral
<1>5. Spelled(Append(<<>>, "%")) = Widened(Spelled(<<>>), "%")
  BY <1>0, <1>1, SpelledAppend
<1> QED BY <1>3, <1>4, <1>5 DEF Widened

(***************************************************************************)
(* The digits of a number.                                                 *)
(***************************************************************************)
LEMMA DivisionIs ==
  ASSUME NEW n \in Nat, NEW radix \in {8, 10, 16}
  PROVE  /\ n \div radix \in Nat /\ n % radix \in 0..(radix - 1)
         /\ n = radix * (n \div radix) + (n % radix)
         /\ n >= radix => n \div radix < n /\ n \div radix >= 1
<1>1. CASE radix = 8
  BY <1>1
<1>2. CASE radix = 10
  BY <1>2
<1>3. CASE radix = 16
  BY <1>3
<1> QED BY <1>1, <1>2, <1>3

(* The digits of n, given the ones of smaller numbers.                      *)
DigitsFrom(o, n, radix) == IF n < radix THEN <<n>> ELSE Append(o[n \div radix], n % radix)

LEMMA DigitsDefined ==
  ASSUME NEW num \in Nat, NEW radix \in {8, 10, 16}
  PROVE  \E g : g = [n \in 0..num |-> DigitsFrom(g, n, radix)]
<1> DEFINE A == [0..num -> Seq(Int)]
           base == [n \in 0..num |-> << 0 >>]
           put(o, k) == [o EXCEPT ![k] = DigitsFrom(o, k, radix)]
           round == [k \in (0 + 1)..num |-> [o \in A |-> put(o, k)]]
<1>1. base \in A
  OBVIOUS
<1>2. ASSUME NEW o \in A, NEW k \in 0..num
      PROVE  DigitsFrom(o, k, radix) \in Seq(Int)
  <2>1. CASE k < radix
    BY <2>1 DEF DigitsFrom
  <2>2. CASE ~(k < radix)
    <3>1. k >= radix /\ k \in Nat
      BY <2>2
    <3>2. k \div radix \in 0..num /\ k % radix \in Int
      BY <3>1, DivisionIs
    <3>3. o[k \div radix] \in Seq(Int)
      BY <3>2
    <3> QED BY <2>2, <3>2, <3>3 DEF DigitsFrom
  <2> QED BY <2>1, <2>2
<1>3. ASSUME NEW o \in A, NEW k \in 1..num PROVE put(o, k) \in A
  <2>1. k \in 0..num
    OBVIOUS
  <2>2. DigitsFrom(o, k, radix) \in Seq(Int)
    BY <1>2, <2>1
  <2> QED BY <2>1, <2>2
<1>4. round \in Rounds(A, 0, num)
  <2> HIDE DEF put, A
  <2> QED BY <1>3 DEF Rounds
<1> HIDE DEF round, base
<1>5. PICK f : IsLoop(f, A, 0, num, base, round)
  <2> HIDE DEF A
  <2>1. 0 \in Int /\ num \in Int /\ 0 <= num
    OBVIOUS
  <2> QED BY <1>1, <1>4, <2>1, LoopDefined
<1>6. f \in [0..num -> A] /\ f[0] = base
  BY <1>5 DEF IsLoop
<1>7. ASSUME NEW k \in 1..num PROVE f[k] = put(f[k - 1], k) /\ f[k - 1] \in A
  <2> HIDE DEF put, A
  <2>1. f[k] = round[k][f[k - 1]] /\ f[k - 1] \in A
    BY <1>5 DEF IsLoop
  <2> QED BY <2>1 DEF round
<1> DEFINE Q == {k \in 0..num : \A i \in 0..k : f[k][i] = DigitsFrom(f[k], i, radix)}
<1>8. 0 \in Q
  <2>1. f[0][0] = << 0 >> /\ 0 \in 0..num
    BY <1>6 DEF base
  <2>2. DigitsFrom(f[0], 0, radix) = << 0 >>
    BY DEF DigitsFrom
  <2>3. \A i \in 0..0 : i = 0
    OBVIOUS
  <2> QED BY <2>1, <2>2, <2>3
<1>9. ASSUME NEW k \in (0 + 1)..num, k - 1 \in Q PROVE k \in Q
  <2>1. k \in 1..num /\ k \in 0..num
    OBVIOUS
  <2>2. f[k] = put(f[k - 1], k) /\ f[k - 1] \in A
    BY <1>7, <2>1
  <2>3. f[k][k] = DigitsFrom(f[k - 1], k, radix) /\ \A i \in 0..num : i # k => f[k][i] = f[k - 1][i]
    BY <2>1, <2>2
  <2>4. ASSUME NEW i \in 0..k PROVE DigitsFrom(f[k - 1], i, radix) = DigitsFrom(f[k], i, radix)
    <3>1. CASE i < radix
      BY <3>1 DEF DigitsFrom
    <3>2. CASE ~(i < radix)
      <4>1. i \in Nat /\ i >= radix
        BY <3>2
      <4>2. i \div radix \in Nat /\ i \div radix < i
        BY <4>1, DivisionIs
      <4>3. i \div radix \in 0..num /\ i \div radix # k
        BY <4>2
      <4> QED BY <2>3, <4>3 DEF DigitsFrom
    <3> QED BY <3>1, <3>2
  <2>5. ASSUME NEW i \in 0..k PROVE f[k][i] = DigitsFrom(f[k], i, radix)
    <3>1. CASE i = k
      BY <2>3, <2>4, <3>1
    <3>2. CASE i # k
      <4>1. i \in 0..(k - 1) /\ i \in 0..num
        BY <3>2
      <4>2. f[k - 1][i] = DigitsFrom(f[k - 1], i, radix)
        BY <1>9, <4>1
      <4> QED BY <2>3, <2>4, <3>2, <4>1, <4>2
    <3> QED BY <3>1, <3>2
  <2> QED BY <2>1, <2>5
<1> HIDE DEF Q
<1>10. num \in Q
  <2>1. 0 \in Int /\ num \in Int /\ num \in 0..num
    OBVIOUS
  <2>2. \A k \in 0..num : k \in Q
    BY <1>8, <1>9, <2>1, CountUp
  <2> QED BY <2>1, <2>2
<1>11. \A i \in 0..num : f[num][i] = DigitsFrom(f[num], i, radix)
  BY <1>10 DEF Q
<1>12. f[num] = [n \in 0..num |-> f[num][n]]
  BY <1>6
<1>13. f[num] = [n \in 0..num |-> DigitsFrom(f[num], n, radix)]
  BY <1>11, <1>12
<1> QED BY <1>13

(* They spell the number, without a zero in front.                          *)
Spells(t, n, radix) ==
  /\ t \in Seq(0..(radix - 1)) /\ Len(t) >= 1 /\ Value(t, radix) = n
  /\ n # 0 => t[1] # 0
  /\ n = 0 => t = << 0 >>

LEMMA DigitsSpell ==
  ASSUME NEW num \in Nat, NEW radix \in {8, 10, 16}
  PROVE  Spells(Digits(num, radix), num, radix)
<1> DEFINE step(g) == [n \in 0..num |-> DigitsFrom(g, n, radix)]
           digits == CHOOSE g : g = step(g)
<1>1. Digits(num, radix) = digits[num]
  BY DEF Digits, DigitsFrom
<1>2. digits = step(digits)
  <2>1. \E g : g = step(g)
    BY DigitsDefined
  <2> HIDE DEF step
  <2> QED BY <2>1, Zenon
<1> HIDE DEF digits
<1>3. \A n \in 0..num : digits[n] = DigitsFrom(digits, n, radix)
  BY <1>2
<1> HIDE DEF step
<1> DEFINE Q == {k \in 0..num : \A i \in 0..k : Spells(digits[i], i, radix)}
<1>4. ASSUME NEW n \in 0..num, n < radix PROVE Spells(digits[n], n, radix)
  <2>1. digits[n] = <<n>>
    BY <1>3, <1>4 DEF DigitsFrom
  <2>2. Value(<<n>>, radix) = n
    BY ValueOfOne
  <2>3. n \in 0..(radix - 1)
    BY <1>4
  <2>4. <<n>> \in Seq(0..(radix - 1)) /\ Len(<<n>>) = 1 /\ <<n>>[1] = n
    BY <2>3
  <2> QED BY <2>1, <2>2, <2>4 DEF Spells
<1>5. 0 \in Q
  <2>1. 0 \in 0..num /\ 0 < radix /\ \A i \in 0..0 : i = 0
    OBVIOUS
  <2>2. Spells(digits[0], 0, radix)
    BY <1>4, <2>1
  <2> QED BY <2>1, <2>2
<1>6. ASSUME NEW k \in (0 + 1)..num, k - 1 \in Q PROVE k \in Q
  <2>1. k \in 0..num /\ k \in Nat
    OBVIOUS
  <2>2. Spells(digits[k], k, radix)
    <3>1. CASE k < radix
      BY <1>4, <2>1, <3>1
    <3>2. CASE ~(k < radix)
      <4> DEFINE h == k \div radix  d == k % radix  t == digits[h]
      <4>1. /\ h \in Nat /\ h < k /\ h >= 1 /\ d \in 0..(radix - 1) /\ k = radix * h + d
        BY <2>1, <3>2, DivisionIs
      <4>2. digits[k] = Append(t, d)
        BY <1>3, <2>1, <3>2 DEF DigitsFrom
      <4> HIDE DEF h, d
      <4>3. h \in 0..(k - 1)
        BY <4>1
      <4>4. Spells(t, h, radix)
        BY <1>6, <4>3
      <4> HIDE DEF t
      <4>5. t \in Seq(0..(radix - 1)) /\ Len(t) >= 1 /\ Value(t, radix) = h /\ t[1] # 0
        BY <4>1, <4>4 DEF Spells
      <4>6. /\ Append(t, d) \in Seq(0..(radix - 1)) /\ Len(Append(t, d)) >= 1
            /\ Append(t, d)[1] = t[1]
        BY <4>1, <4>5
      <4>7. t \in Seq(Int) /\ d \in Int /\ radix \in Nat
        BY <4>1, <4>5
      <4>8. Value(Append(t, d), radix) = radix * h + d
        BY <4>5, <4>7, ValueAppend
      <4>9. k # 0
        OBVIOUS
      <4> QED BY <4>1, <4>2, <4>5, <4>6, <4>8, <4>9 DEF Spells
    <3> QED BY <3>1, <3>2
  <2>3. ASSUME NEW i \in 0..k PROVE Spells(digits[i], i, radix)
    <3>1. CASE i = k
      BY <2>2, <3>1
    <3>2. CASE i # k
      <4>1. i \in 0..(k - 1)
        BY <3>2
      <4> QED BY <1>6, <4>1
    <3> QED BY <3>1, <3>2
  <2> QED BY <2>1, <2>3
<1> HIDE DEF Q
<1>7. num \in Q
  <2>1. 0 \in Int /\ num \in Int /\ num \in 0..num
    OBVIOUS
  <2>2. \A k \in 0..num : k \in Q
    BY <1>5, <1>6, <2>1, CountUp
  <2> QED BY <2>1, <2>2
<1>8. Spells(digits[num], num, radix)
  BY <1>7 DEF Q
<1> QED BY <1>1, <1>8

(***************************************************************************)
(* What EMIT puts out.                                                     *)
(***************************************************************************)
LEMMA RepeatIs ==
  ASSUME NEW ch \in Int, NEW n \in Nat
  PROVE  /\ Repeat(ch, n) \in Seq(Int) /\ Len(Repeat(ch, n)) = n
         /\ \A i \in 1..n : Repeat(ch, n)[i] = ch
BY DEF Repeat

(* The elements of s stand in f behind the first n.                         *)
StandsAt(f, n, s) == \A i \in 1..Len(s) : f[n + i] = s[i]

LEMMA JoinTwo ==
  ASSUME NEW p \in Seq(Int), NEW q \in Seq(Int)
  PROVE  /\ p \o q \in Seq(Int) /\ Len(p \o q) = Len(p) + Len(q)
         /\ \A i \in 1..Len(p) : (p \o q)[i] = p[i]
         /\ StandsAt(p \o q, Len(p), q)
<1> DEFINE f == p \o q  m == Len(p)  n == Len(q)
<1>1. f \in Seq(Int) /\ Len(f) = m + n /\ \A i \in 1..(m + n) : f[i] = IF i <= m THEN p[i] ELSE q[i - m]
  BY ConcatProperties
<1>2. m \in Nat /\ n \in Nat
  OBVIOUS
<1> HIDE DEF f, m, n
<1>3. ASSUME NEW i \in 1..m PROVE f[i] = p[i]
  <2>1. i \in 1..(m + n) /\ i <= m
    BY <1>2
  <2> QED BY <1>1, <2>1
<1>4. ASSUME NEW i \in 1..n PROVE f[m + i] = q[i]
  <2>1. m + i \in 1..(m + n) /\ ~(m + i <= m) /\ (m + i) - m = i
    BY <1>2
  <2> QED BY <1>1, <2>1
<1> QED BY <1>1, <1>3, <1>4 DEF f, m, n, StandsAt

Joined(f, p, q, r, s) ==
  /\ f \in Seq(Int) /\ Len(f) = Len(p) + Len(q) + Len(r) + Len(s)
  /\ StandsAt(f, 0, p) /\ StandsAt(f, Len(p), q) /\ StandsAt(f, Len(p) + Len(q), r)
  /\ StandsAt(f, Len(p) + Len(q) + Len(r), s)

LEMMA JoinFour ==
  ASSUME NEW p \in Seq(Int), NEW q \in Seq(Int), NEW r \in Seq(Int), NEW s \in Seq(Int)
  PROVE  Joined(p \o q \o r \o s, p, q, r, s)
<1> DEFINE u == p \o q  v == u \o r  f == v \o s
<1>1. /\ u \in Seq(Int) /\ Len(u) = Len(p) + Len(q)
      /\ \A i \in 1..Len(p) : u[i] = p[i]
      /\ StandsAt(u, Len(p), q)
  BY JoinTwo
<1> HIDE DEF u
<1>3. /\ v \in Seq(Int) /\ Len(v) = Len(u) + Len(r)
      /\ \A i \in 1..Len(u) : v[i] = u[i]
      /\ StandsAt(v, Len(u), r)
  BY <1>1, JoinTwo
<1> HIDE DEF v
<1>4. /\ f \in Seq(Int) /\ Len(f) = Len(v) + Len(s)
      /\ \A i \in 1..Len(v) : f[i] = v[i]
      /\ StandsAt(f, Len(v), s)
  BY <1>3, JoinTwo
<1> HIDE DEF f
<1>5. Len(p) \in Nat /\ Len(q) \in Nat /\ Len(r) \in Nat /\ Len(s) \in Nat
  OBVIOUS
<1>6. ASSUME NEW i \in 1..Len(p) PROVE f[0 + i] = p[i]
  <2>1. 0 + i = i /\ i \in 1..Len(u) /\ i \in 1..Len(v)
    BY <1>1, <1>3, <1>5
  <2> QED BY <1>1, <1>3, <1>4, <2>1
<1>7. ASSUME NEW i \in 1..Len(q) PROVE f[Len(p) + i] = q[i]
  <2>1. Len(u) = Len(p) + Len(q) /\ Len(v) = Len(u) + Len(r)
    BY <1>1, <1>3
  <2>2. Len(p) + i \in 1..Len(u) /\ Len(p) + i \in 1..Len(v)
    BY <1>5, <2>1
  <2> QED BY <1>1, <1>3, <1>4, <2>2 DEF StandsAt
<1>8. ASSUME NEW i \in 1..Len(r) PROVE f[Len(u) + i] = r[i]
  <2>1. Len(u) + i \in 1..Len(v)
    BY <1>1, <1>3, <1>5
  <2> QED BY <1>3, <1>4, <2>1 DEF StandsAt
<1>9. Len(v) = Len(p) + Len(q) + Len(r)
  BY <1>1, <1>3
<1>10. StandsAt(f, 0, p) /\ StandsAt(f, Len(p), q)
  BY <1>6, <1>7 DEF StandsAt
<1>11. StandsAt(f, Len(p) + Len(q), r)
  BY <1>1, <1>8 DEF StandsAt
<1>12. StandsAt(f, Len(p) + Len(q) + Len(r), s)
  BY <1>4, <1>9
<1>13. Len(f) = Len(p) + Len(q) + Len(r) + Len(s)
  BY <1>4, <1>9
<1>14. Joined(f, p, q, r, s)
  BY <1>4, <1>10, <1>11, <1>12, <1>13 DEF Joined
<1> QED BY <1>14 DEF f, v, u

(* a blanks, the sign, z zeroes, the body and b blanks.                      *)
Layout(f, a, sign, z, body, b) ==
  /\ f \in Seq(Int) /\ Len(f) = a + Len(sign) + z + Len(body) + b
  /\ \A i \in 1..a : f[i] = Blank
  /\ StandsAt(f, a, sign)
  /\ \A i \in 1..z : f[a + Len(sign) + i] = 0
  /\ StandsAt(f, a + Len(sign) + z, body)
  /\ \A i \in 1..b : f[a + Len(sign) + z + Len(body) + i] = Blank

LaidOut(f, sign, body, pad) ==
  \E a, z, b \in Nat : Layout(f, a, sign, z, body, b) /\ a + z + b = pad

LEMMA EmittedIs ==
  ASSUME NEW fs, NEW wd \in Nat, NEW sign \in Seq(Int), NEW body \in Seq(Int), NEW natural \in Nat
  PROVE  LaidOut(Emitted(fs, wd, sign, body, natural), sign, body, Larger(wd - natural - Len(sign), 0))
<1> DEFINE pad == Larger(wd - natural - Len(sign), 0)
           f == Emitted(fs, wd, sign, body, natural)
           m == Len(sign)  n == Len(body)
<1>1. pad \in Nat /\ m \in Nat /\ n \in Nat
  BY DEF Larger
<1>2. "LJ" \in fs /\ "LZ" \in fs => f = sign \o <<>> \o body \o Repeat(Blank, pad)
  BY DEF Emitted
<1>3. "LJ" \in fs /\ "LZ" \notin fs => f = <<>> \o sign \o body \o Repeat(Blank, pad)
  BY DEF Emitted
<1>4. "LJ" \notin fs /\ "LZ" \in fs => f = sign \o Repeat(0, pad) \o body \o <<>>
  BY DEF Emitted
<1>5. "LJ" \notin fs /\ "LZ" \notin fs => f = Repeat(Blank, pad) \o sign \o body \o <<>>
  BY DEF Emitted
<1>6. pad = Larger(wd - natural - Len(sign), 0) /\ m = Len(sign) /\ n = Len(body)
  OBVIOUS
<1> HIDE DEF pad, f
<1>7. /\ Repeat(Blank, pad) \in Seq(Int) /\ Len(Repeat(Blank, pad)) = pad
      /\ \A i \in 1..pad : Repeat(Blank, pad)[i] = Blank
  <2>1. Blank \in Int
    BY DEF Blank
  <2> QED BY <1>1, <2>1, RepeatIs
<1>8. /\ Repeat(0, pad) \in Seq(Int) /\ Len(Repeat(0, pad)) = pad
      /\ \A i \in 1..pad : Repeat(0, pad)[i] = 0
  <2>1. 0 \in Int
    OBVIOUS
  <2> QED BY <1>1, <2>1, RepeatIs
<1> DEFINE rb == Repeat(Blank, pad)  rz == Repeat(0, pad)  e == <<>>
<1>9. e \in Seq(Int) /\ Len(e) = 0
  OBVIOUS
<1> HIDE DEF rb, rz, e
<1>10. CASE "LJ" \in fs
  <2>1. ASSUME f = sign \o e \o body \o rb \/ f = e \o sign \o body \o rb
        PROVE  Layout(f, 0, sign, 0, body, pad)
    <3>1. rb \in Seq(Int) /\ Len(rb) = pad /\ \A i \in 1..pad : rb[i] = Blank
      BY <1>7 DEF rb
    <3>2. /\ f \in Seq(Int) /\ Len(f) = m + n + pad /\ StandsAt(f, 0, sign) /\ StandsAt(f, m, body)
          /\ StandsAt(f, m + n, rb)
      <4>1. CASE f = sign \o e \o body \o rb
        <5>0. Joined(f, sign, e, body, rb)
          BY <1>9, <3>1, <4>1, JoinFour
        <5>1. /\ f \in Seq(Int) /\ Len(f) = Len(sign) + Len(e) + Len(body) + Len(rb)
              /\ StandsAt(f, 0, sign) /\ StandsAt(f, Len(sign) + Len(e), body)
              /\ StandsAt(f, Len(sign) + Len(e) + Len(body), rb)
          BY <5>0 DEF Joined
        <5>2. Len(sign) + Len(e) = m
          BY <1>1, <1>9
        <5> QED BY <3>1, <5>1, <5>2
      <4>2. CASE f = e \o sign \o body \o rb
        <5>0. Joined(f, e, sign, body, rb)
          BY <1>9, <3>1, <4>2, JoinFour
        <5>1. /\ f \in Seq(Int) /\ Len(f) = Len(e) + Len(sign) + Len(body) + Len(rb)
              /\ StandsAt(f, Len(e), sign) /\ StandsAt(f, Len(e) + Len(sign), body)
              /\ StandsAt(f, Len(e) + Len(sign) + Len(body), rb)
          BY <5>0 DEF Joined
        <5>2. Len(e) + Len(sign) = m /\ Len(e) = 0
          BY <1>1, <1>9
        <5> QED BY <3>1, <5>1, <5>2
      <4> QED BY <2>1, <4>1, <4>2
    <3> HIDE DEF m, n
    <3>3. 0 + m + 0 = m /\ 0 + m + 0 + n = m + n /\ 0 + m + 0 + n + pad = m + n + pad
      BY <1>1
    <3>4. \A i \in 1..pad : f[m + n + i] = Blank
      BY <3>1, <3>2 DEF StandsAt
    <3> QED BY <1>6, <3>2, <3>3, <3>4 DEF Layout
  <2>2. Layout(f, 0, sign, 0, body, pad)
    BY <1>2, <1>3, <1>10, <2>1 DEF rb, e
  <2>3. 0 + 0 + pad = pad
    BY <1>1
  <2> QED BY <1>1, <1>6, <2>2, <2>3 DEF f, LaidOut
<1>11. CASE "LJ" \notin fs /\ "LZ" \in fs
  <2>1. rz \in Seq(Int) /\ Len(rz) = pad /\ \A i \in 1..pad : rz[i] = 0
    BY <1>8 DEF rz
  <2>2. f = sign \o rz \o body \o e
    BY <1>4, <1>11 DEF rz, e
  <2>3. /\ f \in Seq(Int) /\ Len(f) = Len(sign) + Len(rz) + Len(body) + Len(e)
        /\ StandsAt(f, 0, sign) /\ StandsAt(f, Len(sign), rz)
        /\ StandsAt(f, Len(sign) + Len(rz), body)
    <3>1. Joined(f, sign, rz, body, e)
      BY <1>9, <2>1, <2>2, JoinFour
    <3> QED BY <3>1 DEF Joined
  <2> HIDE DEF m, n
  <2>4. \A i \in 1..pad : f[m + i] = 0
    BY <1>6, <2>1, <2>3 DEF StandsAt
  <2>5. /\ 0 + m = m /\ 0 + m + pad = m + pad /\ 0 + m + pad + n + 0 = m + pad + n + 0
        /\ 0 + pad + 0 = pad
    BY <1>1
  <2>6. Layout(f, 0, sign, pad, body, 0)
    BY <1>6, <1>9, <2>1, <2>3, <2>4, <2>5 DEF Layout
  <2> QED BY <1>1, <1>6, <2>5, <2>6 DEF f, LaidOut
<1>12. CASE "LJ" \notin fs /\ "LZ" \notin fs
  <2>1. rb \in Seq(Int) /\ Len(rb) = pad /\ \A i \in 1..pad : rb[i] = Blank
    BY <1>7 DEF rb
  <2>2. f = rb \o sign \o body \o e
    BY <1>5, <1>12 DEF rb, e
  <2>3. /\ f \in Seq(Int) /\ Len(f) = Len(rb) + Len(sign) + Len(body) + Len(e)
        /\ StandsAt(f, 0, rb) /\ StandsAt(f, Len(rb), sign)
        /\ StandsAt(f, Len(rb) + Len(sign), body)
    <3>1. Joined(f, rb, sign, body, e)
      BY <1>9, <2>1, <2>2, JoinFour
    <3> QED BY <3>1 DEF Joined
  <2> HIDE DEF m, n
  <2>4. \A i \in 1..pad : f[i] = Blank
    <3> SUFFICES ASSUME NEW i \in 1..pad PROVE f[i] = Blank
      OBVIOUS
    <3>1. 0 + i = i
      BY <1>1
    <3> QED BY <2>1, <2>3, <3>1 DEF StandsAt
  <2>5. pad + m + 0 = pad + m /\ pad + m + 0 + n + 0 = pad + m + n + 0 /\ pad + 0 + 0 = pad
    BY <1>1
  <2>6. Layout(f, pad, sign, 0, body, 0)
    BY <1>6, <1>9, <2>1, <2>3, <2>4, <2>5 DEF Layout
  <2> QED BY <1>1, <1>6, <2>5, <2>6 DEF f, LaidOut
<1> QED BY <1>10, <1>11, <1>12

(* FillsWidth, of a field with short characters less than its width.        *)
Filled(f, wd, short) ==
  /\ Len(f) >= wd - short
  /\ Len(f) > wd => (\A i \in DOMAIN f : f[i] # Blank) /\ (f[1] # 0 \/ f = << 0 >>)

(* No blanks, and no zero in front of other digits.                         *)
Solid(s) == (\A i \in 1..Len(s) : s[i] # Blank) /\ (Len(s) >= 1 => s[1] # 0 \/ s = << 0 >>)

LEMMA LayoutFills ==
  ASSUME NEW f, NEW wd \in Nat, NEW natural \in Nat, NEW sign \in Seq(Int), NEW body \in Seq(Int),
         LaidOut(f, sign, body, Larger(wd - natural - Len(sign), 0)), natural >= Len(body),
         Solid(sign), sign # << 0 >>, Solid(body)
  PROVE  Filled(f, wd, natural - Len(body))
<1> DEFINE m == Len(sign)  n == Len(body)
<1>1. m \in Nat /\ n \in Nat
  OBVIOUS
<1>0. PICK a \in Nat, z \in Nat, b \in Nat :
        Layout(f, a, sign, z, body, b) /\ a + z + b = Larger(wd - natural - Len(sign), 0)
  BY DEF LaidOut
<1>2. f \in Seq(Int) /\ Len(f) = a + m + z + n + b /\ natural >= n
  BY <1>0 DEF Layout
<1>3. (a + z + b = wd - natural - m /\ wd - natural - m >= 0) \/ (a + z + b = 0 /\ wd - natural - m <= 0)
  <2>1. a + z + b = Larger(wd - natural - m, 0)
    BY <1>0
  <2> HIDE DEF m
  <2>2. wd - natural - m \in Int
    BY <1>1
  <2> QED BY <2>1, <2>2 DEF Larger
<1>4. StandsAt(f, a, sign) /\ StandsAt(f, a + m + z, body)
  BY <1>0 DEF Layout
<1>5. m = Len(sign) /\ n = Len(body)
  OBVIOUS
<1> HIDE DEF m, n
<1>6. Len(f) >= wd - (natural - n)
  BY <1>1, <1>2, <1>3
<1>7. ASSUME Len(f) > wd
      PROVE  (\A i \in DOMAIN f : f[i] # Blank) /\ (f[1] # 0 \/ f = << 0 >>)
  <2>1. a = 0 /\ z = 0 /\ b = 0 /\ Len(f) = m + n
    BY <1>1, <1>2, <1>3, <1>7
  <2>2. \A i \in 1..m : f[i] = sign[i]
    <3> SUFFICES ASSUME NEW i \in 1..m PROVE f[i] = sign[i]
      OBVIOUS
    <3>1. a + i = i
      BY <1>1, <2>1
    <3> QED BY <1>4, <1>5, <3>1 DEF StandsAt
  <2>3. \A i \in 1..n : f[m + i] = body[i]
    <3> SUFFICES ASSUME NEW i \in 1..n PROVE f[m + i] = body[i]
      OBVIOUS
    <3>1. a + m + z + i = m + i
      BY <1>1, <2>1
    <3> QED BY <1>4, <1>5, <3>1 DEF StandsAt
  <2>4. ASSUME NEW i \in DOMAIN f PROVE f[i] # Blank
    <3>1. i \in 1..(m + n)
      BY <1>2, <2>1
    <3>2. CASE i <= m
      <4>1. i \in 1..m
        BY <1>1, <3>1, <3>2
      <4> QED BY <1>5, <2>2, <4>1 DEF Solid
    <3>3. CASE ~(i <= m)
      <4>1. i - m \in 1..n /\ m + (i - m) = i
        BY <1>1, <3>1, <3>3
      <4> QED BY <1>5, <2>3, <4>1 DEF Solid
    <3> QED BY <3>2, <3>3
  <2>5. f[1] # 0 \/ f = << 0 >>
    <3>1. CASE m >= 1
      <4>1. 1 \in 1..m
        BY <1>1, <3>1
      <4> QED BY <1>5, <2>2, <3>1, <4>1 DEF Solid
    <3>2. CASE ~(m >= 1)
      <4>1. m = 0 /\ n >= 1 /\ 1 \in 1..n /\ m + 1 = 1 /\ Len(f) = n
        BY <1>1, <1>7, <2>1, <3>2
      <4>2. f[1] = body[1]
        BY <2>3, <4>1
      <4>3. CASE body = << 0 >>
        <5>1. n = 1
          BY <1>5, <4>3
        <5>2. f \in Seq(Int) /\ Len(f) = 1 /\ f[1] = 0
          BY <1>2, <4>1, <4>2, <4>3, <5>1
        <5> QED BY <5>2
      <4>4. CASE body # << 0 >>
        BY <1>5, <4>1, <4>2, <4>4 DEF Solid
      <4> QED BY <4>3, <4>4
    <3> QED BY <3>1, <3>2
  <2> QED BY <2>4, <2>5
<1> QED BY <1>5, <1>6, <1>7 DEF Filled

(* A layout whose sign is - or nothing reads as the value of its body.      *)
LEMMA LayoutReads ==
  ASSUME NEW f, NEW conv, NEW arg, NEW mag \in Nat, NEW pad,
         NEW radix \in {8, 10, 16}, radix = Radix(conv),
         NEW sign \in {<<>>, <<Minus>>}, NEW body, Spells(body, mag, radix),
         LaidOut(f, sign, body, pad),
         sign = <<>> => mag = arg % LongMod,
         sign = <<Minus>> => /\ LongMod - mag = arg % LongMod /\ conv \in {"d", "i"}
                             /\ mag <= LongMod \div 2
  PROVE  Reads(f, conv, arg % LongMod, LongMod)
<1>0. PICK a \in Nat, z \in Nat, b \in Nat : Layout(f, a, sign, z, body, b)
  BY DEF LaidOut
<1> DEFINE m == Len(sign)  n == Len(body)  first == a + 1  last == a + m + z + n
           digits == SubSeq(f, a + m + 1, last)
<1>1. m \in 0..1 /\ (m = 0 <=> sign = <<>>) /\ (m = 1 => sign = <<Minus>> /\ sign[1] = Minus)
  OBVIOUS
<1>2. body \in Seq(0..(radix - 1)) /\ n \in Nat /\ n >= 1 /\ Value(body, radix) = mag
  BY DEF Spells
<1>3. /\ f \in Seq(Int) /\ Len(f) = a + m + z + n + b
      /\ \A i \in 1..a : f[i] = Blank
      /\ \A i \in 1..m : f[a + i] = sign[i]
      /\ \A i \in 1..z : f[a + m + i] = 0
      /\ \A i \in 1..n : f[a + m + z + i] = body[i]
      /\ \A i \in 1..b : f[a + m + z + n + i] = Blank
  BY <1>0 DEF Layout, StandsAt
<1>4. \A i \in 1..n : body[i] \in 0..(radix - 1)
  BY <1>2
<1> HIDE DEF m, n
<1>5. last = a + m + z + n /\ last \in Nat /\ last <= Len(f) /\ last >= first /\ first \in 1..Len(f)
      /\ a + m + 1 \in Nat /\ last - (a + m + 1) + 1 = z + n
  BY <1>1, <1>2, <1>3
<1> HIDE DEF last
<1>6. /\ digits \in Seq(Int) /\ Len(digits) = z + n
      /\ \A i \in 1..(z + n) : digits[i] = f[a + m + i]
  <2>1. \A i \in (a + m + 1)..last : f[i] \in Int
    <3> SUFFICES ASSUME NEW i \in (a + m + 1)..last PROVE f[i] \in Int
      OBVIOUS
    <3>1. i \in 1..Len(f)
      BY <1>1, <1>5
    <3> QED BY <1>3, <3>1
  <2>2. a + m + 1 \in Int /\ last \in Int /\ a + m + 1 <= last
    BY <1>1, <1>2, <1>5
  <2> DEFINE k == a + m + 1
  <2>3. k \in Int /\ last \in Int /\ \A i \in k..last : f[i] \in Int
    BY <2>1, <2>2
  <2>4. k = a + m + 1 /\ k <= last
    BY <2>2
  <2> HIDE DEF k
  <2>5. /\ SubSeq(f, k, last) \in Seq(Int)
        /\ Len(SubSeq(f, k, last)) = IF k <= last THEN last - k + 1 ELSE 0
        /\ \A i \in 1..(last - k + 1) : SubSeq(f, k, last)[i] = f[k + i - 1]
    BY <2>3, SubSeqProperties
  <2>6. digits = SubSeq(f, k, last) /\ last - k + 1 = z + n
    BY <1>5, <2>4
  <2> HIDE DEF digits
  <2>7. ASSUME NEW i \in 1..(z + n) PROVE digits[i] = f[a + m + i]
    <3>1. k + i - 1 = a + m + i
      BY <1>1, <2>4
    <3> QED BY <2>5, <2>6, <3>1
  <2> QED BY <2>4, <2>5, <2>6, <2>7
<1> HIDE DEF digits
<1>7. \A i \in 1..z : digits[i] = 0
  <2> SUFFICES ASSUME NEW i \in 1..z PROVE digits[i] = 0
    OBVIOUS
  <2>1. i \in 1..(z + n)
    BY <1>2
  <2> QED BY <1>3, <1>6, <2>1
<1>8. \A i \in 1..n : digits[z + i] = body[i]
  <2> SUFFICES ASSUME NEW i \in 1..n PROVE digits[z + i] = body[i]
    OBVIOUS
  <2>1. z + i \in 1..(z + n) /\ a + m + (z + i) = a + m + z + i
    BY <1>1, <1>2
  <2>2. digits[z + i] = f[a + m + (z + i)]
    BY <1>6, <2>1
  <2>3. f[a + m + z + i] = body[i]
    BY <1>3
  <2> QED BY <2>1, <2>2, <2>3
<1>9. Value(digits, radix) = mag
  <2>1. body \in Seq(Int) /\ radix \in Nat /\ n = Len(body)
    BY <1>2 DEF n
  <2>2. Value(digits, radix) = Value(body, radix)
    BY <1>6, <1>7, <1>8, <2>1, ValuePadded
  <2> QED BY <1>2, <2>2
<1>10. digits # <<>> /\ \A i \in DOMAIN digits : digits[i] \in 0..(radix - 1)
  <2>1. ASSUME NEW i \in 1..(z + n) PROVE digits[i] \in 0..(radix - 1)
    <3>1. CASE i <= z
      <4>1. i \in 1..z /\ 0 \in 0..(radix - 1)
        BY <1>2, <3>1
      <4> QED BY <1>7, <4>1
    <3>2. CASE ~(i <= z)
      <4>1. i - z \in 1..n /\ z + (i - z) = i
        BY <1>2, <3>2
      <4>2. digits[i] = body[i - z]
        BY <1>8, <4>1
      <4> QED BY <1>4, <4>1, <4>2
    <3> QED BY <3>1, <3>2
  <2>2. Len(digits) # 0 /\ DOMAIN digits = 1..(z + n)
    BY <1>2, <1>6
  <2> QED BY <2>1, <2>2
<1>11. (f[first] = Minus <=> m = 1) /\ f[first] # Blank
  <2>1. CASE m = 1
    <3>1. 1 \in 1..m /\ a + 1 = first
      BY <2>1
    <3>2. f[first] = Minus
      BY <1>1, <1>3, <2>1, <3>1
    <3> QED BY <2>1, <3>2 DEF Minus, Blank
  <2>2. CASE m = 0
    <3>1. 1 \in 1..(z + n) /\ a + m + 1 = first
      BY <1>2, <2>2
    <3>2. f[first] = digits[1]
      BY <1>6, <3>1
    <3>3. DOMAIN digits = 1..(z + n)
      BY <1>2, <1>6
    <3>4. f[first] \in 0..(radix - 1)
      BY <1>10, <3>1, <3>2, <3>3
    <3>5. f[first] # Minus /\ f[first] # Blank
      BY <3>4 DEF Minus, Blank
    <3> QED BY <2>2, <3>5
  <2> QED BY <1>1, <2>1, <2>2
<1>12. digits = SubSeq(f, IF f[first] = Minus THEN first + 1 ELSE first, last)
  <2>1. CASE m = 1
    <3>1. a + m + 1 = first + 1 /\ f[first] = Minus
      BY <1>11, <2>1
    <3> QED BY <3>1 DEF digits
  <2>2. CASE m = 0
    <3>1. a + m + 1 = first /\ f[first] # Minus
      BY <1>11, <2>2
    <3> QED BY <3>1 DEF digits
  <2> QED BY <1>1, <2>1, <2>2
<1>13. \A i \in 1..(first - 1) : f[i] = Blank
  <2>1. first - 1 = a
    OBVIOUS
  <2> QED BY <1>3, <2>1
<1>14. \A i \in (last + 1)..Len(f) : f[i] = Blank
  <2> SUFFICES ASSUME NEW i \in (last + 1)..Len(f) PROVE f[i] = Blank
    OBVIOUS
  <2>1. i - last \in 1..b /\ a + m + z + n + (i - last) = i
    BY <1>1, <1>2, <1>3, <1>5
  <2> QED BY <1>3, <2>1
<1>15. /\ (IF f[first] = Minus THEN LongMod - mag ELSE mag) = arg % LongMod
       /\ f[first] = Minus => conv \in {"d", "i"} /\ mag <= LongMod \div 2
  BY <1>1, <1>11
<1>16. first \in DOMAIN f /\ last \in first..Len(f)
  BY <1>3, <1>5
<1> HIDE DEF first
<1>17. \E l \in first..Len(f) :
         LET signed == f[first] = Minus
             ds == SubSeq(f, IF signed THEN first + 1 ELSE first, l)
             value == Value(ds, radix)
         IN /\ \A i \in (l + 1)..Len(f) : f[i] = Blank
            /\ ds # <<>> /\ \A i \in DOMAIN ds : ds[i] \in 0..(radix - 1)
            /\ (IF signed THEN LongMod - value ELSE value) = arg % LongMod
            /\ signed => conv \in {"d", "i"} /\ value <= LongMod \div 2
  <2> USE <1>16
  <2> WITNESS last \in first..Len(f)
  <2> QED BY <1>9, <1>10, <1>12, <1>14, <1>15
<1> QED BY <1>11, <1>13, <1>16, <1>17, Zenon DEF Reads

(***************************************************************************)
(* The scanner.                                                            *)
(***************************************************************************)
NumberConversion == Hex \cup {"n", "o", "d", "i", "u"}
Character == NumberConversion \cup {"c", "s", "%", "-", "0", "1", "3", "F", "N", "z", "l", "L", "h", "?"}

LEMMA SmallMod ==
  ASSUME NEW a \in Nat, NEW M \in Nat, a < M
  PROVE  a % M = a
BY SMT

(* arg % LongMod, and its half.                                             *)
LEMMA LoadedIs ==
  ASSUME NEW arg \in Nat
  PROVE  Loaded(arg) \in Nat /\ Loaded(arg) < LongMod /\ LongMod \in Nat /\ Loaded(arg) = arg % LongMod
<1> DEFINE M == LongMod  r == arg % M
<1>1. M \in Nat /\ M >= 1
  BY PrintfAssumption
<1> HIDE DEF M
<1>2. r \in Int /\ 0 <= r /\ r < M
  BY <1>1, SMT
<1> QED BY <1>1, <1>2 DEF Loaded, M

LEMMA RadixIs ==
  ASSUME NEW conv \in NumberConversion
  PROVE  Radix(conv) \in {8, 10, 16}
BY DEF Radix, NumberConversion, Hex

LEMMA NumberIs ==
  ASSUME NEW conv \in NumberConversion, NEW arg \in Nat, givenWd \in Nat
  PROVE  /\ Filled(Number(conv, Loaded(arg)), IF conv \in Hex THEN PointerDigits ELSE givenWd, 0)
         /\ Reads(Number(conv, Loaded(arg)), conv, arg % LongMod, LongMod)
<1> DEFINE num == Loaded(arg)
           fs == IF conv \in Hex THEN flags \cup {"LZ"} ELSE flags
           wd == IF conv \in Hex THEN PointerDigits ELSE givenWd
           sign == IF Negative(conv, num) THEN <<Minus>> ELSE <<>>
           mag == Magnitude(conv, num)
           radix == Radix(conv)
           body == Digits(mag, radix)
           f == Number(conv, num)
<1>1. f = Emitted(fs, wd, sign, body, Len(body))
  BY DEF Number
<1>2. num \in Nat /\ num < LongMod /\ LongMod \in Nat /\ num = arg % LongMod
  BY LoadedIs
<1>3. radix \in {8, 10, 16}
  BY RadixIs
<1>4. /\ mag \in Nat
      /\ sign = <<>> => mag = num
      /\ sign = <<Minus>> => LongMod - mag = num /\ conv \in {"d", "i"} /\ mag <= LongMod \div 2
  <2>1. LongMod % 2 = 0 /\ LongMod = 2 * (LongMod \div 2) /\ LongMod \div 2 \in Int
    BY <1>2, PrintfAssumption
  <2>2. <<>> # <<Minus>>
    OBVIOUS
  <2> HIDE DEF num
  <2>3. CASE Negative(conv, num)
    <3>1. num >= LongMod \div 2 /\ conv \in {"d", "i"} /\ mag = LongMod - num /\ sign = <<Minus>>
      BY <2>3 DEF Negative, Magnitude
    <3> QED BY <1>2, <2>1, <2>2, <3>1
  <2>4. CASE ~Negative(conv, num)
    <3>1. mag = num /\ sign = <<>>
      BY <2>4 DEF Magnitude
    <3> QED BY <1>2, <2>2, <3>1
  <2> QED BY <2>3, <2>4
<1>5. wd \in Nat
  BY PrintfAssumption
<1>6. Minus \in Int /\ Minus # Blank /\ Minus # 0
  BY DEF Minus, Blank
<1>7. sign \in {<<>>, <<Minus>>} /\ sign \in Seq(Int)
  BY <1>6
<1> HIDE DEF num, fs, wd, sign, mag, radix, f
<1>8. Spells(body, mag, radix)
  BY <1>3, <1>4, DigitsSpell
<1> HIDE DEF body
<1>9. body \in Seq(0..(radix - 1)) /\ Len(body) >= 1 /\ (body[1] # 0 \/ body = << 0 >>)
  BY <1>8 DEF Spells
<1>10. body \in Seq(Int) /\ Len(body) \in Nat
  BY <1>3, <1>9
<1> DEFINE n == Len(body)
<1>11. n \in Nat /\ n = Len(body) /\ n >= Len(body) /\ n - Len(body) = 0
  BY <1>10
<1> HIDE DEF n
<1>12. LaidOut(f, sign, body, Larger(wd - n - Len(sign), 0))
  BY <1>1, <1>5, <1>7, <1>10, <1>11, EmittedIs
<1>13. Filled(f, wd, 0)
  <2>1. \A i \in 1..Len(body) : body[i] # Blank
    <3> SUFFICES ASSUME NEW i \in 1..Len(body) PROVE body[i] # Blank
      OBVIOUS
    <3>1. body[i] \in 0..(radix - 1)
      BY <1>9, ElementOfSeq
    <3> QED BY <1>3, <3>1 DEF Blank
  <2>2. (\A i \in 1..Len(sign) : sign[i] # Blank) /\ (Len(sign) >= 1 => sign[1] # 0)
    BY <1>6, <1>7
  <2>3. Filled(f, wd, n - Len(body))
    <3>1. Solid(body)
      BY <1>9, <2>1 DEF Solid
    <3>2. Solid(sign) /\ sign # << 0 >>
      BY <2>2 DEF Solid
    <3>3. sign \in Seq(Int) /\ body \in Seq(Int) /\ n \in Nat /\ wd \in Nat /\ n >= Len(body)
      BY <1>5, <1>7, <1>10, <1>11
    <3> QED BY <1>12, <3>1, <3>2, <3>3, LayoutFills
  <2> QED BY <1>11, <2>3
<1>14. Reads(f, conv, arg % LongMod, LongMod)
  <2>1. radix = Radix(conv)
    BY DEF radix
  <2> QED BY <1>2, <1>3, <1>4, <1>7, <1>8, <1>12, <2>1, LayoutReads
<1> QED BY <1>13, <1>14 DEF f, wd, num

(* The text of %c and %s.                                                   *)
LEMMA TextField ==
  ASSUME NEW conv \in {"c", "s"}, NEW n \in 0..2, conv = "c" => n <= 1, NEW fs, givenWd \in Nat,
         NEW f, f = Emitted(fs, givenWd, <<>>, Repeat(200, n), IF conv = "c" THEN 1 ELSE n)
  PROVE  Filled(f, givenWd, IF conv = "c" /\ n = 0 THEN 1 ELSE 0)
<1> DEFINE text == Repeat(200, n)  natural == IF conv = "c" THEN 1 ELSE n  e == <<>>
<1>1. text \in Seq(Int) /\ Len(text) = n /\ (\A i \in 1..n : text[i] = 200) /\ n \in Nat
  <2>1. 200 \in Int /\ n \in Nat
    OBVIOUS
  <2> QED BY <2>1, RepeatIs
<1>2. natural \in Nat /\ natural >= n /\ natural - n = IF conv = "c" /\ n = 0 THEN 1 ELSE 0
  <2>1. "s" # "c"
    OBVIOUS
  <2>2. CASE conv = "c"
    BY <2>2
  <2>3. CASE conv = "s"
    BY <2>1, <2>3
  <2> QED BY <2>2, <2>3
<1>3. e \in Seq(Int) /\ Len(e) = 0
  OBVIOUS
<1>4. f = Emitted(fs, givenWd, e, text, natural)
  OBVIOUS
<1> HIDE DEF text, natural, e
<1>5. text \in Seq(Int) /\ natural \in Nat /\ e \in Seq(Int) /\ givenWd \in Nat
  BY <1>1, <1>2, <1>3
<1>6. LaidOut(f, e, text, Larger(givenWd - natural - Len(e), 0))
  BY <1>4, <1>5, EmittedIs, Zenon
<1>7. (\A i \in 1..Len(e) : e[i] # Blank) /\ (Len(e) >= 1 => e[1] # 0)
  BY <1>3
<1>8. (\A i \in 1..Len(text) : text[i] # Blank) /\ (Len(text) >= 1 => text[1] # 0)
  BY <1>1 DEF Blank
<1>9. Filled(f, givenWd, natural - Len(text))
  <2>1. Solid(text)
    BY <1>8 DEF Solid
  <2>2. Solid(e) /\ e # << 0 >>
    BY <1>3, <1>7 DEF Solid
  <2>3. natural >= Len(text)
    BY <1>1, <1>2
  <2> QED BY <1>5, <1>6, <2>1, <2>2, <2>3, LayoutFills, Zenon
<1> QED BY <1>1, <1>2, <1>9

PrintfTyped ==
  scan \in 0..3 /\ givenWd \in Nat /\ inner \in BOOLEAN /\ directive \in Seq(Character)

(* Between directives nothing is left of the last one; inside, nothing has  *)
(* been emitted and given_wd is what the characters so far spell; the few   *)
(* directives after which fmt stands on a character not tested.             *)
ScanKnown ==
  /\ scan = 0 => flags = {} /\ givenWd = 0 /\ ~inner
  /\ scan > 0 => field = NoField /\ givenWd = Spelled(directive)
  /\ scan = 1 => /\ givenWd = 0
                 /\ \/ "LJ" \notin flags /\ directive = <<"%">>
                    \/ "LJ" \in flags /\ directive = <<"%", "-">>
  /\ inner => directive \in {<<"%">>, <<"%", "0">>, <<"%", "-", "0">>}

PrintfInv == PrintfTyped /\ ScanKnown /\ DirectivesExact

LEMMA NothingEmitted ==
  ASSUME field' = NoField, ~overrun'
  PROVE  DirectivesExact'
BY DEF DirectivesExact, FillsWidth, ReadsBack, NumberGiven, OverrunOnlyAfterAdvance

(* Between two directives.                                                  *)
LEMMA Between ==
  ASSUME scan' = 0, flags' = {}, givenWd' = 0, inner' = FALSE, directive' \in Seq(Character)
  PROVE  PrintfTyped' /\ ScanKnown'
<1>1. 0 \in 0..3 /\ 0 \in Nat /\ ~(0 > 0) /\ 0 # 1
  OBVIOUS
<1>2. PrintfTyped'
  BY <1>1, Zenon DEF PrintfTyped
<1>3. ScanKnown'
  <2>1. ~inner'
    BY Zenon
  <2>2. ~(scan' > 0) /\ scan' # 1
    BY <1>1
  <2> QED BY <2>1, <2>2, Zenon DEF ScanKnown
<1> QED BY <1>2, <1>3

(* The directives behind which fmt was advanced.                            *)
LEMMA Openings ==
  /\ <<"%">> \in Seq(Character) /\ <<"%", "-">> \in Seq(Character)
  /\ Append(<<"%">>, "0") = <<"%", "0">> /\ Append(<<"%">>, "-") = <<"%", "-">>
  /\ Append(<<"%", "-">>, "0") = <<"%", "-", "0">>
<1>1. "%" \in Character /\ "-" \in Character /\ "0" \in Character
  BY DEF Character
<1>2. /\ <<"%">> \in Seq(Character) /\ <<"%", "-">> \in Seq(Character)
      /\ <<"%", "0">> \in Seq(Character) /\ <<"%", "-", "0">> \in Seq(Character)
  BY <1>1
<1>3. ASSUME NEW s \in Seq(Character), NEW t \in Seq(Character), NEW ch \in Character,
             Len(t) = Len(s) + 1, t[Len(t)] = ch, \A i \in 1..Len(s) : t[i] = s[i]
      PROVE  Append(s, ch) = t
  <2>1. Append(s, ch) \in Seq(Character) /\ Len(Append(s, ch)) = Len(t)
    BY <1>3
  <2>2. \A i \in 1..Len(t) : Append(s, ch)[i] = t[i]
    BY <1>3
  <2> QED BY <2>1, <2>2, SeqEqual
<1>4. Len(<<"%">>) = 1 /\ <<"%">>[1] = "%" /\ Len(<<"%", "-">>) = 2 /\ <<"%", "-">>[1] = "%" /\ <<"%", "-">>[2] = "-"
  OBVIOUS
<1>5. Append(<<"%">>, "0") = <<"%", "0">>
  <2> DEFINE t == <<"%", "0">>
  <2>1. Len(t) = 2 /\ t[1] = "%" /\ t[2] = "0" /\ t \in Seq(Character)
    BY <1>2
  <2> HIDE DEF t
  <2>2. Append(<<"%">>, "0") = t
    BY <1>1, <1>2, <1>3, <1>4, <2>1
  <2> QED BY <2>2 DEF t
<1>6. Append(<<"%">>, "-") = <<"%", "-">>
  <2> DEFINE t == <<"%", "-">>
  <2>1. Len(t) = 2 /\ t[1] = "%" /\ t[2] = "-" /\ t \in Seq(Character)
    BY <1>2
  <2> HIDE DEF t
  <2>2. Append(<<"%">>, "-") = t
    BY <1>1, <1>2, <1>3, <1>4, <2>1
  <2> QED BY <2>2 DEF t
<1>7. Append(<<"%", "-">>, "0") = <<"%", "-", "0">>
  <2> DEFINE t == <<"%", "-", "0">>
  <2>1. Len(t) = 3 /\ t[1] = "%" /\ t[2] = "-" /\ t[3] = "0" /\ t \in Seq(Character)
    BY <1>2
  <2> HIDE DEF t
  <2>2. Append(<<"%", "-">>, "0") = t
    BY <1>1, <1>2, <1>3, <1>4, <2>1
  <2> QED BY <2>2 DEF t
<1> QED BY <1>2, <1>5, <1>6, <1>7

(* A character inside a directive.                                          *)
LEMMA GoesKeeps ==
  ASSUME PrintfInv, InDirective, NEW s \in 2..3, NEW fs, NEW wd, NEW advanced \in BOOLEAN,
         NEW ch \in Character, wd = Widened(givenWd, ch),
         Goes(s, fs, wd, advanced, ch), Keeps, scan = 1 \/ ~advanced, advanced => ch = "0"
  PROVE  PrintfInv'
<1>1. /\ scan > 0 /\ ~overrun /\ field = NoField /\ givenWd \in Nat /\ givenWd = Spelled(directive)
      /\ directive \in Seq(Character)
  BY DEF PrintfInv, InDirective, PrintfTyped, ScanKnown
<1>2. /\ scan' = s /\ givenWd' = wd /\ inner' = advanced /\ directive' = Append(directive, ch)
      /\ overrun' = overrun /\ field' = field
  BY DEF Goes, Keeps
<1>3. wd = Spelled(directive') /\ wd \in Nat /\ directive' \in Seq(Character)
  <2>1. Spelled(Append(directive, ch)) = Widened(Spelled(directive), ch)
    BY <1>1, SpelledAppend
  <2>2. wd \in Nat
    BY <1>1, WidenedIs
  <2> QED BY <1>1, <1>2, <2>1, <2>2
<1>4. advanced => directive' \in {<<"%">>, <<"%", "0">>, <<"%", "-", "0">>}
  <2> SUFFICES ASSUME advanced PROVE directive' \in {<<"%">>, <<"%", "0">>, <<"%", "-", "0">>}
    OBVIOUS
  <2>1. directive = <<"%">> \/ directive = <<"%", "-">>
    BY DEF PrintfInv, ScanKnown
  <2>2. ch = "0"
    OBVIOUS
  <2> QED BY <1>2, <2>1, <2>2, Openings, Zenon
<1>5. PrintfTyped'
  BY <1>2, <1>3 DEF PrintfTyped
<1>6. ScanKnown'
  <2>1. scan' # 0 /\ scan' # 1 /\ scan' > 0
    BY <1>2
  <2> QED BY <1>1, <1>2, <1>3, <1>4, <2>1 DEF ScanKnown
<1>7. DirectivesExact'
  BY <1>1, <1>2, NothingEmitted
<1> QED BY <1>5, <1>6, <1>7 DEF PrintfInv

(* The end of a directive that emits nothing more.                          *)
LEMMA EndsKeeps ==
  ASSUME PrintfInv, InDirective, NEW ch \in Character, EndsDirective(ch), Keeps
  PROVE  PrintfInv'
<1>1. scan > 0 /\ ~overrun /\ field = NoField /\ directive \in Seq(Character)
  BY DEF PrintfInv, InDirective, PrintfTyped, ScanKnown
<1>2. /\ scan' = 0 /\ flags' = {} /\ givenWd' = 0 /\ inner' = FALSE /\ directive' = Append(directive, ch)
      /\ overrun' = overrun /\ field' = field
  BY DEF Goes, Keeps, EndsDirective
<1>3. directive' \in Seq(Character)
  BY <1>1, <1>2
<1>4. PrintfTyped' /\ ScanKnown'
  BY <1>2, <1>3, Between
<1>5. DirectivesExact'
  BY <1>1, <1>2, NothingEmitted
<1> QED BY <1>4, <1>5 DEF PrintfInv

LEMMA FlagsKeep ==
  ASSUME PrintfInv, PercentPercent \/ LeftJustify \/ LeadingZero
  PROVE  PrintfInv'
<1>1. "%" \in Character /\ "-" \in Character /\ "0" \in Character
  BY DEF Character
<1>2. CASE PercentPercent
  BY <1>1, <1>2, EndsKeeps DEF PercentPercent
<1>3. CASE LeftJustify
  <2>1. CASE "LJ" \in flags /\ EndsDirective("-")
    BY <1>1, <1>3, <2>1, EndsKeeps DEF LeftJustify
  <2>2. CASE "LJ" \notin flags /\ Goes(1, flags \cup {"LJ"}, givenWd, FALSE, "-")
    <3>1. /\ scan = 1 /\ ~overrun /\ field = NoField /\ givenWd = 0 /\ directive = <<"%">>
          /\ directive \in Seq(Character) /\ givenWd = Spelled(directive)
      BY <1>3, <2>2 DEF PrintfInv, PrintfTyped, ScanKnown, LeftJustify, InDirective
    <3>2. /\ scan' = 1 /\ flags' = flags \cup {"LJ"} /\ givenWd' = givenWd /\ inner' = FALSE
          /\ directive' = Append(directive, "-") /\ overrun' = overrun /\ field' = field
      BY <1>3, <2>2 DEF LeftJustify, Goes, Keeps
    <3>3. directive' = <<"%", "-">> /\ directive' \in Seq(Character)
      BY <3>1, <3>2, Openings, Zenon
    <3>4. Spelled(directive') = 0
      <4>1. Spelled(Append(directive, "-")) = Widened(Spelled(directive), "-")
        BY <1>1, <3>1, SpelledAppend
      <4>2. "-" \notin DOMAIN Numeral
        BY DEF Numeral
      <4> QED BY <3>1, <3>2, <4>1, <4>2 DEF Widened
    <3>5. PrintfTyped'
      <4>1. 1 \in 0..3 /\ 0 \in Nat
        OBVIOUS
      <4> QED BY <3>1, <3>2, <3>3, <4>1, Zenon DEF PrintfTyped
    <3>6. ScanKnown'
      <4>1. "LJ" \in flags' /\ scan' # 0 /\ givenWd' = Spelled(directive') /\ givenWd' = 0
        BY <3>1, <3>2, <3>4
      <4>2. ~inner'
        BY <3>2, Zenon
      <4>3. field' = NoField
        BY <3>1, <3>2
      <4> QED BY <3>3, <4>1, <4>2, <4>3, Zenon DEF ScanKnown
    <3>7. DirectivesExact'
      BY <3>1, <3>2, NothingEmitted
    <3> QED BY <3>5, <3>6, <3>7 DEF PrintfInv
  <2> QED BY <1>3, <2>1, <2>2 DEF LeftJustify
<1>4. CASE LeadingZero
  <2>1. scan = 1 /\ InDirective /\ Goes(2, flags \cup {"LZ"}, givenWd, TRUE, "0") /\ Keeps
    BY <1>4 DEF LeadingZero
  <2>2. givenWd = Widened(givenWd, "0")
    <3>1. givenWd = 0
      BY <2>1 DEF PrintfInv, ScanKnown
    <3>2. "0" \in DOMAIN Numeral /\ Numeral["0"] = 0
      BY DEF Numeral
    <3> QED BY <3>1, <3>2 DEF Widened
  <2>3. 2 \in 2..3 /\ TRUE \in BOOLEAN
    OBVIOUS
  <2> QED BY <1>1, <2>1, <2>2, <2>3, GoesKeeps
<1> QED BY <1>2, <1>3, <1>4

LEMMA WidthKeeps ==
  ASSUME PrintfInv, NEW ch \in DOMAIN Numeral, Width(ch)
  PROVE  PrintfInv'
<1>1. ch \in Character
  BY DEF Numeral, Character
<1>2. InDirective /\ Goes(2, flags, 10 * givenWd + Numeral[ch], FALSE, ch) /\ Keeps
  BY DEF Width
<1>3. 10 * givenWd + Numeral[ch] = Widened(givenWd, ch) /\ 2 \in 2..3 /\ FALSE \in BOOLEAN
  BY DEF Widened
<1> QED BY <1>1, <1>2, <1>3, GoesKeeps

LEMMA ModifierKeeps ==
  ASSUME PrintfInv, NEW ch \in DOMAIN ModifierFlag, Modifier(ch)
  PROVE  PrintfInv'
<1>1. ch \in Character /\ ch \notin DOMAIN Numeral
  BY DEF Numeral, Character, ModifierFlag
<1>2. InDirective /\ Goes(3, flags \cup ModifierFlag[ch], givenWd, FALSE, ch) /\ Keeps
  BY DEF Modifier
<1>3. givenWd = Widened(givenWd, ch) /\ 3 \in 2..3 /\ FALSE \in BOOLEAN
  BY <1>1 DEF Widened
<1> QED BY <1>1, <1>2, <1>3, GoesKeeps

LEMMA UnknownKeeps ==
  ASSUME PrintfInv, NEW ch \in {"?", "%", "-", "0", "1", "3"}, Unknown(ch)
  PROVE  PrintfInv'
<1>1. ch \in Character
  BY DEF Character
<1>2. InDirective /\ EndsDirective(ch) /\ Keeps
  BY DEF Unknown
<1> QED BY <1>1, <1>2, EndsKeeps

(* A directive whose conversion puts out a field.                           *)
LEMMA FieldKeeps ==
  ASSUME PrintfInv, InDirective, NEW conv \in NumberConversion \cup {"c", "s"}, EndsDirective(conv),
         UNCHANGED overrun,
         Filled(field', IF conv \in Hex THEN PointerDigits ELSE givenWd,
                IF conv = "c" /\ argument' = 0 THEN 1 ELSE 0),
         conv \in {"c", "s"} \/ (argument' < LongMod => Reads(field', conv, argument', LongMod))
  PROVE  PrintfInv'
<1>1. /\ scan > 0 /\ ~overrun /\ directive \in Seq(Character) /\ givenWd = Spelled(directive)
      /\ conv \in Character /\ conv \notin DOMAIN Numeral
  BY DEF PrintfInv, InDirective, PrintfTyped, ScanKnown, Character, Numeral, NumberConversion, Hex
<1>2. /\ scan' = 0 /\ flags' = {} /\ givenWd' = 0 /\ inner' = FALSE /\ directive' = Append(directive, conv)
      /\ overrun' = overrun
  BY DEF Goes, EndsDirective
<1>3. directive' \in Seq(Character) /\ directive'[Len(directive')] = conv
  BY <1>1, <1>2
<1>4. Spelled(directive') = givenWd
  <2>1. Spelled(Append(directive, conv)) = Widened(Spelled(directive), conv)
    BY <1>1, SpelledAppend
  <2> QED BY <1>1, <1>2, <2>1 DEF Widened
<1>5. conversion' = conv
  BY <1>3 DEF conversion
<1>6. SpelledWidth' = IF conv \in Hex THEN PointerDigits ELSE givenWd
  BY <1>4, <1>5 DEF SpelledWidth
<1>7. PrintfTyped' /\ ScanKnown'
  BY <1>2, <1>3, Between
<1>8. FillsWidth'
  BY <1>5, <1>6 DEF FillsWidth, Filled
<1>9. ReadsBack'
  BY <1>5, Zenon DEF ReadsBack, Reads, NumberGiven, Representable
<1>10. OverrunOnlyAfterAdvance'
  BY <1>1, <1>2 DEF OverrunOnlyAfterAdvance
<1> QED BY <1>7, <1>8, <1>9, <1>10 DEF PrintfInv, DirectivesExact

LEMMA ConvertKeeps ==
  ASSUME PrintfInv, NEW conv \in NumberConversion, NEW arg \in Arg, Convert(conv, arg)
  PROVE  PrintfInv'
<1>1. arg \in Nat /\ givenWd \in Nat
  BY PrintfAssumption DEF PrintfInv, PrintfTyped
<1>2. /\ InDirective /\ field' = Number(conv, Loaded(arg)) /\ argument' = arg /\ EndsDirective(conv)
      /\ UNCHANGED overrun
  BY DEF Convert
<1>3. conv # "c"
  BY DEF NumberConversion, Hex
<1>4. /\ Filled(field', IF conv \in Hex THEN PointerDigits ELSE givenWd, 0)
      /\ Reads(field', conv, argument' % LongMod, LongMod)
  BY <1>1, <1>2, NumberIs
<1>6. argument' < LongMod => argument' % LongMod = argument'
  BY <1>1, <1>2, SmallMod, PrintfAssumption
<1>7. argument' < LongMod => Reads(field', conv, argument', LongMod)
  BY <1>4, <1>6, Zenon
<1>5. Filled(field', IF conv \in Hex THEN PointerDigits ELSE givenWd,
             IF conv = "c" /\ argument' = 0 THEN 1 ELSE 0)
  BY <1>3, <1>4
<1> QED BY <1>2, <1>5, <1>7, FieldKeeps

LEMMA ConvertTextKeeps ==
  ASSUME PrintfInv, NEW conv \in {"c", "s"}, NEW n \in 0..2, ConvertText(conv, Repeat(200, n))
  PROVE  PrintfInv'
<1>1. givenWd \in Nat /\ n \in Nat /\ 200 \in Int
  BY DEF PrintfInv, PrintfTyped
<1>2. Len(Repeat(200, n)) = n
  BY <1>1, RepeatIs
<1>3. /\ InDirective /\ (conv = "c" => n <= 1)
      /\ field' = Emitted(flags \ {"LZ"}, givenWd, <<>>, Repeat(200, n), IF conv = "c" THEN 1 ELSE n)
      /\ argument' = n /\ EndsDirective(conv) /\ UNCHANGED overrun
  BY <1>2 DEF ConvertText
<1>4. Filled(field', givenWd, IF conv = "c" /\ argument' = 0 THEN 1 ELSE 0)
  BY <1>1, <1>3, TextField
<1>5. conv \notin Hex
  BY DEF Hex
<1> QED BY <1>3, <1>4, <1>5, FieldKeeps

(* Text and ends of formats.                                                *)
LEMMA OutsideKeeps ==
  ASSUME PrintfInv, Echo \/ Percent \/ End
  PROVE  PrintfInv'
<1>1. scan \in 0..3 /\ givenWd \in Nat /\ directive \in Seq(Character)
  BY DEF PrintfInv, PrintfTyped
<1>2. CASE Echo
  <2>1. /\ scan = 0 /\ ~overrun /\ directive' = <<>> /\ field' = NoField /\ scan' = scan
        /\ flags' = flags /\ givenWd' = givenWd /\ inner' = inner /\ overrun' = overrun
    BY <1>2 DEF Echo
  <2>2. <<>> \in Seq(Character)
    OBVIOUS
  <2>3. flags = {} /\ givenWd = 0 /\ ~inner /\ inner \in BOOLEAN
    BY <2>1 DEF PrintfInv, ScanKnown, PrintfTyped
  <2>4. PrintfTyped' /\ ScanKnown'
    BY <1>1, <2>1, <2>2, <2>3 DEF PrintfTyped, ScanKnown
  <2>5. DirectivesExact'
    BY <2>1, NothingEmitted
  <2> QED BY <2>4, <2>5 DEF PrintfInv
<1>3. CASE Percent
  <2>1. /\ scan = 0 /\ ~overrun /\ directive' = <<"%">> /\ field' = NoField /\ scan' = 1
        /\ flags' = flags /\ givenWd' = givenWd /\ inner' = TRUE /\ overrun' = overrun
    BY <1>3 DEF Percent
  <2>2. "%" \in Character
    BY DEF Character
  <2>3. <<"%">> \in Seq(Character)
    BY <2>2
  <2>4. flags = {} /\ givenWd = 0
    BY <2>1 DEF PrintfInv, ScanKnown
  <2>5. PrintfTyped' /\ ScanKnown'
    BY <1>1, <2>1, <2>3, <2>4, SpelledNothing DEF PrintfTyped, ScanKnown
  <2>6. DirectivesExact'
    BY <2>1, NothingEmitted
  <2> QED BY <2>5, <2>6 DEF PrintfInv
<1>4. CASE End
  <2>1. /\ ~overrun /\ overrun' = inner /\ scan' = 0 /\ flags' = {} /\ givenWd' = 0 /\ inner' = FALSE
        /\ field' = NoField /\ directive' = directive
    BY <1>4 DEF End
  <2>2. PrintfTyped' /\ ScanKnown'
    BY <1>1, <2>1, Between
  <2>3. FillsWidth' /\ ReadsBack'
    BY <2>1 DEF FillsWidth, ReadsBack, NumberGiven
  <2>4. OverrunOnlyAfterAdvance'
    BY <2>1 DEF PrintfInv, ScanKnown, OverrunOnlyAfterAdvance
  <2> QED BY <2>2, <2>3, <2>4 DEF PrintfInv, DirectivesExact
<1> QED BY <1>2, <1>3, <1>4

(* printf_helper on every format: each conversion fills its width and reads   *)
(* back as its argument, when a long and the modifier can hold it, and only   *)
(* a format that ends behind % or the zero flag is read past its end.         *)
THEOREM DirectivesAlwaysExact == PrintfSpec => []DirectivesExact
<1>1. PrintfInit => PrintfInv
  <2> SUFFICES ASSUME PrintfInit PROVE PrintfInv
    OBVIOUS
  <2>1. /\ scan = 0 /\ flags = {} /\ givenWd = 0 /\ inner = FALSE /\ overrun = FALSE
        /\ directive = <<>> /\ field = NoField
    BY DEF PrintfInit
  <2>2. PrintfTyped /\ ScanKnown
    <3>1. 0 \in 0..3 /\ 0 \in Nat /\ ~(0 > 0) /\ 0 # 1 /\ <<>> \in Seq(Character)
      OBVIOUS
    <3>2. PrintfTyped
      BY <2>1, <3>1, Zenon DEF PrintfTyped
    <3>3. ~inner
      BY <2>1, Zenon
    <3>4. ~(scan > 0) /\ scan # 1
      BY <2>1
    <3>5. ScanKnown
      BY <2>1, <3>3, <3>4, Zenon DEF ScanKnown
    <3> QED BY <3>2, <3>5
  <2>3. DirectivesExact
    BY <2>1 DEF DirectivesExact, FillsWidth, ReadsBack, NumberGiven, OverrunOnlyAfterAdvance
  <2> QED BY <2>2, <2>3 DEF PrintfInv
<1>2. PrintfInv /\ [PrintfNext]_printfVars => PrintfInv'
  <2> SUFFICES ASSUME PrintfInv, [PrintfNext]_printfVars PROVE PrintfInv'
    OBVIOUS
  <2>1. CASE UNCHANGED printfVars
    <3>1. /\ scan' = scan /\ flags' = flags /\ givenWd' = givenWd /\ inner' = inner /\ overrun' = overrun
          /\ directive' = directive /\ argument' = argument /\ field' = field
      BY <2>1 DEF printfVars
    <3>2. PrintfTyped' /\ ScanKnown'
      BY <3>1 DEF PrintfInv, PrintfTyped, ScanKnown
    <3>3. FillsWidth'
      BY <3>1, Zenon DEF PrintfInv, DirectivesExact, FillsWidth, SpelledWidth, conversion
    <3>4. ReadsBack'
      BY <3>1, Zenon DEF PrintfInv, DirectivesExact, ReadsBack, NumberGiven, Representable, Given,
                         Signed, conversion
    <3>5. OverrunOnlyAfterAdvance'
      BY <3>1 DEF PrintfInv, DirectivesExact, OverrunOnlyAfterAdvance
    <3> QED BY <3>2, <3>3, <3>4, <3>5 DEF PrintfInv, DirectivesExact
  <2>2. ASSUME NEW conv \in Hex \cup {"n", "o", "d", "i", "u"}, NEW arg \in Arg, Convert(conv, arg)
        PROVE  PrintfInv'
    <3>1. conv \in NumberConversion
      BY DEF NumberConversion
    <3> QED BY <2>2, <3>1, ConvertKeeps
  <2>3. CASE PrintfNext
    BY <2>2, <2>3, FlagsKeep, WidthKeeps, ModifierKeeps, UnknownKeeps, ConvertTextKeeps, OutsideKeeps
       DEF PrintfNext
  <2> QED BY <2>1, <2>3
<1>3. PrintfInv => DirectivesExact
  BY DEF PrintfInv
<1> QED BY <1>1, <1>2, <1>3, PTL DEF PrintfSpec
=============================================================================
