------------------------------ MODULE Strings ------------------------------
(***************************************************************************)
(* Library/string.cpp on a small memory: mem[a] is the byte at address a,  *)
(* 0 the terminator.  Each action is one call with some arguments, started *)
(* from a memory in which its strings are terminated and the bytes it       *)
(* writes exist; before is the memory it found.                            *)
(***************************************************************************)
EXTENDS Integers, Sequences

SX == INSTANCE SequencesExt

CONSTANTS
  Cells,  \* number of bytes of memory
  Char    \* characters other than the terminator, numbers

(* Characters of seven bits: char is signed, and unsigned in memcmp.         *)
ASSUME StringsAssumption == Cells \in Nat \ {0} /\ Char \subseteq 1..127

VARIABLES
  mem, before,  \* memory now and when the last call began
  call          \* the last call: function, arguments, result

stringVars == <<mem, before, call>>

Address == 0..(Cells - 1)
Memory == [Address -> Char \cup {0}]

Called(fn, p, q, n, result) ==
  call' = [fn |-> fn, p |-> p, q |-> q, n |-> n, result |-> result]

StringsInit ==
  /\ mem = [a \in Address |-> 0] /\ before = mem
  /\ call = [fn |-> "none", p |-> 0, q |-> 0, n |-> 0, result |-> 0]

(* Whatever the program had stored before the call.                         *)
Found == before' \in Memory

Terminated(m, p) == \E a \in Address : a >= p /\ m[a] = 0
strlen(m, p) ==
  (CHOOSE a \in Address : a >= p /\ m[a] = 0 /\ \A b \in p..(a - 1) : m[b] # 0) - p
Text(m, p) == SubSeq([i \in 1..Cells |-> m[i - 1]], p + 1, p + strlen(m, p))

(* The assignments m[d + i] = m[s + i] for the indices i of order, in turn. *)
Assign(m, d, s, order) ==
  LET done[k \in 0..Len(order)] ==
        IF k = 0 THEN m
        ELSE [done[k - 1] EXCEPT ![d + order[k]] = done[k - 1][s + order[k]]]
  IN done[Len(order)]
Upward(n) == [i \in 1..n |-> i - 1]
Downward(n) == [i \in 1..n |-> n - i]

memcpy(m, d, s, n) == Assign(m, d, s, Upward(n))

(* Fault: memmove copies upward whatever the order of the pointers.         *)
MoveUpward(m, d, s, n) == Assign(m, d, s, Upward(n))
memmove(m, d, s, n) == Assign(m, d, s, IF d < s THEN Upward(n) ELSE Downward(n))

(* strcpy, and strncpy with its limit; both store a terminator behind.      *)
CopyString(m, d, s, n) == [memcpy(m, d, s, n) EXCEPT ![d + n] = 0]
Least(a, b) == IF a < b THEN a ELSE b

(* Index of the first difference, or of the terminator of the first string. *)
FirstDifference(m, p, q) ==
  CHOOSE i \in 0..strlen(m, p) :
    /\ m[p + i] # m[q + i] \/ m[p + i] = 0
    /\ \A j \in 0..(i - 1) : m[p + j] = m[q + j] /\ m[p + j] # 0
strcmp(m, p, q) == LET i == FirstDifference(m, p, q) IN m[p + i] - m[q + i]

NULLAddress == -1
strstr(m, h, n) ==
  LET hits == {a \in h..(h + strlen(m, h) - 1) : m[a] = m[n] /\ strcmp(m, a, n) = 0}
  IN IF hits = {} THEN NULLAddress ELSE CHOOSE a \in hits : \A b \in hits : a <= b

memcmp(m, p, q, n) ==
  LET diffs == {i \in 0..(n - 1) : m[p + i] # m[q + i]}
      i == CHOOSE j \in diffs : \A k \in diffs : j <= k
  IN IF diffs = {} THEN 0 ELSE IF m[p + i] < m[q + i] THEN -i ELSE i

(* for (i, j; i < j; i++, j--) swap                                         *)
SwapEnds(m, p) ==
  LET j == strlen(m, p) - 1
      swapped[i \in 0..((j + 1) \div 2)] ==   \* before i and j - i are exchanged
        IF i = 0 THEN m
        ELSE LET old == swapped[i - 1]  a == p + (i - 1)  b == p + j - (i - 1)
             IN [old EXCEPT ![a] = old[b], ![b] = old[a]]
  IN swapped[(j + 1) \div 2]

-----------------------------------------------------------------------------
Fits(p, n) == p + n <= Cells

Memmove(d, s, n) ==
  /\ Found /\ Fits(d, n) /\ Fits(s, n)
  /\ mem' = memmove(before', d, s, n)
  /\ Called("memmove", d, s, n, d)

Strcpy(d, s) ==
  /\ Found /\ Terminated(before', s)
  /\ LET n == strlen(before', s)
     IN /\ Fits(d, n + 1) /\ (d + n < s \/ s + n < d)
        /\ mem' = CopyString(before', d, s, n)
  /\ Called("strcpy", d, s, Cells, 0)

Copied(len, n) == Least(len, n)

Strncpy(d, s, len) ==
  /\ Found /\ Terminated(before', s)
  /\ LET n == Copied(len, strlen(before', s))
     IN /\ Fits(d, n + 1) /\ (d + n < s \/ s + n < d) /\ Fits(s, n)
        /\ mem' = CopyString(before', d, s, n)
  /\ Called("strcpy", d, s, len, 0)

Strcat(d, s) ==
  /\ Found /\ Terminated(before', s) /\ Terminated(before', d)
  /\ LET n == strlen(before', s)  e == d + strlen(before', d)
     IN /\ Fits(e, n + 1) /\ (e + n < s \/ s + n < d)
        /\ mem' = memcpy(before', e, s, n + 1)
  /\ Called("strcat", d, s, 0, d)

Compare(p, q, n) ==
  /\ Found /\ UNCHANGED mem
  /\ \/ /\ Terminated(before', p) /\ Terminated(before', q)
        /\ \/ Called("strcmp", p, q, 0, strcmp(before', p, q))
           \/ Called("strstr", p, q, 0, strstr(before', p, q))
     \/ /\ Fits(p, n) /\ Fits(q, n)
        /\ Called("memcmp", p, q, n, memcmp(before', p, q, n))

Reverse(p) ==
  /\ Found /\ Terminated(before', p)
  /\ mem' = SwapEnds(before', p)
  /\ Called("reverse", p, p, 0, 0)

StringsNext ==
  /\ call.fn = "none"
  /\ \E p, q \in Address :
       \/ \E n \in 0..Cells : Memmove(p, q, n) \/ Strncpy(p, q, n) \/ Compare(p, q, n)
       \/ Strcpy(p, q) \/ Strcat(p, q) \/ Reverse(p)

StringsSpec == StringsInit /\ [][StringsNext]_stringVars

(***************************************************************************)
(* Properties.                                                             *)
(***************************************************************************)
(* Nothing outside addresses lo..hi changed.                                *)
OnlyWrites(lo, hi) == \A a \in Address : a \notin lo..hi => mem[a] = before[a]

(* memmove copies the bytes that were there, however the regions overlap.   *)
MemmoveExact ==
  call.fn = "memmove" =>
    /\ \A i \in 0..(call.n - 1) : mem[call.p + i] = before[call.q + i]
    /\ OnlyWrites(call.p, call.p + call.n - 1)

(* strcpy, strncpy and strcat leave a terminated string with the text they   *)
(* promise and write no byte behind its terminator; strncpy never copies     *)
(* more than its limit.                                                     *)
CopiesExact ==
  /\ call.fn = "strcpy" =>
       LET t == Text(before, call.q)  n == Least(call.n, Len(t))
       IN /\ Terminated(mem, call.p) /\ Text(mem, call.p) = SubSeq(t, 1, n)
          /\ OnlyWrites(call.p, call.p + n)
  /\ call.fn = "strcat" =>
       /\ Terminated(mem, call.p)
       /\ Text(mem, call.p) = Text(before, call.p) \o Text(before, call.q)
       /\ OnlyWrites(call.p, call.p + Len(Text(mem, call.p)))

Before(s, t) ==
  \/ SX!IsStrictPrefix(s, t)
  \/ \E i \in 1..Least(Len(s), Len(t)) :
       s[i] < t[i] /\ \A j \in 1..(i - 1) : s[j] = t[j]

(* The text of a occurs in a string: where it begins.                       *)
Occurrences(m, h, n) ==
  {a \in h..(h + strlen(m, h) - 1) : SX!IsPrefix(Text(m, n), Text(m, a))}

(* The first of n bytes at p and q in which they differ.                     *)
FirstDiffers(m, p, q, i) == m[p + i] # m[q + i] /\ \A j \in 0..(i - 1) : m[p + j] = m[q + j]
Less(m, p, q, n) == \E i \in 0..(n - 1) : FirstDiffers(m, p, q, i) /\ m[p + i] < m[q + i]

(* strcmp is the lexicographic order.  What strstr and memcmp answer is      *)
(* right when they answer: strstr points at an occurrence of the needle, and *)
(* never misses one that ends the haystack; a memcmp other than 0 has the    *)
(* sign of the first difference.  That they answer at all is StrstrFinds'    *)
(* and MemcmpOrders'.                                                       *)
ComparisonsExact ==
  LET s == Text(before, call.p)  t == Text(before, call.q)
  IN /\ call.fn = "strcmp" => /\ (call.result = 0) = (s = t)
                              /\ (call.result < 0) = Before(s, t)
     /\ call.fn = "strstr" =>
          /\ call.result # NULLAddress => call.result \in Occurrences(before, call.p, call.q)
          /\ t # <<>> /\ SX!IsSuffix(t, s) => call.result # NULLAddress
     /\ call.fn = "memcmp" =>
          /\ call.result < 0 => Less(before, call.p, call.q, call.n)
          /\ call.result > 0 => Less(before, call.q, call.p, call.n)

(* "Locates a substring (needle) within a containing string (haystack)": a   *)
(* needle that occurs is found.  The code compares it with the whole rest of *)
(* the haystack, so an option is found in last place of a command line only. *)
StrstrFinds ==
  (call.fn = "strstr" /\ Text(before, call.q) # <<>>
     /\ Occurrences(before, call.p, call.q) # {}) => call.result # NULLAddress

(* "Returns 0 if identical. If negative, pointer A is less than than pointer *)
(* B and vice versa for positive": the sign is the order.  The code returns  *)
(* the index of the first difference, which is 0 for the first byte.         *)
MemcmpOrders ==
  call.fn = "memcmp" =>
    /\ (call.result < 0) = Less(before, call.p, call.q, call.n)
    /\ (call.result > 0) = Less(before, call.q, call.p, call.n)

(* reverse turns the text around in place, odd and even lengths alike.      *)
ReverseExact ==
  call.fn = "reverse" =>
    /\ Text(mem, call.p) = SX!Reverse(Text(before, call.p))
    /\ OnlyWrites(call.p, call.p + strlen(before, call.p) - 1)

(* Every string function against its reference, on any contents and overlap *)
(* of its arguments; of strstr and memcmp the part that holds.              *)
StringsExact == MemmoveExact /\ CopiesExact /\ ComparisonsExact /\ ReverseExact
=============================================================================
