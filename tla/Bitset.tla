------------------------------- MODULE Bitset -------------------------------
(***************************************************************************)
(* Kernel/Library/Bitset.hpp.  A bitset is the set of the positions whose  *)
(* bit is set; the words only matter where an operation depends on their   *)
(* width.  m_count, which nothing in the kernel reads, is left out.        *)
(***************************************************************************)
EXTENDS Integers

CONSTANTS
  WordBits,  \* TypeSize(): the bits of a size_t
  NPOS       \* Bitset::npos

ASSUME WordAssumption == WordBits \in Nat \ {0}

Set(bits, pos) == bits \cup {pos}
Clear(bits, pos) == bits \ {pos}
Test(bits, pos) == pos \in bits

First(found) == IF found = {} THEN NPOS ELSE CHOOSE i \in found : \A j \in found : i <= j

FindFirstBit(bits, size, isSet) == First({i \in 0..(size - 1) : Test(bits, i) = isSet})

(* The bits of mask = (1 << count) - 1.  The shift instruction of the i686  *)
(* takes its count modulo the word size.                                    *)
MaskBits(count) == count % WordBits

(* check & mask, for the window that starts at position i, spread over two  *)
(* words: the offsets of its set bits.                                      *)
Masked(bits, i, count) == {k \in 0..(MaskBits(count) - 1) : Test(bits, i + k)}

(* (check & mask) == isSet compares a number with 0 or 1.                   *)
WindowMatches(bits, i, count, isSet) == Masked(bits, i, count) = IF isSet THEN {0} ELSE {}

(* Fault: a mask that is one bit too short.                                 *)
RangeMaskShort(bits, size, count, isSet) ==
  First({i \in 0..(size - count - 1) : WindowMatches(bits, i, count - 1, isSet)})
(* The last position, size - count, is not tried.                           *)
FindFirstRange(bits, size, count, isSet) ==
  First({i \in 0..(size - count - 1) : WindowMatches(bits, i, count, isSet)})
=============================================================================
