------------------------------- MODULE MCBoot -------------------------------
(* Boot with memory maps of up to three entries: with gaps, sharing a page   *)
(* table, across the end of the address space and behind it.                *)
EXTENDS Boot

MapEntries ==
  [base : {0, 2, 6, 23, 25}, length : {1, 2}, type : {"usable", "bootloader", "reserved"}]

MCMemoryMaps ==
  UNION {{m \in [1..n -> MapEntries] :
            \A i \in 1..(n - 1) : m[i].base + m[i].length <= m[i + 1].base} : n \in 1..3}
=============================================================================
