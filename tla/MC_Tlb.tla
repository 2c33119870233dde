--------------------------------- MODULE MC_Tlb ---------------------------------
(***************************************************************************)
(* Instances of Tlb for TLC: two CPUs, two pages, PTEs that are absent,   *)
(* read-only, writable, and a global kernel mapping.                      *)
(***************************************************************************)
EXTENDS Tlb, TLC

CONSTANTS c1, c2, p1, p2

MC_CPUs == {c1, c2}
MC_VAddrs == {p1, p2}

\* CPUs and pages are interchangeable: no action tells one from another.
Symmetry == Permutations(MC_CPUs) \cup Permutations(MC_VAddrs)

\* {}, P, P|RW and P|RW|G (0x103).
MC_GlobalPtes == {{}, {0}, {0, 1}, {0, 1, 8}}
================================================================================
