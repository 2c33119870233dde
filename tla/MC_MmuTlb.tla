--------------------------------- MODULE MC_MmuTlb ---------------------------------
(* MmuTlb instantiated for TLC: two CPUs and one page.  The refinement    *)
(* property is checked on the product of every TLB, IF flag and CPU state *)
(* with the walk; one page keeps that within minutes, and the pages are   *)
(* independent of each other in every action but the CR3 reload.          *)
EXTENDS MmuTlb, TLC

CONSTANTS c1, c2

MC_CPUs == {c1, c2}

\* 0x0000_7FFF_FFFF_F000, the top user page.
MC_VAddrs == {12..46}

\* Nothing, present, present-writable, present-writable-user, and bit 3
\* alone (a flag the host translator ignores).
MC_Requests == {{}, {0}, {0, 1}, {0, 1, 2}, {3}}

\* The two CPUs are interchangeable.
Symmetry == Permutations(MC_CPUs)
================================================================================
