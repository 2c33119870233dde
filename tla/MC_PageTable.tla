------------------------------ MODULE MC_PageTable ------------------------------
(* PageTable instantiated for TLC: a few addresses and all portable flags. *)
EXTENDS PageTable

\* 0x0000_7FFF_FFFF_F000, the top user page: canonical, accepted.
VUserTop == 12..46
\* 0xFFFF_FFFF_8000_0000, the kernel base: canonical, accepted.
VKernel == 31..63
\* 0x0001_0000_0000_0000: bit 48 alone, rejected by the check.
VBit48 == {48}
\* 0x0000_8000_0000_0000: bit 47 with bits 63..48 clear, not canonical.
VBit47 == {47}

\* Every combination of PRESENT, WRITE, USER/EXECUTE, and a word with only
\* bit 3 (0x8), which no translator function reads.
MC_Requests == SUBSET {0, 1, 2} \cup {{3}}

MC_VAddrs == {VUserTop, VKernel, VBit48}
MC_VAddrsHole == {VBit47}
=============================================================================
