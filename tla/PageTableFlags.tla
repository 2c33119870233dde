---------------------------- MODULE PageTableFlags ----------------------------
(***************************************************************************)
(* The page-table flag translator of sys_x86.c (lines 463-559) and the     *)
(* address predicates it delegates to (lines 107-118): pure functions from *)
(* portable MMU flags (a uint32_t, bit 0 PRESENT, bit 1 WRITE, bit 2 USER  *)
(* for the host MMU and EXECUTE for EPT) to architectural entry flags and  *)
(* back.  The level argument is accepted and ignored by every function    *)
(* but supports_page_size, as in the source.                               *)
(***************************************************************************)
EXTENDS X86Word

(* ---------------- address predicates ---------------- *)

\* bits [63:48] all 0 or all 1: high_bits == 0 || high_bits == 0xFFFF.
IsVaddrCanonical(vaddr) ==
    LET high_bits == ShiftRight(vaddr, 48)
    IN  high_bits = {} \/ high_bits = 0..15

\* paddr < (1ULL << 52): no bit at or above 52.
MmuCheckPaddr(paddr) == paddr \cap 52..63 = {}

(* ---------------- host MMU translator ---------------- *)

\* Mutant: write granted on (flags & 0x3), PRESENT alone enough for RW.
MmuTerminalFlagsWideWrite(level, flags) ==
    SetIf(Test(flags, {0}), X86_MMU_PG_P)
      \cup SetIf(Test(flags, {0, 1}), X86_MMU_PG_RW)
      \cup SetIf(Test(flags, {2}), X86_MMU_PG_U)

\* Mutant: kernel mappings (USER not asked) made global, as many kernels do.
MmuTerminalFlagsGlobalKernel(level, flags) ==
    SetIf(Test(flags, {0}), X86_MMU_PG_P)
      \cup SetIf(Test(flags, {1}), X86_MMU_PG_RW)
      \cup SetIf(Test(flags, {2}), X86_MMU_PG_U)
      \cup SetIf(Test(flags, {0}) /\ ~Test(flags, {2}), X86_MMU_PG_G)

MmuTerminalFlags(level, flags) ==
    SetIf(Test(flags, {0}), X86_MMU_PG_P)
      \cup SetIf(Test(flags, {1}), X86_MMU_PG_RW)
      \cup SetIf(Test(flags, {2}), X86_MMU_PG_U)

MmuIntermediateFlags == X86_MMU_PG_RW \cup X86_MMU_PG_P

MmuSupportsPageSize(level) == level \in {1, 2}

MmuSplitFlags(level, flags) == flags \ X86_MMU_PG_PS

MmuPtFlagsToMmuFlags(flags, level) ==
    SetIf(Test(flags, X86_MMU_PG_P), {0})
      \cup SetIf(Test(flags, X86_MMU_PG_RW), {1})
      \cup SetIf(Test(flags, X86_MMU_PG_U), {2})

(* ---------------- EPT translator ---------------- *)

EptAllowedFlags(flags) == TRUE

EptCheckPaddr(paddr) == MmuCheckPaddr(paddr)

EptCheckVaddr(vaddr) == IsVaddrCanonical(vaddr)

EptSupportsPageSize(level) == MmuSupportsPageSize(level)

EptIntermediateFlags == {0, 1, 2}                     \* 0x7, R | W | X

\* Base R | W (0x3); "execute" ORs in 0x1, which is R again.
EptTerminalFlags(level, flags) == {0, 1} \cup SetIf(Test(flags, {2}), {0})

\* Mutant: the host's PS clearing copied into the EPT split.
EptSplitFlagsClearPs(level, flags) == flags \ X86_MMU_PG_PS

EptSplitFlags(level, flags) == flags

EptPtFlagsToMmuFlags(flags, level) ==
    SetIf(Test(flags, {0}), {0})
      \cup SetIf(Test(flags, {1}), {1})
      \cup SetIf(Test(flags, {2}), {2})
=============================================================================
