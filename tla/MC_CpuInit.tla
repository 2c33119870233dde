------------------------------- MODULE MC_CpuInit -------------------------------
(* CpuInit instantiated for TLC: two CPUs and the firmware states below. *)
EXTENDS CpuInit

\* Kernel entry with paging on (CR0 PE|PG, CR4 PAE) and XCR0 at its reset
\* value (x87 only), or after a loader that already turned XSAVE and AVX on.
MC_BootRegs ==
    { [cr0 |-> {0, 31}, cr4 |-> {5},         xcr0 |-> {0}],
      [cr0 |-> {0, 31}, cr4 |-> {5, 9, 18},  xcr0 |-> {0, 1, 2}] }

\* The power-on PAT, 0x0007040600070406.
MC_BootPat == {{1, 2, 10, 16, 17, 18, 33, 34, 42, 48, 49, 50}}

\* MTRR default type: E|FE with uncached default (0xC00), or MTRRs off (0).
MC_BootMtrrDef == {{10, 11}, {}}

MC_XsaveSome == {0}
MC_XsaveAll == {0, 1}
MC_XsaveNone == {}
=============================================================================
