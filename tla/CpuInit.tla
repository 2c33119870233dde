-------------------------------- MODULE CpuInit --------------------------------
(***************************************************************************)
(* Per-CPU architectural state set up by sys_x86.c: the PAT and MTRR       *)
(* default-type MSRs, CR0.WP, CR4.OSFXSR/OSXSAVE and the XSAVE area size,  *)
(* on several CPUs that each run the init routines in any order (the      *)
(* order is the caller's, outside this file).  Each routine is one action *)
(* on the CPU that runs it: the registers are per-CPU, so nothing of       *)
(* another CPU can interleave with it.  A privileged instruction the CPU  *)
(* refuses raises an exception and the CPU stops there.                   *)
(***************************************************************************)
EXTENDS X86Word, Integers

CONSTANTS
    NCpus,          \* number of CPUs; CPU i is bit i of a targets mask
    XsaveCpus,      \* CPUs whose CPUID.1:ECX has XSAVE (bit 26)
    BootRegs,       \* register files [cr0, cr4, xcr0] a CPU enters the kernel with
    BootPat,        \* PAT values the firmware leaves (same on every CPU)
    BootMtrrDef     \* MTRR default-type values the firmware leaves

CPUs == 0..(NCpus - 1)

ASSUME NCpusAssumption == NCpus \in Nat \ {0}
ASSUME XsaveCpusAssumption == XsaveCpus \subseteq CPUs
ASSUME BootAssumption ==
    /\ BootRegs \subseteq [cr0 : Word, cr4 : Word, xcr0 : Word]
    /\ BootRegs # {}
    /\ BootPat \subseteq Word /\ BootPat # {}
    /\ BootMtrrDef \subseteq Word /\ BootMtrrDef # {}

(* MSR indices, lines 98-100. *)
X86_MSR_IA32_PAT      == 631        \* 0x277
X86_MSR_IA32_MTRR_CAP == 254        \* 0x0FE
X86_MSR_IA32_MTRR_DEF == 767        \* 0x2FF
Msrs == {X86_MSR_IA32_PAT, X86_MSR_IA32_MTRR_DEF}

\* CR0.WP (bit 16); CR4.OSFXSR (bit 9) and CR4.OSXSAVE (bit 18).
CR0_WP == {16}
CR4_OSFXSR == {9}
CR4_OSXSAVE == {18}

Faults == {"none", "#GP", "#UD"}
NoSize == 0
NoSync == [from |-> -1, targets |-> {}, pat |-> {}]
Routines == {"early_init", "percpu_init", "mem_type_init", "ext_init"}

VARIABLES
    cr0, cr4, xcr0,   \* control registers of each CPU
    msr,              \* msr[c][i]: MSR i of CPU c
    fault,            \* the exception that stopped CPU c, "none" if running
    sizeRet,          \* last value extended_register_size returned on c
    lastSync,         \* the pat_sync call of the last step, NoSync otherwise
    ran,              \* history: the routines CPU c has completed
    cpuidOut,         \* the caller's struct x86_cpuid_leaf on CPU c
    cpuidRet          \* what get_cpuid_subleaf last returned on CPU c

vars == <<cr0, cr4, xcr0, msr, fault, sizeRet, lastSync, ran, cpuidOut, cpuidRet>>
cpuidVars == <<cpuidOut, cpuidRet>>

\* struct x86_cpuid_leaf (lines 219-224).
CpuidLeaf == [eax : Word32, ebx : Word32, ecx : Word32, edx : Word32]
NoCpuid == [eax |-> {}, ebx |-> {}, ecx |-> {}, edx |-> {}]

\* The leaves callers probe: 0, reserved for the serializer, and 1.
CpuidLeaves == {0, 1}

\* What the cpuid instruction returns on CPU c.  Only ECX of leaf 1 is
\* modelled: XSAVE (bit 26) and OSXSAVE (bit 27, a copy of CR4.OSXSAVE).
HwCpuid(c, leaf) ==
    [NoCpuid EXCEPT !.ecx =
        IF leaf = 1
        THEN SetIf(c \in XsaveCpus, {26}) \cup SetIf(Test(cr4[c], CR4_OSXSAVE), {27})
        ELSE {}]

(* wrmsr splits the value into EDX:EAX, rdmsr joins them (lines 62-72). *)
Wrmsr(m, i, value) == [m EXCEPT ![i] = Join64(High32(value), Low32(value))]
Rdmsr(m, i) == Join64(High32(m[i]), Low32(m[i]))

TypeOK ==
    /\ cr0 \in [CPUs -> Word] /\ cr4 \in [CPUs -> Word] /\ xcr0 \in [CPUs -> Word]
    /\ msr \in [CPUs -> [Msrs -> Word]]
    /\ fault \in [CPUs -> Faults]
    /\ sizeRet \in [CPUs -> {NoSize, 512, 768}]
    /\ lastSync \in {NoSync} \cup [from : CPUs, targets : SUBSET CPUs, pat : Word]
    /\ ran \in [CPUs -> SUBSET Routines]
    /\ cpuidOut \in [CPUs -> CpuidLeaf]
    /\ cpuidRet \in [CPUs -> BOOLEAN]

Init ==
    /\ \E r \in [CPUs -> BootRegs] :
          /\ \A c \in CPUs : Test(r[c].cr4, CR4_OSXSAVE) => c \in XsaveCpus
          /\ cr0 = [c \in CPUs |-> r[c].cr0]
          /\ cr4 = [c \in CPUs |-> r[c].cr4]
          /\ xcr0 = [c \in CPUs |-> r[c].xcr0]
    /\ \E p \in BootPat, d \in BootMtrrDef :
          msr = [c \in CPUs |-> [i \in Msrs |->
                    IF i = X86_MSR_IA32_PAT THEN p ELSE d]]
    /\ fault = [c \in CPUs |-> "none"]
    /\ sizeRet = [c \in CPUs |-> NoSize]
    /\ lastSync = NoSync
    /\ ran = [c \in CPUs |-> {}]
    /\ cpuidOut = [c \in CPUs |-> NoCpuid]
    /\ cpuidRet = [c \in CPUs |-> FALSE]

Running(c) == fault[c] = "none"
Done(c, r) == ran' = [ran EXCEPT ![c] = @ \cup {r}]

\* sys_x86_mmu_early_init: PAT := default, then CR0 |= WP.
MmuEarlyInit(c) ==
    /\ Running(c)
    /\ msr' = [msr EXCEPT ![c] = Wrmsr(msr[c], X86_MSR_IA32_PAT, X86_PAT_DEFAULT_VALUE)]
    /\ cr0' = [cr0 EXCEPT ![c] = cr0[c] \cup CR0_WP]
    /\ Done(c, "early_init")
    /\ lastSync' = NoSync
    /\ UNCHANGED <<cr4, xcr0, fault, sizeRet, cpuidOut, cpuidRet>>

\* Mutant: the per-CPU PAT write left out.
MmuPercpuInitNoPat(c) ==
    /\ Running(c)
    /\ Done(c, "percpu_init")
    /\ lastSync' = NoSync
    /\ UNCHANGED <<cr0, cr4, xcr0, msr, fault, sizeRet, cpuidOut, cpuidRet>>

\* sys_x86_mmu_percpu_init: PAT := default; the MTRRCAP test has an empty
\* body.
MmuPercpuInit(c) ==
    /\ Running(c)
    /\ msr' = [msr EXCEPT ![c] = Wrmsr(msr[c], X86_MSR_IA32_PAT, X86_PAT_DEFAULT_VALUE)]
    /\ Done(c, "percpu_init")
    /\ lastSync' = NoSync
    /\ UNCHANGED <<cr0, cr4, xcr0, fault, sizeRet, cpuidOut, cpuidRet>>

\* sys_x86_mmu_mem_type_init: when the enable bit (0x800) is set, the
\* default type (bits 7..0) becomes 6, write-back.
\* Mutant: the mask ~0xFFF also takes the enable bits.
MemTypeInitValueWideMask(d) == (d \ 0..11) \cup {1, 2}

MemTypeInitValue(d) == (d \ 0..7) \cup {1, 2}

MmuMemTypeInit(c) ==
    /\ Running(c)
    /\ LET d == Rdmsr(msr[c], X86_MSR_IA32_MTRR_DEF)
       IN  msr' = [msr EXCEPT ![c] =
                     IF Test(d, {11})
                     THEN Wrmsr(msr[c], X86_MSR_IA32_MTRR_DEF, MemTypeInitValue(d))
                     ELSE msr[c]]
    /\ Done(c, "mem_type_init")
    /\ lastSync' = NoSync
    /\ UNCHANGED <<cr0, cr4, xcr0, fault, sizeRet, cpuidOut, cpuidRet>>

\* Mutant: OSXSAVE left out of the CR4 write.
ExtendedRegisterInitNoOsxsave(c) ==
    /\ Running(c)
    /\ \/ /\ c \in XsaveCpus
          /\ cr4' = [cr4 EXCEPT ![c] = cr4[c] \cup CR4_OSFXSR]
          /\ Done(c, "ext_init")
          /\ UNCHANGED fault
       \/ /\ c \notin XsaveCpus
          /\ fault' = [fault EXCEPT ![c] = "#GP"]
          /\ UNCHANGED <<cr4, ran>>
    /\ lastSync' = NoSync
    /\ UNCHANGED <<cr0, xcr0, msr, sizeRet, cpuidOut, cpuidRet>>

\* sys_x86_extended_register_init: CR4 |= OSFXSR | OSXSAVE, then fninit.
\* OSXSAVE is reserved on a CPU without XSAVE: the mov to CR4 raises #GP.
ExtendedRegisterInit(c) ==
    /\ Running(c)
    /\ \/ /\ c \in XsaveCpus
          /\ cr4' = [cr4 EXCEPT ![c] = cr4[c] \cup CR4_OSFXSR \cup CR4_OSXSAVE]
          /\ Done(c, "ext_init")
          /\ UNCHANGED fault
       \/ /\ c \notin XsaveCpus
          /\ fault' = [fault EXCEPT ![c] = "#GP"]
          /\ UNCHANGED <<cr4, ran>>
    /\ lastSync' = NoSync
    /\ UNCHANGED <<cr0, xcr0, msr, sizeRet, cpuidOut, cpuidRet>>

\* sys_x86_extended_register_size: 512 without XSAVE; otherwise xgetbv
\* (#UD while CR4.OSXSAVE is clear) and 512, plus 256 with XCR0.AVX.
ExtendedRegisterSize(c) ==
    /\ Running(c)
    /\ \/ /\ c \notin XsaveCpus
          /\ sizeRet' = [sizeRet EXCEPT ![c] = 512]
          /\ UNCHANGED fault
       \/ /\ c \in XsaveCpus
          /\ ~Test(cr4[c], CR4_OSXSAVE)
          /\ fault' = [fault EXCEPT ![c] = "#UD"]
          /\ UNCHANGED sizeRet
       \/ /\ c \in XsaveCpus
          /\ Test(cr4[c], CR4_OSXSAVE)
          /\ sizeRet' = [sizeRet EXCEPT ![c] =
                           512 + (IF Test(Join64(High32(xcr0[c]), Low32(xcr0[c])), {2})
                                  THEN 256 ELSE 0)]
          /\ UNCHANGED fault
    /\ lastSync' = NoSync
    /\ UNCHANGED <<cr0, cr4, xcr0, msr, ran, cpuidOut, cpuidRet>>

\* sys_x86_pat_sync(targets): returns at once when targets == 1, otherwise
\* reads the PAT and does nothing with it (the IPI broadcast is a TODO).
PatSync(c, targets) ==
    /\ Running(c)
    /\ lastSync' = [from |-> c, targets |-> targets,
                    pat |-> Rdmsr(msr[c], X86_MSR_IA32_PAT)]
    /\ UNCHANGED <<cr0, cr4, xcr0, msr, fault, sizeRet, ran, cpuidOut, cpuidRet>>

\* sys_x86_get_cpuid_subleaf(leaf, subleaf, out): false for leaf 0 with
\* *out untouched; otherwise cpuid fills *out and it returns true.
GetCpuidSubleaf(c, leaf, subleaf) ==
    /\ Running(c)
    /\ \/ /\ leaf = 0
          /\ cpuidRet' = [cpuidRet EXCEPT ![c] = FALSE]
          /\ UNCHANGED cpuidOut
       \/ /\ leaf # 0
          /\ cpuidOut' = [cpuidOut EXCEPT ![c] = HwCpuid(c, leaf)]
          /\ cpuidRet' = [cpuidRet EXCEPT ![c] = TRUE]
    /\ lastSync' = NoSync
    /\ UNCHANGED <<cr0, cr4, xcr0, msr, fault, sizeRet, ran>>

Next ==
    \E c \in CPUs :
        \/ MmuEarlyInit(c)
        \/ MmuPercpuInit(c)
        \/ MmuMemTypeInit(c)
        \/ ExtendedRegisterInit(c)
        \/ ExtendedRegisterSize(c)
        \/ \E t \in (SUBSET CPUs) \ {{}} : PatSync(c, t)
        \/ \E leaf \in CpuidLeaves : GetCpuidSubleaf(c, leaf, 0)

Spec == Init /\ [][Next]_vars

(***************************************************************************)
(* Properties.                                                             *)
(***************************************************************************)

\* Any two CPUs that have both run mmu_percpu_init and mmu_mem_type_init,
\* in whatever order and interleaved with whatever else either ran, have
\* the same PAT and the same MTRR default type: the memory types the
\* CPUs give one page agree (Intel SDM 11.11.8 requires it).
AttributesAgree ==
    \A c, d \in CPUs :
        {"percpu_init", "mem_type_init"} \subseteq ran[c] \cap ran[d]
            => msr[c] = msr[d]

\* No step ever changes the MTRR enable bits of IA32_MTRR_DEF_TYPE, E
\* (bit 11) and FE (bit 10): mem_type_init rewrites the type byte of the
\* register without turning the MTRRs off (all memory uncached) or on.
MtrrEnablesKept ==
    [][\A c \in CPUs :
         msr'[c][X86_MSR_IA32_MTRR_DEF] \cap {10, 11}
           = msr[c][X86_MSR_IA32_MTRR_DEF] \cap {10, 11}]_vars

\* No init routine makes its CPU take an exception, in any order the
\* routines are called: extended_register_init's comment says it enables
\* SSE and AVX "if available".
NoFault == \A c \in CPUs : fault[c] = "none"

\* The order that avoids the #UD: on a CPU with XSAVE, once
\* extended_register_init has run, the CPU has not faulted and never does,
\* whatever runs after it on this or any CPU: no routine clears
\* CR4.OSXSAVE again, so extended_register_size's xgetbv is always legal.
XsaveInitNoFault ==
    \A c \in XsaveCpus : "ext_init" \in ran[c] => fault[c] = "none"

\* When pat_sync(targets) returns, every CPU of targets has the caller's
\* PAT (the function's comment: "Send IPIs to other CPUs to update their
\* PAT").
PatSyncAgreement ==
    lastSync # NoSync =>
        \A i \in lastSync.targets : msr[i][X86_MSR_IA32_PAT] = lastSync.pat
=============================================================================
