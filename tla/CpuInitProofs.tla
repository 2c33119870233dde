----------------------------- MODULE CpuInitProofs -----------------------------
(***************************************************************************)
(* Proofs about the per-CPU init routines of CpuInit.                      *)
(***************************************************************************)
EXTENDS CpuInit, TLAPS

\* The MTRR default type mem_type_init leaves for a register value d.
MtrrAfter(d) == IF Test(d, {11}) THEN MemTypeInitValue(d) ELSE d

(***************************************************************************)
(* The strengthening of AttributesAgree: every CPU's MTRR default type is *)
(* the firmware's value d, or MtrrAfter(d) once it ran mem_type_init; and *)
(* a CPU that ran early_init or percpu_init has the default PAT.           *)
(***************************************************************************)
MtrrShape ==
    \E d \in BootMtrrDef :
        \A c \in CPUs :
            msr[c][X86_MSR_IA32_MTRR_DEF] =
                IF "mem_type_init" \in ran[c] THEN MtrrAfter(d) ELSE d

PatShape ==
    \A c \in CPUs :
        {"early_init", "percpu_init"} \cap ran[c] # {}
            => msr[c][X86_MSR_IA32_PAT] = X86_PAT_DEFAULT_VALUE

IInv == TypeOK /\ MtrrShape /\ PatShape

(***************************************************************************)
(* Lemmas on the word operators.                                           *)
(***************************************************************************)

\* Splitting a 64-bit word into EDX:EAX and joining the halves again
\* (wrmsr, rdmsr, xgetbv) gives back the word.
LEMMA JoinSplit ==
    ASSUME NEW x \in Word
    PROVE  Join64(High32(x), Low32(x)) = x
<1> DEFINE Hi == {c \in x : c >= 32}
<1>1. High32(x) = {b - 32 : b \in Hi}
  BY DEF High32, ShiftRight
<1>2. ASSUME NEW y PROVE y \in ShiftLeft64(High32(x), 32) <=> y \in Hi
  <2>1. ASSUME y \in ShiftLeft64(High32(x), 32) PROVE y \in Hi
    <3>1. PICK b \in High32(x) : b + 32 <= 63 /\ y = b + 32
      BY <2>1 DEF ShiftLeft64
    <3>2. PICK c \in Hi : b = c - 32
      BY <1>1, <3>1
    <3>3. QED
      BY <3>1, <3>2 DEF Word
  <2>2. ASSUME y \in Hi PROVE y \in ShiftLeft64(High32(x), 32)
    <3>1. y - 32 \in High32(x)
      BY <2>2, <1>1
    <3>2. (y - 32) + 32 <= 63 /\ y = (y - 32) + 32
      BY <2>2 DEF Word
    <3>3. QED
      BY <3>1, <3>2 DEF ShiftLeft64
  <2>3. QED
    BY <2>1, <2>2
<1>3. ShiftLeft64(High32(x), 32) = Hi
  BY <1>2
<1>4. x = Hi \cup (x \cap 0..31)
  <2>1. ASSUME NEW y \in x PROVE y >= 32 \/ y \in 0..31
    BY DEF Word
  <2>2. QED
    BY <2>1
<1>5. QED
  BY <1>3, <1>4 DEF Join64, Low32

LEMMA WrmsrRdmsr ==
    ASSUME NEW m, NEW i, NEW value \in Word
    PROVE  /\ Wrmsr(m, i, value) = [m EXCEPT ![i] = value]
           /\ Rdmsr(m, i) = Join64(High32(m[i]), Low32(m[i]))
BY JoinSplit DEF Wrmsr, Rdmsr

\* mem_type_init is idempotent and leaves a word.
LEMMA MtrrAfterFacts ==
    ASSUME NEW d \in Word
    PROVE  /\ MtrrAfter(d) \in Word
           /\ MtrrAfter(MtrrAfter(d)) = MtrrAfter(d)
BY DEF MtrrAfter, MemTypeInitValue, Test, Word

LEMMA PatDefaultWord == X86_PAT_DEFAULT_VALUE \in Word
BY DEF X86_PAT_DEFAULT_VALUE, Word

\* What each init routine writes into the MSR file of its CPU.
LEMMA MsrWrites ==
    ASSUME TypeOK, NEW c \in CPUs
    PROVE  /\ Wrmsr(msr[c], X86_MSR_IA32_PAT, X86_PAT_DEFAULT_VALUE)
                = [msr[c] EXCEPT ![X86_MSR_IA32_PAT] = X86_PAT_DEFAULT_VALUE]
           /\ Rdmsr(msr[c], X86_MSR_IA32_MTRR_DEF) = msr[c][X86_MSR_IA32_MTRR_DEF]
           /\ Rdmsr(msr[c], X86_MSR_IA32_PAT) = msr[c][X86_MSR_IA32_PAT]
           /\ \A v \in Word :
                Wrmsr(msr[c], X86_MSR_IA32_MTRR_DEF, v)
                  = [msr[c] EXCEPT ![X86_MSR_IA32_MTRR_DEF] = v]
<1>1. msr[c][X86_MSR_IA32_MTRR_DEF] \in Word /\ msr[c][X86_MSR_IA32_PAT] \in Word
  BY DEF TypeOK, Msrs
<1>2. QED
  BY <1>1, PatDefaultWord, JoinSplit DEF Wrmsr, Rdmsr

(***************************************************************************)
(* Type correctness.                                                       *)
(***************************************************************************)

LEMMA TypeStep == TypeOK /\ [Next]_vars => TypeOK'
<1> SUFFICES ASSUME TypeOK, [Next]_vars PROVE TypeOK'
  OBVIOUS
<1>0. ASSUME NEW c \in CPUs, NEW r \in Routines
      PROVE  [ran EXCEPT ![c] = @ \cup {r}] \in [CPUs -> SUBSET Routines]
  BY DEF TypeOK
<1>1. ASSUME NEW c \in CPUs,
             msr' = [msr EXCEPT ![c] = [msr[c] EXCEPT ![X86_MSR_IA32_PAT] = X86_PAT_DEFAULT_VALUE]]
      PROVE  msr' \in [CPUs -> [Msrs -> Word]]
  BY <1>1, PatDefaultWord DEF TypeOK, Msrs, X86_MSR_IA32_PAT, X86_MSR_IA32_MTRR_DEF
<1>2. lastSync' = NoSync => lastSync' \in {NoSync} \cup [from : CPUs, targets : SUBSET CPUs, pat : Word]
  OBVIOUS
<1>3. ASSUME NEW c \in CPUs, MmuEarlyInit(c) PROVE TypeOK'
  <2>1. msr' \in [CPUs -> [Msrs -> Word]]
    BY <1>3, <1>1, MsrWrites DEF MmuEarlyInit
  <2>2. cr0' \in [CPUs -> Word]
    BY <1>3 DEF MmuEarlyInit, TypeOK, Word, CR0_WP
  <2>3. ran' \in [CPUs -> SUBSET Routines]
    BY <1>3, <1>0 DEF MmuEarlyInit, Done, Routines
  <2>4. QED
    BY <1>3, <1>2, <2>1, <2>2, <2>3 DEF MmuEarlyInit, TypeOK
<1>4. ASSUME NEW c \in CPUs, MmuPercpuInit(c) PROVE TypeOK'
  <2>1. msr' \in [CPUs -> [Msrs -> Word]]
    BY <1>4, <1>1, MsrWrites DEF MmuPercpuInit
  <2>2. ran' \in [CPUs -> SUBSET Routines]
    BY <1>4, <1>0 DEF MmuPercpuInit, Done, Routines
  <2>3. QED
    BY <1>4, <1>2, <2>1, <2>2 DEF MmuPercpuInit, TypeOK
<1>5. ASSUME NEW c \in CPUs, MmuMemTypeInit(c) PROVE TypeOK'
  <2> DEFINE d == msr[c][X86_MSR_IA32_MTRR_DEF]
  <2>1. MemTypeInitValue(d) \in Word
    BY DEF TypeOK, Msrs, MemTypeInitValue, Word
  <2>2. msr' = [msr EXCEPT ![c] =
                  IF Test(d, {11})
                  THEN [msr[c] EXCEPT ![X86_MSR_IA32_MTRR_DEF] = MemTypeInitValue(d)]
                  ELSE msr[c]]
    <3>1. Rdmsr(msr[c], X86_MSR_IA32_MTRR_DEF) = d
      BY MsrWrites
    <3>2. Wrmsr(msr[c], X86_MSR_IA32_MTRR_DEF, MemTypeInitValue(d))
            = [msr[c] EXCEPT ![X86_MSR_IA32_MTRR_DEF] = MemTypeInitValue(d)]
      BY <2>1, MsrWrites
    <3>3. QED
      BY <1>5, <3>1, <3>2 DEF MmuMemTypeInit
  <2>3. msr' \in [CPUs -> [Msrs -> Word]]
    BY <2>1, <2>2 DEF TypeOK, Msrs, X86_MSR_IA32_PAT, X86_MSR_IA32_MTRR_DEF
  <2>4. ran' \in [CPUs -> SUBSET Routines]
    BY <1>5, <1>0 DEF MmuMemTypeInit, Done, Routines
  <2>5. QED
    BY <1>5, <1>2, <2>3, <2>4 DEF MmuMemTypeInit, TypeOK
<1>6. ASSUME NEW c \in CPUs, ExtendedRegisterInit(c) PROVE TypeOK'
  <2>1. CASE c \in XsaveCpus
    <3>1. cr4' \in [CPUs -> Word]
      <4>1. cr4[c] \cup CR4_OSFXSR \cup CR4_OSXSAVE \in Word
        BY DEF TypeOK, Word, CR4_OSFXSR, CR4_OSXSAVE
      <4>2. cr4' = [cr4 EXCEPT ![c] = cr4[c] \cup CR4_OSFXSR \cup CR4_OSXSAVE]
        BY <1>6, <2>1 DEF ExtendedRegisterInit
      <4>3. QED
        BY <4>1, <4>2 DEF TypeOK
    <3>2. ran' \in [CPUs -> SUBSET Routines]
      BY <1>6, <2>1, <1>0 DEF ExtendedRegisterInit, Done, Routines
    <3>3. QED
      BY <1>6, <2>1, <1>2, <3>1, <3>2 DEF ExtendedRegisterInit, TypeOK
  <2>2. CASE c \notin XsaveCpus
    <3>1. fault' \in [CPUs -> Faults]
      BY <1>6, <2>2 DEF ExtendedRegisterInit, TypeOK, Faults
    <3>2. QED
      BY <1>6, <2>2, <1>2, <3>1 DEF ExtendedRegisterInit, TypeOK
  <2>3. QED
    BY <2>1, <2>2
<1>7. ASSUME NEW c \in CPUs, ExtendedRegisterSize(c) PROVE TypeOK'
  <2>1. 512 + (IF Test(Join64(High32(xcr0[c]), Low32(xcr0[c])), {2}) THEN 256 ELSE 0)
          \in {NoSize, 512, 768}
    BY DEF NoSize
  <2>2. sizeRet' \in [CPUs -> {NoSize, 512, 768}]
    BY <1>7, <2>1 DEF ExtendedRegisterSize, TypeOK
  <2>3. QED
    BY <1>7, <1>2, <2>2 DEF ExtendedRegisterSize, TypeOK, Faults
<1>8. ASSUME NEW c \in CPUs, NEW t \in (SUBSET CPUs) \ {{}}, PatSync(c, t)
      PROVE TypeOK'
  <2>1. Rdmsr(msr[c], X86_MSR_IA32_PAT) \in Word
    BY MsrWrites DEF TypeOK, Msrs, X86_MSR_IA32_PAT, X86_MSR_IA32_MTRR_DEF
  <2>2. QED
    BY <1>8, <2>1 DEF PatSync, TypeOK
<1>9. CASE UNCHANGED vars
  BY <1>9 DEF vars, TypeOK
<1>10. ASSUME NEW c \in CPUs, NEW leaf \in CpuidLeaves, GetCpuidSubleaf(c, leaf, 0)
       PROVE TypeOK'
  <2>1. HwCpuid(c, leaf) \in CpuidLeaf
    BY XsaveCpusAssumption DEF HwCpuid, NoCpuid, CpuidLeaf, Word32, SetIf
  <2>2. cpuidOut' \in [CPUs -> CpuidLeaf] /\ cpuidRet' \in [CPUs -> BOOLEAN]
    <3>1. CASE leaf = 0
      <4>1. cpuidRet' = [cpuidRet EXCEPT ![c] = FALSE] /\ cpuidOut' = cpuidOut
        BY <1>10, <3>1 DEF GetCpuidSubleaf
      <4>2. QED
        BY <4>1 DEF TypeOK
    <3>2. CASE leaf # 0
      <4>1. cpuidRet' = [cpuidRet EXCEPT ![c] = TRUE]
            /\ cpuidOut' = [cpuidOut EXCEPT ![c] = HwCpuid(c, leaf)]
        BY <1>10, <3>2 DEF GetCpuidSubleaf
      <4>2. QED
        BY <4>1, <2>1 DEF TypeOK
    <3>3. QED
      BY <3>1, <3>2
  <2>3. QED
    BY <1>10, <1>2, <2>2 DEF GetCpuidSubleaf, TypeOK
<1>11. QED
  BY <1>3, <1>4, <1>5, <1>6, <1>7, <1>8, <1>9, <1>10 DEF Next

THEOREM TypeCorrect == Spec => []TypeOK
<1>1. Init => TypeOK
  BY BootAssumption DEF Init, TypeOK, Msrs, Faults, NoSize, NoSync, Routines,
                        NoCpuid, CpuidLeaf, Word32
<1>2. QED
  BY <1>1, TypeStep, PTL DEF Spec
(***************************************************************************)
(* The inductive invariant.                                                *)
(***************************************************************************)

\* A step that keeps every MTRR default type and every CPU's knowledge of
\* having run mem_type_init keeps MtrrShape.
LEMMA MtrrFrame ==
    ASSUME MtrrShape,
           \A x \in CPUs : msr'[x][X86_MSR_IA32_MTRR_DEF] = msr[x][X86_MSR_IA32_MTRR_DEF],
           \A x \in CPUs : ("mem_type_init" \in ran'[x]) <=> ("mem_type_init" \in ran[x])
    PROVE  MtrrShape'
BY DEF MtrrShape

\* A step that keeps every PAT and adds no early or per-CPU init keeps
\* PatShape.
LEMMA PatFrame ==
    ASSUME PatShape,
           \A x \in CPUs : msr'[x][X86_MSR_IA32_PAT] = msr[x][X86_MSR_IA32_PAT],
           \A x \in CPUs : {"early_init", "percpu_init"} \cap ran'[x]
                             = {"early_init", "percpu_init"} \cap ran[x]
    PROVE  PatShape'
BY DEF PatShape

LEMMA IInvInit == Init => IInv
<1> SUFFICES ASSUME Init PROVE IInv
  OBVIOUS
<1>1. TypeOK
  BY BootAssumption DEF Init, TypeOK, Msrs, Faults, NoSize, NoSync, Routines,
                        NoCpuid, CpuidLeaf, Word32
<1>2. MtrrShape
  <2>1. PICK p \in BootPat, d \in BootMtrrDef :
          msr = [c \in CPUs |-> [i \in Msrs |-> IF i = X86_MSR_IA32_PAT THEN p ELSE d]]
    BY DEF Init
  <2>2. \A c \in CPUs : msr[c][X86_MSR_IA32_MTRR_DEF] = d /\ "mem_type_init" \notin ran[c]
    BY <2>1 DEF Init, Msrs, X86_MSR_IA32_PAT, X86_MSR_IA32_MTRR_DEF
  <2>3. QED
    BY <2>2 DEF MtrrShape
<1>3. PatShape
  BY DEF Init, PatShape
<1>4. QED
  BY <1>1, <1>2, <1>3 DEF IInv

\* The PAT writes of early_init and percpu_init: the CPU gets the default
\* PAT and a new routine other than mem_type_init.
LEMMA PatWriteStep ==
    ASSUME IInv, NEW c \in CPUs, NEW r \in {"early_init", "percpu_init"},
           msr' = [msr EXCEPT ![c] = Wrmsr(msr[c], X86_MSR_IA32_PAT, X86_PAT_DEFAULT_VALUE)],
           Done(c, r)
    PROVE  MtrrShape' /\ PatShape'
<1>1. msr' = [msr EXCEPT ![c] = [msr[c] EXCEPT ![X86_MSR_IA32_PAT] = X86_PAT_DEFAULT_VALUE]]
  BY MsrWrites DEF IInv
<1>2. \A x \in CPUs : msr'[x][X86_MSR_IA32_MTRR_DEF] = msr[x][X86_MSR_IA32_MTRR_DEF]
  BY <1>1 DEF IInv, TypeOK, Msrs, X86_MSR_IA32_PAT, X86_MSR_IA32_MTRR_DEF
<1>3. \A x \in CPUs : ("mem_type_init" \in ran'[x]) <=> ("mem_type_init" \in ran[x])
  BY DEF Done, IInv, TypeOK
<1>4. MtrrShape'
  BY <1>2, <1>3, MtrrFrame DEF IInv
<1>5. PatShape'
  <2>1. msr'[c][X86_MSR_IA32_PAT] = X86_PAT_DEFAULT_VALUE
    BY <1>1 DEF IInv, TypeOK, Msrs
  <2>2. \A x \in CPUs \ {c} : msr'[x] = msr[x] /\ ran'[x] = ran[x]
    BY <1>1 DEF Done, IInv, TypeOK
  <2>3. QED
    BY <2>1, <2>2 DEF PatShape, IInv
<1>6. QED
  BY <1>4, <1>5

\* mem_type_init rewrites the MTRR default type of its CPU to MtrrAfter of
\* it, which is MtrrAfter of the firmware value by idempotence.
LEMMA MemTypeStep ==
    ASSUME IInv, NEW c \in CPUs, MmuMemTypeInit(c)
    PROVE  MtrrShape' /\ PatShape'
<1> DEFINE v == msr[c][X86_MSR_IA32_MTRR_DEF]
<1>1. v \in Word
  BY DEF IInv, TypeOK, Msrs
<1>2. MemTypeInitValue(v) \in Word
  BY <1>1 DEF MemTypeInitValue, Word
<1>3. msr' = [msr EXCEPT ![c] = [msr[c] EXCEPT ![X86_MSR_IA32_MTRR_DEF] = MtrrAfter(v)]]
  <2>1. Rdmsr(msr[c], X86_MSR_IA32_MTRR_DEF) = v
    BY MsrWrites DEF IInv
  <2>2. Wrmsr(msr[c], X86_MSR_IA32_MTRR_DEF, MemTypeInitValue(v))
          = [msr[c] EXCEPT ![X86_MSR_IA32_MTRR_DEF] = MemTypeInitValue(v)]
    BY <1>2, MsrWrites DEF IInv
  <2>3. msr[c] = [msr[c] EXCEPT ![X86_MSR_IA32_MTRR_DEF] = v]
    BY DEF IInv, TypeOK, Msrs
  <2>4. QED
    BY <2>1, <2>2, <2>3 DEF MmuMemTypeInit, MtrrAfter
<1>4. \A x \in CPUs \ {c} : msr'[x] = msr[x] /\ ran'[x] = ran[x]
  BY <1>3 DEF MmuMemTypeInit, Done, IInv, TypeOK
<1>5. ran'[c] = ran[c] \cup {"mem_type_init"}
  BY DEF MmuMemTypeInit, Done, IInv, TypeOK
<1>6. MtrrShape'
  <2>1. PICK d \in BootMtrrDef :
          \A x \in CPUs : msr[x][X86_MSR_IA32_MTRR_DEF] =
                IF "mem_type_init" \in ran[x] THEN MtrrAfter(d) ELSE d
    BY DEF IInv, MtrrShape
  <2>2. MtrrAfter(v) = MtrrAfter(d)
    BY <2>1, MtrrAfterFacts, BootAssumption
  <2>3. msr'[c][X86_MSR_IA32_MTRR_DEF] = MtrrAfter(d)
    BY <1>3, <2>2 DEF IInv, TypeOK, Msrs
  <2>4. QED
    BY <2>1, <2>3, <1>4, <1>5 DEF MtrrShape
<1>7. PatShape'
  <2>1. msr'[c][X86_MSR_IA32_PAT] = msr[c][X86_MSR_IA32_PAT]
    BY <1>3 DEF IInv, TypeOK, Msrs, X86_MSR_IA32_PAT, X86_MSR_IA32_MTRR_DEF
  <2>2. QED
    BY <2>1, <1>4, <1>5 DEF PatShape, IInv
<1>8. QED
  BY <1>6, <1>7

LEMMA IInvStep == IInv /\ [Next]_vars => IInv'
<1> SUFFICES ASSUME IInv, [Next]_vars PROVE IInv'
  OBVIOUS
<1>1. TypeOK'
  BY TypeStep DEF IInv
<1>2. ASSUME NEW c \in CPUs, MmuEarlyInit(c) PROVE MtrrShape' /\ PatShape'
  BY <1>2, PatWriteStep DEF MmuEarlyInit
<1>3. ASSUME NEW c \in CPUs, MmuPercpuInit(c) PROVE MtrrShape' /\ PatShape'
  BY <1>3, PatWriteStep DEF MmuPercpuInit
<1>4. ASSUME NEW c \in CPUs, MmuMemTypeInit(c) PROVE MtrrShape' /\ PatShape'
  BY <1>4, MemTypeStep
<1>5. ASSUME NEW c \in CPUs, ExtendedRegisterInit(c) PROVE MtrrShape' /\ PatShape'
  <2>1. \A x \in CPUs : ran'[x] \cap {"early_init", "percpu_init", "mem_type_init"}
                          = ran[x] \cap {"early_init", "percpu_init", "mem_type_init"}
    BY <1>5 DEF ExtendedRegisterInit, Done, IInv, TypeOK
  <2>2. QED
    BY <1>5, <2>1, MtrrFrame, PatFrame DEF ExtendedRegisterInit, IInv
<1>6. ASSUME NEW c \in CPUs, ExtendedRegisterSize(c) PROVE MtrrShape' /\ PatShape'
  BY <1>6 DEF ExtendedRegisterSize, IInv, MtrrShape, PatShape
<1>7. ASSUME NEW c \in CPUs, NEW t \in (SUBSET CPUs) \ {{}}, PatSync(c, t)
      PROVE MtrrShape' /\ PatShape'
  BY <1>7 DEF PatSync, IInv, MtrrShape, PatShape
<1>8. ASSUME UNCHANGED vars PROVE MtrrShape' /\ PatShape'
  BY <1>8 DEF vars, IInv, MtrrShape, PatShape
<1>9. ASSUME NEW c \in CPUs, NEW leaf \in CpuidLeaves, GetCpuidSubleaf(c, leaf, 0)
      PROVE MtrrShape' /\ PatShape'
  BY <1>9 DEF GetCpuidSubleaf, IInv, MtrrShape, PatShape
<1>10. QED
  BY <1>1, <1>2, <1>3, <1>4, <1>5, <1>6, <1>7, <1>8, <1>9 DEF Next, IInv

\* Any two CPUs that ran percpu_init and mem_type_init have the same MSR
\* file: the PAT is the default on both and the MTRR default type is
\* MtrrAfter of the same firmware value.
LEMMA IInvAgree == IInv => AttributesAgree
<1> SUFFICES ASSUME IInv, NEW c \in CPUs, NEW e \in CPUs,
                    {"percpu_init", "mem_type_init"} \subseteq ran[c] \cap ran[e]
             PROVE  msr[c] = msr[e]
  BY DEF AttributesAgree
<1>1. msr[c][X86_MSR_IA32_PAT] = msr[e][X86_MSR_IA32_PAT]
  BY DEF IInv, PatShape
<1>2. msr[c][X86_MSR_IA32_MTRR_DEF] = msr[e][X86_MSR_IA32_MTRR_DEF]
  BY DEF IInv, MtrrShape
<1>3. msr[c] \in [Msrs -> Word] /\ msr[e] \in [Msrs -> Word]
  BY DEF IInv, TypeOK
<1>4. QED
  BY <1>1, <1>2, <1>3 DEF Msrs

\* Whatever order the CPUs run their init routines in, two CPUs that have
\* both run mmu_percpu_init and mmu_mem_type_init agree on PAT and on the
\* MTRR default type, for every number of CPUs and every firmware state
\* that is uniform across CPUs.
THEOREM AttributesAgreeInvariant == Spec => []AttributesAgree
BY IInvInit, IInvStep, IInvAgree, PTL DEF Spec

\* No init step changes the MTRR enable bits E and FE: mem_type_init's
\* mask ~0xFF keeps bits 10 and 11, and no other routine writes the MSR.
THEOREM MtrrEnablesKeptTheorem == Spec => MtrrEnablesKept
<1>1. TypeOK /\ [Next]_vars =>
        [\A c \in CPUs : msr'[c][X86_MSR_IA32_MTRR_DEF] \cap {10, 11}
                          = msr[c][X86_MSR_IA32_MTRR_DEF] \cap {10, 11}]_vars
  <2> SUFFICES ASSUME TypeOK, [Next]_vars, NEW x \in CPUs
               PROVE  msr'[x][X86_MSR_IA32_MTRR_DEF] \cap {10, 11}
                        = msr[x][X86_MSR_IA32_MTRR_DEF] \cap {10, 11}
    OBVIOUS
  <2>1. ASSUME NEW c \in CPUs, MmuEarlyInit(c) \/ MmuPercpuInit(c)
        PROVE  msr'[x][X86_MSR_IA32_MTRR_DEF] = msr[x][X86_MSR_IA32_MTRR_DEF]
    <3>1. msr' = [msr EXCEPT ![c] = [msr[c] EXCEPT ![X86_MSR_IA32_PAT] = X86_PAT_DEFAULT_VALUE]]
      BY <2>1, MsrWrites DEF MmuEarlyInit, MmuPercpuInit
    <3>2. QED
      BY <3>1 DEF TypeOK, Msrs, X86_MSR_IA32_PAT, X86_MSR_IA32_MTRR_DEF
  <2>2. ASSUME NEW c \in CPUs, MmuMemTypeInit(c)
        PROVE  msr'[x][X86_MSR_IA32_MTRR_DEF] \cap {10, 11}
                 = msr[x][X86_MSR_IA32_MTRR_DEF] \cap {10, 11}
    <3> DEFINE v == msr[c][X86_MSR_IA32_MTRR_DEF]
    <3>1. v \in Word /\ MemTypeInitValue(v) \in Word
      BY DEF TypeOK, Msrs, MemTypeInitValue, Word
    <3>2. msr' = [msr EXCEPT ![c] = [msr[c] EXCEPT ![X86_MSR_IA32_MTRR_DEF] = MtrrAfter(v)]]
      <4>1. Rdmsr(msr[c], X86_MSR_IA32_MTRR_DEF) = v
        BY MsrWrites
      <4>2. Wrmsr(msr[c], X86_MSR_IA32_MTRR_DEF, MemTypeInitValue(v))
              = [msr[c] EXCEPT ![X86_MSR_IA32_MTRR_DEF] = MemTypeInitValue(v)]
        BY <3>1, MsrWrites
      <4>3. msr[c] = [msr[c] EXCEPT ![X86_MSR_IA32_MTRR_DEF] = v]
        BY DEF TypeOK, Msrs
      <4>4. QED
        BY <2>2, <4>1, <4>2, <4>3 DEF MmuMemTypeInit, MtrrAfter
    <3>3. MtrrAfter(v) \cap {10, 11} = v \cap {10, 11}
      BY DEF MtrrAfter, MemTypeInitValue
    <3>4. QED
      BY <3>2, <3>3 DEF TypeOK, Msrs
  <2>3. ASSUME NEW c \in CPUs,
               \/ ExtendedRegisterInit(c)
               \/ ExtendedRegisterSize(c)
               \/ \E t \in (SUBSET CPUs) \ {{}} : PatSync(c, t)
               \/ \E leaf \in CpuidLeaves : GetCpuidSubleaf(c, leaf, 0)
        PROVE  msr' = msr
    BY <2>3 DEF ExtendedRegisterInit, ExtendedRegisterSize, PatSync, GetCpuidSubleaf
  <2>4. CASE UNCHANGED vars
    BY <2>4 DEF vars
  <2>5. QED
    BY <2>1, <2>2, <2>3, <2>4 DEF Next
<1>2. QED
  BY <1>1, TypeCorrect, PTL DEF Spec, MtrrEnablesKept
(***************************************************************************)
(* Calling extended_register_init first avoids the #UD.  XsaveIInv        *)
(* strengthens XsaveInitNoFault: on an XSAVE CPU that ran ext_init,        *)
(* CR4.OSXSAVE is also still set, which is what keeps a later              *)
(* extended_register_size off its #UD branch.                              *)
(***************************************************************************)
XsaveReady(c) == "ext_init" \in ran[c] => fault[c] = "none" /\ Test(cr4[c], CR4_OSXSAVE)
XsaveIInv == TypeOK /\ \A c \in XsaveCpus : XsaveReady(c)

\* A step that keeps the fault, CR4 and ext_init record of every XSAVE CPU
\* keeps XsaveReady for all of them.
LEMMA XsaveFrame ==
    ASSUME XsaveIInv, TypeOK',
           \A x \in XsaveCpus : /\ fault'[x] = fault[x]
                                /\ cr4'[x] = cr4[x]
                                /\ ("ext_init" \in ran'[x]) <=> ("ext_init" \in ran[x])
    PROVE  XsaveIInv'
BY DEF XsaveIInv, XsaveReady

LEMMA XsaveIInvStep == XsaveIInv /\ [Next]_vars => XsaveIInv'
<1> SUFFICES ASSUME XsaveIInv, [Next]_vars PROVE XsaveIInv'
  OBVIOUS
<1>0. TypeOK /\ TypeOK'
  BY TypeStep DEF XsaveIInv
<1>1. ASSUME NEW c \in CPUs, NEW r \in {"early_init", "percpu_init", "mem_type_init"},
             Running(c), ran' = [ran EXCEPT ![c] = @ \cup {r}],
             UNCHANGED <<cr4, fault>>
      PROVE  XsaveIInv'
  <2>1. \A x \in XsaveCpus : ("ext_init" \in ran'[x]) <=> ("ext_init" \in ran[x])
    BY <1>0, <1>1, XsaveCpusAssumption DEF TypeOK
  <2>2. QED
    BY <1>0, <1>1, <2>1, XsaveFrame
<1>2. ASSUME NEW c \in CPUs, ExtendedRegisterInit(c) PROVE XsaveIInv'
  <2>1. CASE c \in XsaveCpus
    <3>1. /\ cr4' = [cr4 EXCEPT ![c] = cr4[c] \cup CR4_OSFXSR \cup CR4_OSXSAVE]
          /\ ran' = [ran EXCEPT ![c] = @ \cup {"ext_init"}]
          /\ fault' = fault /\ fault[c] = "none"
      BY <1>2, <2>1 DEF ExtendedRegisterInit, Done, Running
    <3>2. ASSUME NEW x \in XsaveCpus PROVE XsaveReady(x)'
      <4>1. CASE x = c
        BY <1>0, <3>1, <4>1, XsaveCpusAssumption DEF TypeOK, XsaveReady, Test, CR4_OSXSAVE
      <4>2. CASE x # c
        BY <1>0, <3>1, <4>2, XsaveCpusAssumption DEF TypeOK, XsaveReady, XsaveIInv
      <4>3. QED
        BY <4>1, <4>2
    <3>3. QED
      BY <1>0, <3>2 DEF XsaveIInv
  <2>2. CASE c \notin XsaveCpus
    <3>1. fault' = [fault EXCEPT ![c] = "#GP"] /\ UNCHANGED <<cr4, ran>>
      BY <1>2, <2>2 DEF ExtendedRegisterInit
    <3>2. QED
      BY <1>0, <3>1, <2>2, XsaveFrame, XsaveCpusAssumption DEF TypeOK
  <2>3. QED
    BY <2>1, <2>2
<1>3. ASSUME NEW c \in CPUs, ExtendedRegisterSize(c) PROVE XsaveIInv'
  <2>1. CASE c \in XsaveCpus /\ ~Test(cr4[c], CR4_OSXSAVE)
    <3>1. fault' = [fault EXCEPT ![c] = "#UD"] /\ UNCHANGED <<cr4, ran>>
      BY <1>3, <2>1 DEF ExtendedRegisterSize
    <3>2. "ext_init" \notin ran[c]
      BY <2>1 DEF XsaveIInv, XsaveReady
    <3>3. ASSUME NEW x \in XsaveCpus PROVE XsaveReady(x)'
      BY <1>0, <3>1, <3>2, XsaveCpusAssumption DEF TypeOK, XsaveReady, XsaveIInv
    <3>4. QED
      BY <1>0, <3>3 DEF XsaveIInv
  <2>2. CASE ~(c \in XsaveCpus /\ ~Test(cr4[c], CR4_OSXSAVE))
    <3>1. UNCHANGED <<fault, cr4, ran>>
      BY <1>3, <2>2 DEF ExtendedRegisterSize
    <3>2. QED
      BY <1>0, <3>1, XsaveFrame
  <2>3. QED
    BY <2>1, <2>2
<1>4. ASSUME NEW c \in CPUs,
             \/ \E t \in (SUBSET CPUs) \ {{}} : PatSync(c, t)
             \/ \E leaf \in CpuidLeaves : GetCpuidSubleaf(c, leaf, 0)
      PROVE  XsaveIInv'
  <2>1. UNCHANGED <<fault, cr4, ran>>
    BY <1>4 DEF PatSync, GetCpuidSubleaf
  <2>2. QED
    BY <1>0, <2>1, XsaveFrame
<1>5. CASE UNCHANGED vars
  BY <1>0, <1>5, XsaveFrame DEF vars
<1>6. QED
  BY <1>1, <1>2, <1>3, <1>4, <1>5
     DEF Next, MmuEarlyInit, MmuPercpuInit, MmuMemTypeInit, Done

\* On every CPU with XSAVE, in every interleaving of the init routines, once
\* extended_register_init has run the CPU has not faulted (the property the
\* cpu_init run checks on two CPUs), for any number of CPUs and any boot
\* registers in which CR4.OSXSAVE implies XSAVE.
THEOREM XsaveInitNoFaultInvariant == Spec => []XsaveInitNoFault
<1>1. Init => XsaveIInv
  <2> SUFFICES ASSUME Init PROVE XsaveIInv
    OBVIOUS
  <2>1. TypeOK
    BY BootAssumption DEF Init, TypeOK, Msrs, Faults, NoSize, NoSync, Routines,
                          NoCpuid, CpuidLeaf, Word32
  <2>2. QED
    BY <2>1, XsaveCpusAssumption DEF Init, XsaveIInv, XsaveReady
<1>2. XsaveIInv => XsaveInitNoFault
  BY DEF XsaveIInv, XsaveReady, XsaveInitNoFault
<1>3. QED
  BY <1>1, <1>2, XsaveIInvStep, PTL DEF Spec
========================================================================
