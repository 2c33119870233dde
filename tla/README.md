# Verification of the x86-64 architecture layer (`sys_x86.c`)

This directory models `src/src/kernel/arch/amd64/sys_x86.c` and its header
`sys_x86.h` in TLA+. The parts are checked with TLC on small instances. The
central safety properties are proved with TLAPS for every value of the
constants.

## 1. The system

`sys_x86.c` is the boundary between the portable kernel and the CPU. Its parts
with behaviour are:

| Part | Functions (lines) | State it touches |
|---|---|---|
| Instruction primitives | `cli`, `sti`, `hlt` (50-60), `rdmsr`/`wrmsr` (62-72), `invlpg` (80-82), `get_cpuid_subleaf` (227-238), `halt` (278-280), `rdtsc`, `sfence`, barriers | IF flag and run state, MSRs, TLB, CPUID output |
| Address predicates | `is_vaddr_canonical` (108-112), `mmu_check_paddr` (115-118) | none (pure) |
| Extended registers | `extended_register_init` (176-187), `extended_register_size` (190-215) | CR4, XCR0, the #GP/#UD the instructions raise |
| Memory-attribute init | `mmu_early_init` (302-317), `mmu_percpu_init` (319-336), `mmu_mem_type_init` (636-653), `pat_sync` (655-677) | PAT MSR, MTRR_DEF_TYPE MSR, CR0.WP; per CPU |
| TLB management | `tlb_flush_global` (351-356), `tlb_flush_one` (358-360) | the per-CPU TLB |
| User copy, halt IPI | `copy_to_or_from_user` (366-375), `ipi_halt_handler` (380-385) | memory through the CPU's translation; IF and run state |
| Flag translator | host MMU table (466-510), EPT table (514-559) | none (pure); used by the VM layer to build page tables |
| Collaborator stubs | per-CPU/TSS hooks, AP bring-up, bootstrap16, topology, timers, address-space ops (563-632) | none: they return constants |

How the parts interact:
- The boot code runs the init routines on every CPU. The registers are per
  CPU, so no routine can interleave with another on the same register file.
- Cross-CPU agreement on memory types depends on which routines ran where.
  `pat_sync` is meant to broadcast the PAT.
- The VM layer, whose code is not in this repository, builds page tables
  through the translator table of its MMU (host or EPT). After changing a
  mapping it calls the TLB routines on every CPU, through an IPI collaborator.
- The CPU's page walk reads the entries. Its TLB caches them between flushes.

The hard behaviours are:
- the page walk combining intermediate and terminal encodings;
- demotion of large pages;
- the canonical-address boundary;
- the order in which CPUs run the init routines;
- instructions that fault depending on CPUID and CR4;
- TLB refills racing with PTE writes and shootdowns, and global entries that
  survive a CR3 reload.

## 2. Modules

| Module | Models | State / actions |
|---|---|---|
| `X86Word` | machine words and constants (35-46, 62-72, 103) | a `uint64_t` is the set of its 1-bits (a subset of 0..63). `&`, `\|` and `& ~` become ∩, ∪ and set difference, which is exact for every value. `Low32`, `High32` and `Join64` are the EDX:EAX split of `wrmsr`/`rdmsr`. |
| `PageTableFlags` | both translator tables and the predicates (108-118, 466-559) | one operator per C function, with the same arguments; `level` is ignored where the code ignores it |
| `PageTable` | the translator in use | Variables: `pt[v][l]` (the four entries on the walk path of v), `leaf[v]` (the caller's leaf level) and `asked[v]` (the last portable flags). Actions `Map`, `Protect`, `Unmap` and `Split` are the VM layer's calls (spec-modelled, see below); each calls the table's functions as the spec says. `Access(v)` is the architecture's walk: every entry must grant a right, PS marks a leaf at levels 1 and 2, and presence means P (host) or any of R, W, X (EPT). `Arch` selects the table. |
| `CpuInit` | memory-attribute and extended-register init (176-215, 302-336, 636-677) | Variables: per-CPU `cr0`, `cr4`, `xcr0`, `msr[c][PAT \| MTRR_DEF]` and `fault`, plus the history variables `sizeRet`, `lastSync` and `ran`, and the CPUID output `cpuidOut`/`cpuidRet` of `get_cpuid_subleaf` (leaf 0 returns false and leaves the output alone). One action per routine on one CPU. A refused instruction sets `fault[c]`, and the CPU stops. |
| `Tlb` | TLB routines (351-360) | Variables: `pte[v]`, `tlb[c][v]` and `pending[c]`. `Fill` is the hardware walk caching a present PTE. `SetPte` is the caller's write, which makes the page pending on every CPU. `TlbFlushOne` is invlpg. `TlbFlushGlobal` is the CR3 reload, which keeps G entries. `ShootdownBy` says which flush the caller's shootdown runs. |
| `Shootdown` | what the TLB routines promise (abstract) | Variables: `pte[v]` (the current translation), `tlb[c][v]` and `pending[c]`. `Cache` copies the current translation, `Remap` changes one and owes an invalidation on every CPU, `Invalidate(c, S)` drops the entries of the pages S on CPU c ("Flush entire TLB", line 352, is S = all pages). No instructions, no G bit. |
| `MmuTlb` | the composition: host translator, page walk, TLBs, CPUs | `PT == INSTANCE PageTable WITH Arch <- "mmu"` holds the page tables. The per-CPU TLBs cache `Walked(v)`, the rights of the walk plus the leaf's G bit. `L == INSTANCE Tlb` supplies `TlbFlushOne`/`TlbFlushGlobal` with `pte <- Translation`. Added state: `intr[c]` (IF) and `cpu[c]` (running, sleeping in hlt, halted for good, or dead in a page fault). Actions: the VM calls (each owes a shootdown), `HwFill`, `Cli`, `Sti`, `SysX86Halt`, `ShootdownIpi` (taken only with IF set), `IpiHaltHandler` and `CopyToOrFromUser`. `A == INSTANCE Shootdown WITH pte <- Translation, Ptes <- WalkedWords` is the refinement mapping. |
| `PageTableProofs`, `CpuInitProofs`, `TlbProofs`, `ShootdownProofs`, `MmuTlbProofs` | TLAPS proofs | — |
| `MC_PageTable`, `MC_CpuInit`, `MC_Tlb`, `MC_MmuTlb` | TLC instances | — |

The VM layer is spec-modelled because its code is not in this repository. Its
definitions are marked `spec_modelled` in `PROJECT.json`. Spec 4.5 says what
the layer does:
- A leaf at level L > 0 is `terminal(L, F) | PS`.
- Intermediate entries are `intermediate()`.
- A split replaces the leaf by an intermediate entry and writes
  `split(L, entry)` one level down.

The frame bits of an entry are left out because no property reads them.

## 3. Runs

| Run | Result | What it shows |
|---|---|---|
| `pt_ept_split` | pass | An EPT split keeps access (`SplitPreservesAccess`). |
| `pt_ept_exec` | violation | A mapping asked EXECUTE is never executable through the EPT walk (`ExecuteGranted`). `ept_terminal_flags` ORs 0x1, already part of its R\|W base, where spec Scenario D expects 0x7 (line 539). The R\|W base itself is what spec 4.5 prescribes, so the EPT walk granting read and write to every mapping is not a finding. |
| `pt_mmu_grants` | violation | Host intermediates lack U, so user leaves are unreachable (line 480). |
| `pt_mmu_split` | violation | `mmu_split_flags` clears PS at every level, so a 1 GiB split breaks the 2 MiB children (line 496). |
| `pt_canonical` | violation | `0x0000_8000_0000_0000` passes `is_vaddr_canonical` (line 110). |
| `cpu_init` | pass | `AttributesAgree`, `MtrrEnablesKept` and `XsaveInitNoFault` (an XSAVE CPU that ran `extended_register_init` never faults), over every order and interleaving of the routines on two CPUs. |
| `cpu_gp` | violation | `extended_register_init` raises #GP without XSAVE (line 182). |
| `cpu_ud` | violation | `extended_register_size` raises #UD when called before init (line 204). |
| `cpu_patsync` | violation | `pat_sync` leaves other CPUs' PAT unchanged (line 676). |
| `tlb_one` | pass | A shootdown by invlpg leaves no stale TLB entry, G entries included. |
| `mmutlb` | pass | In the composition, the host walk never grants more than asked (`WalkNeverExceedsRequest`), and the composition refines `Shootdown` (`ShootdownSpec == A!Spec`, checked as a `PROPERTY`). |
| `mmutlb_copy` | violation | A user copy through a page mapped without the rights it needs kills the CPU in the fault instead of returning a negative status (lines 370, 373). |

Each property of a passing run has a mutant in `PROJECT.json`: a plausible bug
in the mapped code that TLC then catches. The mutants are:
- write granted on PRESENT;
- PS cleared in the EPT split;
- the per-CPU PAT write dropped;
- the mask `~0xFFF` in place of `~0xFF`;
- OSXSAVE left out of `extended_register_init`'s CR4 write;
- invlpg replaced by a CR3 reload;
- kernel leaves (USER not asked) made global, which breaks the refinement:
  the CR3 reload then keeps them, and `Invalidate` is no longer matched.

Bounds, and why they are enough:
- **PageTable.**
  - Three addresses: a user address, a kernel (high-half) address and
    `{48}` (non-canonical, rejected).
  - Every portable word over PRESENT/WRITE/USER, plus an unknown bit 3.
  - Each address has its own walk path of four levels. Every leaf level
    0..2, every split chain (2→1→0) and every request combination is
    reached (4096 states).
- **CpuInit.**
  - Two CPUs, one with XSAVE and one without.
  - Boot registers with and without OSXSAVE and AVX.
  - A firmware PAT that differs from the default.
  - MTRR_DEF with and without the enable bits.
  - Every order of the routines on both CPUs is explored (about 150 000
    states).
  - `CHECK_DEADLOCK FALSE` because a CPU that faulted stops, and so may all
    of them.
- **Tlb.**
  - Two CPUs and two pages, with symmetry over both.
  - PTEs absent, read-only, writable and writable-global.
  - A stale entry needs one write, one refill and one flush, so this
    instance holds every race of two CPUs on a page.
- **MmuTlb.**
  - Two CPUs with symmetry, one page (`0x0000_7FFF_FFFF_F000`, the top user
    page), the requests none, P, P|W, P|W|U and an unknown bit 3.
  - Checking the refinement property explores every TLB, IF flag and CPU
    state together with the walk (about 18 000 states, one minute). Two
    pages did not finish within half an hour. Pages interact only through
    the CR3 reload, which drops all of them at once, and the proofs cover
    every number of pages and CPUs.

Two checks are left out of the runs on purpose, because the spec accepts
the behaviour:
- **A shootdown by CR3 reload with G entries present.** It violates
  `TlbCoherent`, and TLC finds a three-step trace. Spec 4.4 states that G
  entries survive `tlb_flush_global`, despite the function's comment "Flush
  entire TLB". The TLB theorem therefore carries the hypothesis
  `ShootdownSound`.
- **The XSAVE size.** `extended_register_size` returns 512 or 768, which
  leaves out the 64-byte XSAVE header. Spec 4.2 and Scenario E ask for
  exactly that sum. It is recorded as a hazard for callers that size buffers
  from it.

No liveness is claimed. Every routine is a bounded instruction sequence, and
the spec states no progress obligation, so no fairness is assumed. In the
composition, the obvious liveness property (every owed shootdown is
eventually done) has no justified fairness. A CPU takes the IPI only while
its IF flag is set, and the kernel may keep it clear. After
`ipi_halt_handler` a CPU never takes one again. The IPI sender's
wait-for-acknowledgement is the caller's, and is not in this repository.

## 4. Proofs

The theorems below are proved for every value of the constants, under the
`ASSUME`s of the modules. Those say the words are words, the CPU set is
`0..NCpus-1` with `NCpus ≥ 1`, and the boot values are uniform across CPUs
and non-empty.

- **`PageTableProofs`**
  - `MmuRoundTrip`: decoding a host terminal encoding gives back the portable
    bits (spec 8.3).
  - `TypeCorrect`.
  - `ShapeInvariant`, for the inductive invariant `IInv`.
  - `MmuWalkNeverExceedsRequest`: `Spec => []WalkNeverExceedsRequest` on the
    host MMU.
  - `WalkNeverExceedsRequest` is not inductive by itself, because a walk reads
    entries that no single step relates. `IInv` adds `Shape(v)`:
    - levels above the leaf are intermediates;
    - levels below it are zero;
    - the leaf's P/RW/U bits are `terminal(asked)`.
  - Access is then bounded by the leaf's bits.
  - `EptSplitPreservesAccess`: `Spec => SplitPreservesAccess` with the EPT
    translator. `IInv` is not enough: it also needs `LeafHasPs`, which says
    every large leaf (level 1 or 2) carries PS, so the walk stops there.
    `EptIInv == IInv /\ \A v : LeafHasPs(v)` is inductive on EPT, because
    the EPT split copies the entry whole, PS included, one level down. It is
    not inductive on the host MMU, whose split clears PS; that is the
    `pt_mmu_split` finding. The argument is in `EptWalkOfLeaf`: when the
    levels above L are intermediates and level L is a leaf, the walk grants
    the leaf's R/W/X bits if it is present and nothing otherwise. The split
    moves that leaf down and keeps its bits.
  - `CanonicalAccepted` and `NonCanonicalAccepted` are about
    `is_vaddr_canonical` for all 64-bit words:
    - every 48-bit canonical address passes;
    - `{47}` (0x0000_8000_0000_0000) also passes and is not canonical.
    `IsVaddrCanonicalBits` characterises the check: it accepts exactly the
    words whose bits 48-63 are all clear or all set, and it ignores bit 47.
- **`CpuInitProofs`**
  - `TypeCorrect`.
  - `AttributesAgreeInvariant`, through `IInv == TypeOK /\ MtrrShape /\ PatShape`:
    - every CPU's MTRR_DEF is the firmware value d, or `MtrrAfter(d)` once
      it ran `mem_type_init`, whose rewrite is idempotent;
    - every CPU that ran early or per-CPU init has the default PAT.
  - `MtrrEnablesKeptTheorem`, an action property proved from `TypeOK`.
  - `XsaveInitNoFaultInvariant`: `Spec => []XsaveInitNoFault`. The
    strengthening `XsaveReady` adds that an XSAVE CPU which ran
    `extended_register_init` still has CR4.OSXSAVE set. No routine clears
    it, so `extended_register_size` never takes its #UD branch there. This
    rests on the boot assumption of `Init` that OSXSAVE is set only on
    XSAVE CPUs, because the bit is reserved elsewhere. The #UD of `cpu_ud`
    is therefore an ordering hazard only.
  - Lemmas: `JoinSplit` (joining the EDX:EAX halves of any word gives it back)
    and `MsrWrites`.
- **`ShootdownProofs`**
  - Lemma `CoherentInvariant`: in the abstract contract, `TypeOK /\ Coherent`
    is inductive (given `{} \in Ptes`), so `Spec => []Coherent`. It is about
    the contract alone and says nothing of the code by itself. It is a step
    towards `ShootdownCoherent` below.
- **`MmuTlbProofs`**
  - Lemma `PtRefinement`: `Spec => PT!Spec`. It holds by construction,
    because no CPU action writes page tables. It only serves to carry
    `PageTable`'s results over to the composition.
  - `WalkNeverExceedsRequestComposed`: `Spec => []WalkNeverExceedsRequest`,
    which is `MmuWalkNeverExceedsRequest` carried over by `PtRefinement`.
    It needs `MmuTlb`'s assumptions on `VAddrs` and `Requests`, which are
    those of `PageTable`.
  - `Implements`: `Spec => ShootdownSpec`. The inductive invariant `IInv`
    says that every entry lies in bits 0..7 (so no leaf has G) and every TLB
    entry in bits 0..2. Given that:
    - a VM call is `Remap` of its page to the new walk's translation
      (`TranslationOne`: the walk of v reads only `pt[v]`);
    - a fill, or a user copy on a TLB miss, is `Cache` (a translating walk
      grants at least P);
    - invlpg is `Invalidate(c, {v})`;
    - the CR3 reload is `Invalidate(c, VAddrs)`, because no cached entry has G;
    - cli, sti, hlt, the halt IPI and a failed copy are stutters.
  - `ShootdownCoherent`: `Spec => []A!Coherent`, which is `CoherentInvariant`
    carried over by `Implements`.
- **`TlbProofs`**
  - `TlbCoherentInvariant`: under `ShootdownSound` (invlpg shootdown, or no
    PTE with G), `Spec => []TlbCoherent`.
  - `TypeOK /\ TlbCoherent` is inductive.

Only model-checked:
- all the violations;
- the behaviour over specific boot values.

TLAPS cannot reason about liveness or `ENABLED`. It also cannot prove facts
about recursive definitions by induction over data. Neither occurs here.

## 5. Not modelled

- Collaborator stubs and the address-space operations: they return constants
  and change no state.
- Timers, TSS and the APIC ID mapping.
- `rdtsc`, the fences, `pause`, `serialize` and `kernel_cr3`: they read or
  order hardware state that this file never keeps.
- Interrupts between the read and the write of CR0/CR4 (lines 314-316,
  179-183): nothing in this file writes those registers from a handler.
- MTRR changes without the cache-disable protocol, and the large-page PAT bit
  (bit 12) on splits: caches and memory types of leaves are outside the model.

## 6. Plan for the next steps

1. An abstract specification of a page mapping (a function from addresses to
   granted rights), with `PageTable` (EPT variant) shown to refine it through
   `Access`.
2. Memory types: PAT index bits in leaves, the PAT bit move on split, and
   agreement of the effective type across CPUs.
