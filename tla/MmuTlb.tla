--------------------------------- MODULE MmuTlb ---------------------------------
(***************************************************************************)
(* The host translator, the page walk, the per-CPU TLBs and the CPUs'     *)
(* interrupt state together.                                               *)
(*                                                                         *)
(* The VM layer changes mappings through the host translator (PageTable   *)
(* with Arch "mmu") and then owes every CPU a shootdown of the page.  The *)
(* walk of each CPU fills its TLB with what the entries grant, plus the    *)
(* G bit of the leaf.  The shootdown IPI runs tlb_flush_one or            *)
(* tlb_flush_global (Tlb) on the CPU that takes it, and a CPU takes an    *)
(* interrupt only with IF set and while it is not halted for good.  The   *)
(* instructions around that are cli, sti and hlt (lines 50-60), halt       *)
(* (278-280) and the halt IPI's handler (380-385).  A user copy (368-375) *)
(* is a memcpy through the CPU's translation.                              *)
(*                                                                         *)
(* The translation Walked(v) is the pte of Tlb and of the abstract         *)
(* specification Shootdown, which this module implements.                  *)
(***************************************************************************)
EXTENDS Integers, X86Word

CONSTANTS
    CPUs,       \* the CPUs, each with its own TLB and interrupt flag
    VAddrs,     \* virtual addresses the VM layer maps (uint64_t words)
    Requests    \* portable flag words the VM layer passes

ASSUME VAddrsAssumption == VAddrs \subseteq Word
ASSUME RequestsAssumption == Requests \subseteq Word32

VARIABLES
    pt, leaf, asked,    \* the page tables and the VM layer's view, as in PageTable
    tlb,        \* tlb[c][v]: the translation CPU c caches for v, {} for none
    pending,    \* pending[c]: pages changed and not yet shot down on c
    intr,       \* intr[c]: the IF flag of CPU c
    cpu         \* cpu[c]: "running", "sleeping" (in hlt), "halted" (for good)
                \* or "oops" (died in an unhandled page fault)

vars == <<pt, leaf, asked, tlb, pending, intr, cpu>>
cpuVars == <<tlb, intr, cpu>>

PT == INSTANCE PageTable WITH Arch <- "mmu"

\* The walk of v ends at a leaf with G (bit 8, used only in a leaf).
GlobalLeaf(v) ==
    \E l \in PT!Visited(v) :
        /\ l = 0 \/ l - 1 \notin PT!Visited(v)
        /\ Test(pt[v][l], X86_MMU_PG_G)

\* The translation the walk of v yields: the rights it grants, and G.
Walked(v) ==
    IF PT!Translates(v)
    THEN PT!Access(v) \cup SetIf(GlobalLeaf(v), X86_MMU_PG_G)
    ELSE {}

Translation == [v \in VAddrs |-> Walked(v)]
WalkedWords == SUBSET {0, 1, 2, 8}

L == INSTANCE Tlb WITH pte <- Translation, Ptes <- WalkedWords,
                       ShootdownBy <- "global"
A == INSTANCE Shootdown WITH pte <- Translation, Ptes <- WalkedWords

CpuStates == {"running", "sleeping", "halted", "oops"}

TypeOK ==
    /\ PT!TypeOK
    /\ tlb \in [CPUs -> [VAddrs -> WalkedWords]]
    /\ pending \in [CPUs -> SUBSET VAddrs]
    /\ intr \in [CPUs -> BOOLEAN]
    /\ cpu \in [CPUs -> CpuStates]

Init ==
    /\ PT!Init
    /\ tlb = [c \in CPUs |-> [v \in VAddrs |-> {}]]
    /\ pending = [c \in CPUs |-> {}]
    /\ intr = [c \in CPUs |-> TRUE]
    /\ cpu = [c \in CPUs |-> "running"]

(* ---------------- the VM layer ---------------- *)

\* Having changed the entries of v, the VM layer owes a shootdown of v on
\* every CPU (spec section 5).
ShootdownOwed(v) == pending' = [c \in CPUs |-> pending[c] \cup {v}]

VmMap(v, l, f) == PT!Map(v, l, f) /\ ShootdownOwed(v) /\ UNCHANGED cpuVars
VmProtect(v, f) == PT!Protect(v, f) /\ ShootdownOwed(v) /\ UNCHANGED cpuVars
VmUnmap(v) == PT!Unmap(v) /\ ShootdownOwed(v) /\ UNCHANGED cpuVars
VmSplit(v) == PT!Split(v) /\ ShootdownOwed(v) /\ UNCHANGED cpuVars

(* ---------------- the CPUs ---------------- *)

\* The walk of a running CPU caches the translation of v.
HwFill(c, v) ==
    /\ cpu[c] = "running"
    /\ PT!Translates(v)
    /\ tlb' = [tlb EXCEPT ![c][v] = Walked(v)]
    /\ UNCHANGED <<pt, leaf, asked, pending, intr, cpu>>

\* cli / sti: clear or set IF, at the running kernel's discretion.
Cli(c) ==
    /\ cpu[c] = "running"
    /\ intr' = [intr EXCEPT ![c] = FALSE]
    /\ UNCHANGED <<pt, leaf, asked, tlb, pending, cpu>>

Sti(c) ==
    /\ cpu[c] = "running"
    /\ intr' = [intr EXCEPT ![c] = TRUE]
    /\ UNCHANGED <<pt, leaf, asked, tlb, pending, cpu>>

\* hlt: sleep until the next interrupt; with IF clear none is taken, and
\* the CPU stays halted.
Hlt(c) == cpu' = [cpu EXCEPT ![c] = IF intr[c] THEN "sleeping" ELSE "halted"]

\* sys_x86_halt(): one hlt.
SysX86Halt(c) ==
    /\ cpu[c] = "running"
    /\ Hlt(c)
    /\ UNCHANGED <<pt, leaf, asked, tlb, pending, intr>>

\* An interrupt is taken by a CPU with IF set that is running or asleep in
\* hlt; after the handler, hlt returns and the CPU runs on.
TakesInterrupt(c) == intr[c] /\ cpu[c] \in {"running", "sleeping"}

\* The shootdown IPI's handler runs one of the TLB routines on CPU c.
ShootdownIpi(c) ==
    /\ TakesInterrupt(c)
    /\ UNCHANGED <<pt, leaf, asked, intr>>
    /\ \/ \E v \in VAddrs : L!TlbFlushOne(c, v)
       \/ L!TlbFlushGlobal(c)
    /\ cpu' = [cpu EXCEPT ![c] = "running"]

\* sys_x86_ipi_halt_handler(): cli, then hlt forever.
IpiHaltHandler(c) ==
    /\ TakesInterrupt(c)
    /\ intr' = [intr EXCEPT ![c] = FALSE]
    /\ cpu' = [cpu EXCEPT ![c] = "halted"]
    /\ UNCHANGED <<pt, leaf, asked, tlb, pending>>

\* The rights a kernel-mode memcpy needs on the page: read for a copy from
\* user, write too for a copy to user (CR0.WP is set by mmu_early_init; no
\* CR4 write of this file sets SMAP, so U is not checked).
Needed(d) == IF d = "to" THEN {0, 1} ELSE {0}

\* The translation CPU c uses for v: its TLB entry, or else a fresh walk.
Used(c, v) == IF tlb[c][v] # {} THEN tlb[c][v] ELSE Walked(v)

\* sys_x86_copy_to_or_from_user(): a memcpy.  It goes through when the
\* translation grants the rights (a miss fills the TLB).  Otherwise the
\* page fault finds no recovery address, since fault_return is dropped,
\* and the CPU dies in the fault.
CopyToOrFromUser(c, v, d) ==
    /\ cpu[c] = "running"
    /\ \/ /\ Needed(d) \subseteq Used(c, v)
          /\ tlb' = [tlb EXCEPT ![c][v] = Used(c, v)]
          /\ UNCHANGED cpu
       \/ /\ ~(Needed(d) \subseteq Used(c, v))
          /\ cpu' = [cpu EXCEPT ![c] = "oops"]
          /\ UNCHANGED tlb
    /\ UNCHANGED <<pt, leaf, asked, pending, intr>>

Next ==
    \/ \E v \in VAddrs :
          \/ \E l \in PT!Levels, f \in Requests : VmMap(v, l, f)
          \/ \E f \in Requests : VmProtect(v, f)
          \/ VmUnmap(v)
          \/ VmSplit(v)
    \/ \E c \in CPUs :
          \/ Cli(c) \/ Sti(c) \/ SysX86Halt(c)
          \/ ShootdownIpi(c) \/ IpiHaltHandler(c)
          \/ \E v \in VAddrs :
                \/ HwFill(c, v)
                \/ \E d \in {"to", "from"} : CopyToOrFromUser(c, v, d)

Spec == Init /\ [][Next]_vars

(***************************************************************************)
(* Properties.                                                             *)
(***************************************************************************)

\* The walk of the host translator's entries never grants more than the
\* VM layer's last call asked, whatever the CPUs do meanwhile.
WalkNeverExceedsRequest == PT!WalkNeverExceedsRequest

\* The page walk over the translator's entries, with the flushes that the
\* shootdown runs, implements the abstract TLB contract: every fill caches
\* the current translation, and a tlb_flush_global is the "Flush entire
\* TLB" its comment promises (line 352), since no entry the host
\* translator writes has G.
ShootdownSpec == A!Spec

\* A user copy whose page is not accessible returns to its caller with a
\* negative status (spec 6: "returning the byte count on success or a
\* negative status on fault"); no CPU dies in one.
UserCopyReturns == \A c \in CPUs : cpu[c] # "oops"
================================================================================
