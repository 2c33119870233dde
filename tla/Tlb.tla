---------------------------------- MODULE Tlb ----------------------------------
(***************************************************************************)
(* The per-CPU TLB and the two invalidation routines of sys_x86.c (lines  *)
(* 351-360): tlb_flush_global reloads CR3 with its own value, which drops *)
(* every entry of the current CPU but those whose PTE has G (bit 8), and  *)
(* tlb_flush_one issues invlpg, which drops the entry of one page on the  *)
(* current CPU, global or not.                                             *)
(*                                                                         *)
(* Around them: the CPU's page walk fills its TLB from the page table at  *)
(* any moment the entry is present, and the VM layer (spec section 2:     *)
(* "TLB management whenever a mapping changes"; section 5: shootdown is   *)
(* by IPI, each CPU flushing itself) rewrites PTEs and then has every CPU *)
(* flush the page.  pending[c] is the caller's bookkeeping: the pages     *)
(* changed since CPU c last ran the flush the caller counts as the        *)
(* shootdown, tlb_flush_one or tlb_flush_global as ShootdownBy says.      *)
(***************************************************************************)
EXTENDS X86Word

CONSTANTS
    CPUs,           \* the CPUs, each with its own TLB
    VAddrs,         \* pages the caller maps (model values)
    Ptes,           \* PTE flag words the caller writes
    ShootdownBy     \* the flush the caller's shootdown IPI runs: "one" or "global"

ASSUME PtesAssumption == Ptes \subseteq Word /\ {} \in Ptes
ASSUME ShootdownAssumption == ShootdownBy \in {"one", "global"}

VARIABLES
    pte,        \* pte[v]: the page-table entry of page v ({}: not present)
    tlb,        \* tlb[c][v]: the entry CPU c cached for v, {} for none
    pending     \* pending[c]: pages changed and not yet shot down on c

vars == <<pte, tlb, pending>>

TypeOK ==
    /\ pte \in [VAddrs -> Ptes]
    /\ tlb \in [CPUs -> [VAddrs -> Ptes]]
    /\ pending \in [CPUs -> SUBSET VAddrs]

Init ==
    /\ pte = [v \in VAddrs |-> {}]
    /\ tlb = [c \in CPUs |-> [v \in VAddrs |-> {}]]
    /\ pending = [c \in CPUs |-> {}]

\* The page walk of CPU c caches the present entry of v (hardware).
Fill(c, v) ==
    /\ Test(pte[v], X86_MMU_PG_P)
    /\ tlb' = [tlb EXCEPT ![c][v] = pte[v]]
    /\ UNCHANGED <<pte, pending>>

\* The VM layer rewrites the PTE of v; every CPU owes a flush of v.
SetPte(v, e) ==
    /\ pte' = [pte EXCEPT ![v] = e]
    /\ pending' = [c \in CPUs |-> pending[c] \cup {v}]
    /\ UNCHANGED tlb

\* Mutant: the single-page flush done by a CR3 reload (global entries kept).
TlbFlushOneByCr3(c, v) ==
    /\ tlb' = [tlb EXCEPT ![c][v] = IF Test(@, X86_MMU_PG_G) THEN @ ELSE {}]
    /\ pending' = [pending EXCEPT ![c] = @ \ {v}]
    /\ UNCHANGED pte

\* invlpg(addr) (lines 80-82): drops the entry of the page on this CPU,
\* global or not.
Invlpg(c, v) == tlb' = [tlb EXCEPT ![c][v] = {}]

\* sys_x86_tlb_flush_one(vaddr): invlpg of vaddr on this CPU; the caller
\* counts it as done for v.
TlbFlushOne(c, v) ==
    /\ Invlpg(c, v)
    /\ pending' = [pending EXCEPT ![c] = @ \ {v}]
    /\ UNCHANGED pte

\* Mutant: CR3 read and never written back.
TlbFlushGlobalNoReload(c) ==
    /\ pending' = IF ShootdownBy = "global"
                  THEN [pending EXCEPT ![c] = {}] ELSE pending
    /\ UNCHANGED <<pte, tlb>>

\* sys_x86_tlb_flush_global(): mov cr3, cr3 drops the non-global entries of
\* this CPU; a caller whose shootdown runs it counts every page as done.
TlbFlushGlobal(c) ==
    /\ tlb' = [tlb EXCEPT ![c] =
                 [v \in VAddrs |-> IF Test(@[v], X86_MMU_PG_G) THEN @[v] ELSE {}]]
    /\ pending' = IF ShootdownBy = "global"
                  THEN [pending EXCEPT ![c] = {}] ELSE pending
    /\ UNCHANGED pte

Next ==
    \/ \E c \in CPUs, v \in VAddrs : Fill(c, v) \/ TlbFlushOne(c, v)
    \/ \E v \in VAddrs, e \in Ptes : SetPte(v, e)
    \/ \E c \in CPUs : TlbFlushGlobal(c)

Spec == Init /\ [][Next]_vars

(***************************************************************************)
(* Properties.                                                             *)
(***************************************************************************)

\* Once the caller has shot a page down on a CPU, whatever that CPU's TLB
\* holds for the page is the current PTE: no CPU translates through a
\* mapping the VM layer has since changed or removed, whichever CPUs
\* refilled their TLBs between the write and the flushes.  A missing
\* entry is always allowed.
TlbCoherent ==
    \A c \in CPUs, v \in VAddrs :
        v \notin pending[c] /\ tlb[c][v] # {} => tlb[c][v] = pte[v]
================================================================================
