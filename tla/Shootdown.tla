------------------------------- MODULE Shootdown -------------------------------
(***************************************************************************)
(* What the TLB routines of sys_x86.c promise the VM layer, stated without *)
(* page-table entries or flush instructions: each CPU may cache the       *)
(* current translation of a page; when the VM layer changes a translation *)
(* every CPU owes an invalidation of that page (spec section 5: the TLB   *)
(* is per CPU, cross-CPU invalidation is the caller's IPI); and a flush   *)
(* drops the entries of the pages it names, "Flush entire TLB" for        *)
(* tlb_flush_global (comment, line 352) and one page for tlb_flush_one.   *)
(*                                                                         *)
(* MmuTlb implements this specification with the translator's page walk  *)
(* as the translation and the real instructions as the flushes.           *)
(***************************************************************************)
CONSTANTS
    CPUs,       \* the CPUs, each with its own TLB
    VAddrs,     \* the pages
    Ptes        \* the translations a page can have ({}: none)

VARIABLES
    pte,        \* pte[v]: the current translation of v
    tlb,        \* tlb[c][v]: the translation CPU c caches for v, {} for none
    pending     \* pending[c]: pages changed and not yet invalidated on c

vars == <<pte, tlb, pending>>

TypeOK ==
    /\ pte \in [VAddrs -> Ptes]
    /\ tlb \in [CPUs -> [VAddrs -> Ptes]]
    /\ pending \in [CPUs -> SUBSET VAddrs]

Init ==
    /\ pte = [v \in VAddrs |-> {}]
    /\ tlb = [c \in CPUs |-> [v \in VAddrs |-> {}]]
    /\ pending = [c \in CPUs |-> {}]

\* CPU c caches the translation of a mapped page.
Cache(c, v) ==
    /\ pte[v] # {}
    /\ tlb' = [tlb EXCEPT ![c][v] = pte[v]]
    /\ UNCHANGED <<pte, pending>>

\* The VM layer gives v a new translation; every CPU owes an invalidation.
Remap(v, e) ==
    /\ pte' = [pte EXCEPT ![v] = e]
    /\ pending' = [c \in CPUs |-> pending[c] \cup {v}]
    /\ UNCHANGED tlb

\* CPU c drops its entries for the pages S and owes them no more.
Invalidate(c, S) ==
    /\ tlb' = [tlb EXCEPT ![c] = [v \in VAddrs |-> IF v \in S THEN {} ELSE @[v]]]
    /\ pending' = [pending EXCEPT ![c] = @ \ S]
    /\ UNCHANGED pte

Next ==
    \/ \E c \in CPUs, v \in VAddrs : Cache(c, v)
    \/ \E v \in VAddrs, e \in Ptes : Remap(v, e)
    \/ \E c \in CPUs, S \in SUBSET VAddrs : Invalidate(c, S)

Spec == Init /\ [][Next]_vars

\* Once CPU c has invalidated a page after its last change, whatever c
\* caches for it is its current translation.
Coherent ==
    \A c \in CPUs, v \in VAddrs :
        v \notin pending[c] /\ tlb[c][v] # {} => tlb[c][v] = pte[v]
================================================================================
