-------------------------------- MODULE TlbProofs --------------------------------
(***************************************************************************)
(* Proofs about the TLB invalidation routines of Tlb.                      *)
(***************************************************************************)
EXTENDS Tlb, TLAPS

\* The condition under which the caller's shootdown is sound: it runs
\* invlpg, or it runs the CR3 reload and no PTE it writes has G.
ShootdownSound ==
    ShootdownBy = "one" \/ \A e \in Ptes : ~Test(e, X86_MMU_PG_G)

IInv == TypeOK /\ TlbCoherent

LEMMA IInvInit == Init => IInv
BY PtesAssumption DEF Init, IInv, TypeOK, TlbCoherent

\* Each step keeps the TLBs coherent with the page table: a fill copies the
\* PTE, a PTE write makes the page pending everywhere, invlpg empties the
\* entry, and the CR3 reload either leaves pending alone or (no G entries
\* under ShootdownSound) empties every entry of its CPU.
LEMMA IInvStep ==
    ASSUME ShootdownSound
    PROVE  IInv /\ [Next]_vars => IInv'
<1> SUFFICES ASSUME IInv, [Next]_vars PROVE IInv'
  OBVIOUS
<1> USE DEF IInv, TypeOK
<1>1. ASSUME NEW c \in CPUs, NEW v \in VAddrs, Fill(c, v) PROVE IInv'
  BY <1>1 DEF Fill, TlbCoherent
<1>2. ASSUME NEW c \in CPUs, NEW v \in VAddrs, TlbFlushOne(c, v) PROVE IInv'
  BY <1>2, PtesAssumption DEF TlbFlushOne, Invlpg, TlbCoherent
<1>3. ASSUME NEW v \in VAddrs, NEW e \in Ptes, SetPte(v, e) PROVE IInv'
  BY <1>3 DEF SetPte, TlbCoherent
<1>4. ASSUME NEW c \in CPUs, TlbFlushGlobal(c) PROVE IInv'
  <2>1. tlb' \in [CPUs -> [VAddrs -> Ptes]]
    BY <1>4, PtesAssumption DEF TlbFlushGlobal
  <2>2. pending' \in [CPUs -> SUBSET VAddrs]
    BY <1>4 DEF TlbFlushGlobal
  <2>3. CASE ShootdownBy = "one"
    BY <1>4, <2>1, <2>2, <2>3 DEF TlbFlushGlobal, TlbCoherent
  <2>4. CASE ShootdownBy # "one"
    <3>1. \A e \in Ptes : ~Test(e, X86_MMU_PG_G)
      BY <2>4 DEF ShootdownSound
    <3>2. \A w \in VAddrs : tlb'[c][w] = {}
      BY <1>4, <3>1 DEF TlbFlushGlobal
    <3>3. \A d \in CPUs \ {c} : tlb'[d] = tlb[d] /\ pending'[d] = pending[d]
      BY <1>4 DEF TlbFlushGlobal
    <3>4. QED
      BY <1>4, <2>1, <2>2, <3>2, <3>3 DEF TlbFlushGlobal, TlbCoherent
  <2>5. QED
    BY <2>3, <2>4
<1>5. CASE UNCHANGED vars
  BY <1>5 DEF vars, TlbCoherent
<1>6. QED
  BY <1>1, <1>2, <1>3, <1>4, <1>5 DEF Next

\* With a shootdown by invlpg, or by the CR3 reload while no PTE has G,
\* every TLB entry of a page the caller has shot down is the page's
\* current PTE, for any number of CPUs and pages and any PTE values.
THEOREM TlbCoherentInvariant ==
    ASSUME ShootdownSound
    PROVE  Spec => []TlbCoherent
<1>1. IInv => TlbCoherent
  BY DEF IInv
<1>2. QED
  BY <1>1, IInvInit, IInvStep, PTL DEF Spec
================================================================================
