----------------------------- MODULE ShootdownProofs -----------------------------
(***************************************************************************)
(* The abstract TLB contract keeps every CPU coherent with the current    *)
(* translations once it has invalidated them.                              *)
(***************************************************************************)
EXTENDS Shootdown, TLAPS

IInv == TypeOK /\ Coherent

LEMMA IInvInit ==
    ASSUME {} \in Ptes
    PROVE  Init => IInv
BY DEF Init, IInv, TypeOK, Coherent

\* A cache copies the current translation, a remap makes the page owed on
\* every CPU, and an invalidation empties the entries it stops owing.
LEMMA IInvStep ==
    ASSUME {} \in Ptes
    PROVE  IInv /\ [Next]_vars => IInv'
<1> SUFFICES ASSUME IInv, [Next]_vars PROVE IInv'
  OBVIOUS
<1> USE DEF IInv, TypeOK
<1>1. ASSUME NEW c \in CPUs, NEW v \in VAddrs, Cache(c, v) PROVE IInv'
  BY <1>1 DEF Cache, Coherent
<1>2. ASSUME NEW v \in VAddrs, NEW e \in Ptes, Remap(v, e) PROVE IInv'
  BY <1>2 DEF Remap, Coherent
<1>3. ASSUME NEW c \in CPUs, NEW S \in SUBSET VAddrs, Invalidate(c, S) PROVE IInv'
  <2>1. tlb' \in [CPUs -> [VAddrs -> Ptes]]
    BY <1>3 DEF Invalidate
  <2>2. pending' \in [CPUs -> SUBSET VAddrs]
    BY <1>3 DEF Invalidate
  <2>3. Coherent'
    BY <1>3 DEF Invalidate, Coherent
  <2>4. QED
    BY <1>3, <2>1, <2>2, <2>3 DEF Invalidate
<1>4. CASE UNCHANGED vars
  BY <1>4 DEF vars, Coherent
<1>5. QED
  BY <1>1, <1>2, <1>3, <1>4 DEF Next

\* For any CPUs, pages and translations, a CPU that has invalidated a page
\* since its last change caches nothing but its current translation.
LEMMA CoherentInvariant ==
    ASSUME {} \in Ptes
    PROVE  Spec => []Coherent
<1>1. IInv => Coherent
  BY DEF IInv
<1>2. QED
  BY <1>1, IInvInit, IInvStep, PTL DEF Spec
================================================================================
