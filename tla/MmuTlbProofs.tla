------------------------------- MODULE MmuTlbProofs -------------------------------
(***************************************************************************)
(* Proofs about the composition of the host translator, the page walk and *)
(* the TLBs: its page-table part behaves as PageTable does, no entry and  *)
(* no TLB entry ever has G, and it implements the abstract TLB contract    *)
(* Shootdown, whose coherence then carries over.                           *)
(***************************************************************************)
EXTENDS MmuTlb, TLAPS

PTP == INSTANCE PageTableProofs WITH Arch <- "mmu"

(***************************************************************************)
(* The page tables evolve as in PageTable.                                 *)
(***************************************************************************)

\* Each step is a step of PageTable on pt, leaf and asked, or leaves them
\* alone: the CPUs never write page tables.
LEMMA PtStep == [Next]_vars => [PT!Next]_(PT!vars)
<1> SUFFICES ASSUME [Next]_vars PROVE [PT!Next]_(PT!vars)
  OBVIOUS
<1>1. ASSUME NEW v \in VAddrs,
             \/ \E l \in PT!Levels, f \in Requests : VmMap(v, l, f)
             \/ \E f \in Requests : VmProtect(v, f)
             \/ VmUnmap(v)
             \/ VmSplit(v)
      PROVE  PT!Next
  BY <1>1 DEF VmMap, VmProtect, VmUnmap, VmSplit, PT!Next
<1>2. ASSUME NEW c \in CPUs,
             \/ Cli(c) \/ Sti(c) \/ SysX86Halt(c)
             \/ ShootdownIpi(c) \/ IpiHaltHandler(c)
             \/ \E v \in VAddrs :
                   \/ HwFill(c, v)
                   \/ \E d \in {"to", "from"} : CopyToOrFromUser(c, v, d)
      PROVE  UNCHANGED PT!vars
  BY <1>2 DEF Cli, Sti, SysX86Halt, ShootdownIpi, IpiHaltHandler, HwFill,
              CopyToOrFromUser, PT!vars
<1>3. CASE UNCHANGED vars
  BY <1>3 DEF vars, PT!vars
<1>4. QED
  BY <1>1, <1>2, <1>3 DEF Next

\* The composition's behaviours, seen on the page tables, are behaviours
\* of PageTable with the host translator.
LEMMA PtRefinement == Spec => PT!Spec
<1>1. Init => PT!Init
  BY DEF Init
<1>2. QED
  BY <1>1, PtStep, PTL DEF Spec, PT!Spec

\* Whatever the CPUs do, the walk of every address never grants more than
\* the VM layer's last call for it asked: the PageTable theorem, carried
\* over by PtRefinement.
THEOREM WalkNeverExceedsRequestComposed == Spec => []WalkNeverExceedsRequest
<1>0. "mmu" = "mmu"
  OBVIOUS
<1>1. PTP!Spec => []PTP!WalkNeverExceedsRequest
  <2>1. "mmu" = "mmu" => (PTP!Spec => []PTP!WalkNeverExceedsRequest)
    BY VAddrsAssumption, RequestsAssumption, PTP!MmuWalkNeverExceedsRequest
       DEF PTP!Word, Word, PTP!Word32, Word32
  <2>2. QED
    BY <1>0, <2>1
<1>2. PTP!Spec <=> PT!Spec
  <2> USE DEF PTP!TerminalFlags, PT!TerminalFlags, PTP!IntermediateFlags,
              PT!IntermediateFlags, PTP!SupportsPageSize, PT!SupportsPageSize,
              PTP!SplitFlags, PT!SplitFlags, PTP!CheckVaddr, PT!CheckVaddr,
              PTP!AllowedFlags, PT!AllowedFlags, PTP!LeafEntry, PT!LeafEntry,
              PTP!Levels, PT!Levels, PTP!NoLeaf, PT!NoLeaf,
              PTP!MmuTerminalFlags, PT!MmuTerminalFlags, PTP!MmuIntermediateFlags,
              PT!MmuIntermediateFlags, PTP!MmuSupportsPageSize, PT!MmuSupportsPageSize,
              PTP!MmuSplitFlags, PT!MmuSplitFlags, PTP!IsVaddrCanonical,
              PT!IsVaddrCanonical, PTP!SetIf, PT!SetIf, PTP!X86_MMU_PG_PS,
              PT!X86_MMU_PG_PS, PTP!X86_MMU_PG_P, PT!X86_MMU_PG_P,
              PTP!X86_MMU_PG_RW, PT!X86_MMU_PG_RW, PTP!X86_MMU_PG_U,
              PT!X86_MMU_PG_U, PTP!Test, PT!Test, PTP!ShiftRight, PT!ShiftRight
  <2>1. PTP!Init <=> PT!Init
    BY DEF PTP!Init, PT!Init
  <2>2. [PTP!Next]_(PTP!vars) <=> [PT!Next]_(PT!vars)
    BY DEF PTP!vars, PT!vars, PTP!Next, PT!Next, PTP!Map, PT!Map, PTP!Protect, PT!Protect,
           PTP!Unmap, PT!Unmap, PTP!Split, PT!Split
  <2>3. QED
    BY <2>1, <2>2, PTL DEF PTP!Spec, PT!Spec
<1>3. PTP!WalkNeverExceedsRequest <=> WalkNeverExceedsRequest
  BY DEF PTP!WalkNeverExceedsRequest, WalkNeverExceedsRequest,
         PT!WalkNeverExceedsRequest, PTP!Access, PT!Access, PTP!Requested, PT!Requested,
         PTP!Translates, PT!Translates, PTP!Visited, PT!Visited, PTP!Present, PT!Present,
         PTP!IsLeafEntry, PT!IsLeafEntry, PTP!Levels, PT!Levels, PTP!NoLeaf, PT!NoLeaf
<1>4. QED
  BY <1>1, <1>2, <1>3, PtRefinement, PTL

(***************************************************************************)
(* The translation the walk yields.                                        *)
(***************************************************************************)

\* The walk of v reads pt[v] alone.
LEMMA WalkedFrame ==
    ASSUME NEW v \in VAddrs, pt'[v] = pt[v]
    PROVE  Walked(v)' = Walked(v)
BY DEF Walked, GlobalLeaf, PT!Translates, PT!Access, PT!Visited, PT!Present,
       PT!IsLeafEntry

\* A walk that translates grants at least present: level 3 is always read.
LEMMA WalkedPresent ==
    ASSUME NEW v \in VAddrs, PT!Translates(v)
    PROVE  0 \in Walked(v)
<1>1. 3 \in PT!Visited(v)
  BY DEF PT!Visited, PT!Levels
<1>2. \A l \in PT!Visited(v) : 0 \in pt[v][l]
  BY DEF PT!Translates, PT!Present
<1>3. 0 \in PT!Access(v)
  BY <1>1, <1>2 DEF PT!Access
<1>4. QED
  BY <1>3 DEF Walked, SetIf

\* Before any call, nothing translates.
LEMMA WalkedInit ==
    ASSUME Init, NEW v \in VAddrs
    PROVE  Walked(v) = {}
<1>1. 3 \in PT!Visited(v)
  BY DEF PT!Visited, PT!Levels
<1>2. ~PT!Translates(v)
  BY <1>1 DEF Init, PT!Init, PT!Translates, PT!Present, PT!Levels
<1>3. QED
  BY <1>2 DEF Walked

(***************************************************************************)
(* No entry the host translator writes has G (it writes bits 0..7 only),   *)
(* hence no TLB entry has G.                                               *)
(***************************************************************************)
IInv ==
    /\ pt \in [VAddrs -> [PT!Levels -> SUBSET (0..7)]]
    /\ tlb \in [CPUs -> [VAddrs -> SUBSET (0..2)]]
    /\ pending \in [CPUs -> SUBSET VAddrs]

\* Over such entries no walk ends at a global leaf, and the translation is
\* a set of rights.
LEMMA WalkedBits ==
    ASSUME IInv, NEW v \in VAddrs
    PROVE  Walked(v) \subseteq 0..2
<1>1. ~GlobalLeaf(v)
  <2>1. \A l \in PT!Levels : pt[v][l] \subseteq 0..7
    BY DEF IInv
  <2>2. \A l \in PT!Visited(v) : 8 \notin pt[v][l]
    BY <2>1 DEF PT!Visited
  <2>3. QED
    BY <2>2 DEF GlobalLeaf, Test, X86_MMU_PG_G
<1>2. PT!Access(v) \subseteq 0..2
  BY DEF PT!Access
<1>3. QED
  BY <1>1, <1>2 DEF Walked, SetIf

\* The same, one step later.
LEMMA WalkedBitsPrimed ==
    ASSUME IInv', NEW v \in VAddrs
    PROVE  Walked(v)' \subseteq 0..2
<1>1. ~GlobalLeaf(v)'
  <2>1. \A l \in PT!Levels : pt[v][l]' \subseteq 0..7
    BY DEF IInv
  <2>2. \A l \in PT!Visited(v)' : 8 \notin pt[v][l]'
    BY <2>1 DEF PT!Visited
  <2>3. QED
    BY <2>2 DEF GlobalLeaf, Test, X86_MMU_PG_G
<1>2. PT!Access(v)' \subseteq 0..2
  BY DEF PT!Access
<1>3. QED
  BY <1>1, <1>2 DEF Walked, SetIf

LEMMA IInvInit == Init => IInv
BY DEF Init, PT!Init, IInv, PT!Levels

\* The host translator's leaf and intermediate entries use bits 0..7.
LEMMA EntryBits ==
    ASSUME NEW l \in PT!Levels, NEW f
    PROVE  /\ PT!LeafEntry(l, f) \subseteq 0..7
           /\ PT!IntermediateFlags \subseteq 0..7
BY DEF PT!LeafEntry, PT!TerminalFlags, PT!MmuTerminalFlags, PT!IntermediateFlags,
       PT!MmuIntermediateFlags, PT!SetIf, PT!X86_MMU_PG_P, PT!X86_MMU_PG_RW,
       PT!X86_MMU_PG_U, PT!X86_MMU_PG_PS

\* A VM call rewrites the entries of one address within bits 0..7 and owes
\* its shootdown; a CPU step fills or drops TLB entries with translations.
LEMMA IInvStep == IInv /\ [Next]_vars => IInv'
<1> SUFFICES ASSUME IInv, [Next]_vars PROVE IInv'
  OBVIOUS
<1>1. ASSUME NEW v \in VAddrs, NEW l \in PT!Levels, NEW f \in Requests,
             VmMap(v, l, f)
      PROVE  IInv'
  BY <1>1, EntryBits DEF VmMap, PT!Map, ShootdownOwed, cpuVars, IInv, PT!Levels
<1>2. ASSUME NEW v \in VAddrs, NEW f \in Requests, VmProtect(v, f)
      PROVE  IInv'
  <2>1. leaf[v] \in PT!Levels => PT!LeafEntry(leaf[v], f) \subseteq 0..7
    BY EntryBits
  <2>2. QED
    BY <1>2, <2>1 DEF VmProtect, PT!Protect, ShootdownOwed, cpuVars, IInv
<1>3. ASSUME NEW v \in VAddrs, VmUnmap(v) PROVE IInv'
  BY <1>3 DEF VmUnmap, PT!Unmap, ShootdownOwed, cpuVars, IInv
<1>4. ASSUME NEW v \in VAddrs, VmSplit(v) PROVE IInv'
  <2>1. PT!IntermediateFlags \subseteq 0..7
    BY EntryBits DEF PT!Levels
  <2>2. PT!SplitFlags(leaf[v], pt[v][leaf[v]]) \subseteq pt[v][leaf[v]]
    BY DEF PT!SplitFlags, PT!MmuSplitFlags
  <2>3. pt[v][leaf[v]] \subseteq 0..7
    BY <1>4 DEF VmSplit, PT!Split, IInv, PT!Levels
  <2>4. pt' \in [VAddrs -> [PT!Levels -> SUBSET (0..7)]]
    BY <1>4, <2>1, <2>2, <2>3 DEF VmSplit, PT!Split, IInv, PT!Levels
  <2>5. QED
    BY <1>4, <2>4 DEF VmSplit, PT!Split, ShootdownOwed, cpuVars, IInv
<1>5. ASSUME NEW c \in CPUs, NEW v \in VAddrs, HwFill(c, v) PROVE IInv'
  BY <1>5, WalkedBits DEF HwFill, IInv
<1>6. ASSUME NEW c \in CPUs,
             \/ Cli(c) \/ Sti(c) \/ SysX86Halt(c) \/ IpiHaltHandler(c)
      PROVE  IInv'
  BY <1>6 DEF Cli, Sti, SysX86Halt, IpiHaltHandler, IInv
<1>7. ASSUME NEW c \in CPUs, NEW v \in VAddrs, NEW d \in {"to", "from"},
             CopyToOrFromUser(c, v, d)
      PROVE  IInv'
  <2>1. Used(c, v) \subseteq 0..2
    BY WalkedBits DEF Used, IInv
  <2>2. tlb' \in [CPUs -> [VAddrs -> SUBSET (0..2)]]
    <3>1. CASE tlb' = [tlb EXCEPT ![c][v] = Used(c, v)]
      BY <2>1, <3>1 DEF IInv
    <3>2. CASE UNCHANGED tlb
      BY <3>2 DEF IInv
    <3>3. QED
      BY <1>7, <3>1, <3>2 DEF CopyToOrFromUser
  <2>3. QED
    BY <1>7, <2>2 DEF CopyToOrFromUser, IInv
<1>8. ASSUME NEW c \in CPUs, ShootdownIpi(c) PROVE IInv'
  <2>1. CASE \E v \in VAddrs : L!TlbFlushOne(c, v)
    BY <1>8, <2>1 DEF ShootdownIpi, L!TlbFlushOne, L!Invlpg, IInv
  <2>2. CASE L!TlbFlushGlobal(c)
    BY <1>8, <2>2 DEF ShootdownIpi, L!TlbFlushGlobal, IInv
  <2>3. QED
    BY <1>8, <2>1, <2>2 DEF ShootdownIpi
<1>9. CASE UNCHANGED vars
  BY <1>9 DEF vars, IInv
<1>10. QED
  BY <1>1, <1>2, <1>3, <1>4, <1>5, <1>6, <1>7, <1>8, <1>9 DEF Next

(***************************************************************************)
(* The composition implements Shootdown.                                   *)
(***************************************************************************)

\* A step that leaves the page tables alone leaves every translation.
LEMMA TranslationUnchanged ==
    ASSUME UNCHANGED pt
    PROVE  UNCHANGED Translation
<1>1. \A w \in VAddrs : Walked(w)' = Walked(w)
  BY WalkedFrame
<1>2. QED
  BY <1>1 DEF Translation

\* A step that rewrites the entries of v alone changes v's translation
\* alone.
LEMMA TranslationOne ==
    ASSUME IInv, NEW v \in VAddrs, pt' = [pt EXCEPT ![v] = pt'[v]]
    PROVE  Translation' = [Translation EXCEPT ![v] = Walked(v)']
<1>1. \A w \in VAddrs \ {v} : pt'[w] = pt[w]
  BY DEF IInv
<1>2. \A w \in VAddrs \ {v} : Walked(w)' = Walked(w)
  BY <1>1, WalkedFrame
<1>3. QED
  BY <1>2 DEF Translation

\* A VM call is a Remap of its address to the new walk's translation.
LEMMA VmStepMaps ==
    ASSUME IInv, IInv', NEW v \in VAddrs,
           pt' = [pt EXCEPT ![v] = pt'[v]], ShootdownOwed(v), UNCHANGED cpuVars
    PROVE  A!Next
<1>1. Walked(v)' \in WalkedWords
  BY WalkedBitsPrimed DEF WalkedWords
<1>2. A!Remap(v, Walked(v)')
  BY TranslationOne DEF A!Remap, ShootdownOwed, cpuVars
<1>3. QED
  BY <1>1, <1>2 DEF A!Next

\* A fill of a translating walk caches the current translation.
LEMMA FillMaps ==
    ASSUME NEW c \in CPUs, NEW v \in VAddrs, UNCHANGED <<pt, pending>>,
           Walked(v) # {}, tlb' = [tlb EXCEPT ![c][v] = Walked(v)]
    PROVE  A!Next
<1>1. A!Cache(c, v)
  BY TranslationUnchanged DEF A!Cache, Translation
<1>2. QED
  BY <1>1 DEF A!Next

\* Each step of the composition is a step of Shootdown or leaves its
\* variables alone: VM calls remap, fills and user copies cache, the
\* shootdown's flushes invalidate, and the rest touches no TLB.
LEMMA ImplementsStep ==
    IInv /\ IInv' /\ [Next]_vars => [A!Next]_(A!vars)
<1> SUFFICES ASSUME IInv, IInv', [Next]_vars PROVE [A!Next]_(A!vars)
  OBVIOUS
<1>1. ASSUME NEW v \in VAddrs, NEW l \in PT!Levels, NEW f \in Requests,
             VmMap(v, l, f)
      PROVE  A!Next
  BY <1>1, VmStepMaps DEF VmMap, PT!Map, IInv
<1>2. ASSUME NEW v \in VAddrs, NEW f \in Requests, VmProtect(v, f)
      PROVE  A!Next
  BY <1>2, VmStepMaps DEF VmProtect, PT!Protect, IInv
<1>3. ASSUME NEW v \in VAddrs, VmUnmap(v) PROVE A!Next
  BY <1>3, VmStepMaps DEF VmUnmap, PT!Unmap, IInv
<1>4. ASSUME NEW v \in VAddrs, VmSplit(v) PROVE A!Next
  BY <1>4, VmStepMaps DEF VmSplit, PT!Split, IInv
<1>5. ASSUME NEW c \in CPUs, NEW v \in VAddrs, HwFill(c, v) PROVE A!Next
  BY <1>5, WalkedPresent, FillMaps DEF HwFill
<1>6. ASSUME NEW c \in CPUs,
             \/ Cli(c) \/ Sti(c) \/ SysX86Halt(c) \/ IpiHaltHandler(c)
      PROVE  UNCHANGED A!vars
  BY <1>6, TranslationUnchanged DEF Cli, Sti, SysX86Halt, IpiHaltHandler, A!vars
<1>7. ASSUME NEW c \in CPUs, NEW v \in VAddrs, NEW d \in {"to", "from"},
             CopyToOrFromUser(c, v, d)
      PROVE  [A!Next]_(A!vars)
  <2>1. UNCHANGED Translation
    BY <1>7, TranslationUnchanged DEF CopyToOrFromUser
  <2>2. CASE tlb[c][v] # {}
    <3>1. tlb' = tlb
      BY <1>7, <2>2 DEF CopyToOrFromUser, Used, IInv
    <3>2. QED
      BY <1>7, <2>1, <3>1 DEF CopyToOrFromUser, A!vars
  <2>3. CASE tlb[c][v] = {} /\ Needed(d) \subseteq Walked(v)
    <3>1. Walked(v) # {}
      BY <2>3 DEF Needed
    <3>2. tlb' = [tlb EXCEPT ![c][v] = Walked(v)]
      BY <1>7, <2>3 DEF CopyToOrFromUser, Used
    <3>3. QED
      BY <1>7, <3>1, <3>2, FillMaps DEF CopyToOrFromUser
  <2>4. CASE tlb[c][v] = {} /\ ~(Needed(d) \subseteq Walked(v))
    BY <1>7, <2>1, <2>4 DEF CopyToOrFromUser, Used, A!vars
  <2>5. QED
    BY <2>2, <2>3, <2>4
<1>8. ASSUME NEW c \in CPUs, ShootdownIpi(c) PROVE A!Next
  <2>1. UNCHANGED Translation
    BY <1>8, TranslationUnchanged DEF ShootdownIpi
  <2>2. CASE \E v \in VAddrs : L!TlbFlushOne(c, v)
    <3>1. PICK v \in VAddrs : L!TlbFlushOne(c, v)
      BY <2>2
    <3>2. A!Invalidate(c, {v})
      BY <2>1, <3>1 DEF L!TlbFlushOne, L!Invlpg, A!Invalidate, IInv
    <3>3. QED
      BY <3>2 DEF A!Next
  <2>3. CASE L!TlbFlushGlobal(c)
    <3>1. \A v \in VAddrs : ~L!Test(tlb[c][v], L!X86_MMU_PG_G)
      <4>1. \A v \in VAddrs : tlb[c][v] \subseteq 0..2
        BY <1>8 DEF IInv
      <4>2. QED
        BY <4>1 DEF L!Test, L!X86_MMU_PG_G
    <3>2. tlb' = [tlb EXCEPT ![c] = [v \in VAddrs |-> {}]]
      BY <2>3, <3>1 DEF L!TlbFlushGlobal
    <3>3. pending' = [pending EXCEPT ![c] = pending[c] \ VAddrs]
      BY <2>3 DEF L!TlbFlushGlobal, IInv
    <3>4. A!Invalidate(c, VAddrs)
      BY <2>1, <3>2, <3>3 DEF A!Invalidate
    <3>5. QED
      BY <3>4 DEF A!Next
  <2>4. QED
    BY <1>8, <2>2, <2>3 DEF ShootdownIpi
<1>9. CASE UNCHANGED vars
  BY <1>9, TranslationUnchanged DEF vars, A!vars
<1>10. QED
  BY <1>1, <1>2, <1>3, <1>4, <1>5, <1>6, <1>7, <1>8, <1>9 DEF Next

\* ShootdownSpec, checked by the run mmutlb on one page and two CPUs, holds
\* for every set of CPUs, pages and flag words: the page walk over the host
\* translator's entries, with invlpg and the CR3 reload as the shootdown's
\* flushes, implements the abstract TLB contract Shootdown.
THEOREM Implements == Spec => ShootdownSpec
<1>1. Init => A!Init
  BY WalkedInit DEF Init, A!Init, Translation
<1>2. QED
  BY <1>1, IInvInit, IInvStep, ImplementsStep, PTL
     DEF Spec, ShootdownSpec, A!Spec

SP == INSTANCE ShootdownProofs WITH pte <- Translation, Ptes <- WalkedWords

\* Hence, for the real TLBs: once a CPU has run the shootdown's flush for a
\* page changed by the VM layer, it caches nothing for that page but what
\* the walk of the current entries yields (Shootdown's Coherent, carried
\* over by Implements).
THEOREM ShootdownCoherent == Spec => []A!Coherent
<1>1. A!Spec => []A!Coherent
  <2>1. {} \in WalkedWords => (SP!Spec => []SP!Coherent)
    BY SP!CoherentInvariant
  <2>2. SP!Spec <=> A!Spec
    <3>1. SP!Init <=> A!Init
      BY DEF SP!Init, A!Init
    <3>2. [SP!Next]_(SP!vars) <=> [A!Next]_(A!vars)
      BY DEF SP!Next, A!Next, SP!vars, A!vars, SP!Cache, A!Cache, SP!Remap,
             A!Remap, SP!Invalidate, A!Invalidate
    <3>3. QED
      BY <3>1, <3>2, PTL DEF SP!Spec, A!Spec
  <2>3. SP!Coherent <=> A!Coherent
    BY DEF SP!Coherent, A!Coherent
  <2>4. {} \in WalkedWords
    BY DEF WalkedWords
  <2>5. QED
    BY <2>1, <2>2, <2>3, <2>4, PTL
<1>2. QED
  BY <1>1, Implements, PTL DEF ShootdownSpec
================================================================================
