---------------------------- MODULE PageTableProofs ----------------------------
(***************************************************************************)
(* Proofs about the translator and the page tables built with it.         *)
(***************************************************************************)
EXTENDS PageTable, TLAPS

(***************************************************************************)
(* The shape the caller's four calls keep each walk path in: entries above *)
(* the leaf are intermediate, entries below it are zero, and the leaf      *)
(* holds the translator's terminal flags of the last request (PS and the  *)
(* split only touch bit 7).  An unmapped path has only zero and           *)
(* intermediate entries and a zero level-0 entry.                         *)
(***************************************************************************)
Shape(v) ==
    IF leaf[v] = NoLeaf
    THEN /\ \A l \in Levels : pt[v][l] \in {{}, IntermediateFlags}
         /\ pt[v][0] = {}
    ELSE /\ \A l \in Levels : l > leaf[v] => pt[v][l] = IntermediateFlags
         /\ \A l \in Levels : l < leaf[v] => pt[v][l] = {}
         /\ pt[v][leaf[v]] \cap {0, 1, 2}
              = TerminalFlags(leaf[v], asked[v]) \cap {0, 1, 2}

IInv == TypeOK /\ \A v \in VAddrs : Shape(v)

\* A large leaf carries PS, so the walk stops at it.  The EPT split copies
\* the entry whole (PS included) one level down; the host split clears PS.
LeafHasPs(v) == leaf[v] \in {1, 2} => 7 \in pt[v][leaf[v]]

EptIInv == IInv /\ \A v \in VAddrs : LeafHasPs(v)

(***************************************************************************)
(* Lemmas about the translator operators.                                  *)
(***************************************************************************)

\* The host terminal encoding keeps exactly the three portable bits
\* (P, RW, U sit at the positions of PRESENT, WRITE, USER).
LEMMA MmuTerminalBits ==
    ASSUME NEW l, NEW f
    PROVE  MmuTerminalFlags(l, f) = f \cap {0, 1, 2}
BY DEF MmuTerminalFlags, SetIf, Test, X86_MMU_PG_P, X86_MMU_PG_RW, X86_MMU_PG_U

\* Spec 8.3, for every portable word and level: decoding the host terminal
\* encoding gives back the portable bits the translator understands.
THEOREM MmuRoundTrip ==
    ASSUME NEW l, NEW f
    PROVE  MmuPtFlagsToMmuFlags(MmuTerminalFlags(l, f), l) = f \cap {0, 1, 2}
BY MmuTerminalBits
   DEF MmuPtFlagsToMmuFlags, SetIf, Test, X86_MMU_PG_P, X86_MMU_PG_RW, X86_MMU_PG_U

\* Either table's terminal and intermediate flags lie in bits 0..2.
LEMMA EncodingsSmall ==
    ASSUME NEW l, NEW f
    PROVE  /\ TerminalFlags(l, f) \subseteq {0, 1, 2}
           /\ IntermediateFlags \subseteq {0, 1, 2}
BY MmuTerminalBits
   DEF TerminalFlags, IntermediateFlags, EptTerminalFlags, SetIf,
       MmuIntermediateFlags, EptIntermediateFlags, X86_MMU_PG_P, X86_MMU_PG_RW

\* A leaf entry is a word whose bits 0..2 are the terminal flags.
LEMMA LeafEntryFacts ==
    ASSUME NEW l \in Int, NEW f
    PROVE  /\ LeafEntry(l, f) \in Word
           /\ LeafEntry(l, f) \cap {0, 1, 2} = TerminalFlags(l, f) \cap {0, 1, 2}
BY EncodingsSmall DEF LeafEntry, SetIf, X86_MMU_PG_PS, Word

\* Splitting only removes bits, and never one of bits 0..2.
LEMMA SplitFacts ==
    ASSUME NEW l, NEW e
    PROVE  /\ SplitFlags(l, e) \subseteq e
           /\ SplitFlags(l, e) \cap {0, 1, 2} = e \cap {0, 1, 2}
BY DEF SplitFlags, MmuSplitFlags, EptSplitFlags, X86_MMU_PG_PS

(***************************************************************************)
(* Type correctness.                                                       *)
(***************************************************************************)

LEMMA TypeStep == TypeOK /\ [Next]_vars => TypeOK'
<1> SUFFICES ASSUME TypeOK, [Next]_vars PROVE TypeOK'
  OBVIOUS
<1>1. ASSUME NEW v \in VAddrs, NEW l \in Levels, NEW f \in Requests,
             Map(v, l, f)
      PROVE  TypeOK'
  <2>1. LeafEntry(l, f) \in Word /\ IntermediateFlags \in Word
    BY LeafEntryFacts, EncodingsSmall DEF Levels, Word
  <2>2. {} \in Word
    BY DEF Word
  <2>3. [k \in Levels |-> IF k > l THEN IntermediateFlags
                           ELSE IF k = l THEN LeafEntry(l, f) ELSE {}]
          \in [Levels -> Word]
    BY <2>1, <2>2
  <2>4. pt' \in [VAddrs -> [Levels -> Word]]
    BY <1>1, <2>3 DEF Map, TypeOK
  <2>5. QED
    BY <1>1, <2>4, RequestsAssumption
       DEF Map, TypeOK, Levels, NoLeaf, SupportsPageSize, MmuSupportsPageSize,
           EptSupportsPageSize
<1>2. ASSUME NEW v \in VAddrs, NEW f \in Requests, Protect(v, f)
      PROVE  TypeOK'
  <2>1. leaf[v] \in 0..2
    BY <1>2 DEF Protect, TypeOK, NoLeaf
  <2>2. LeafEntry(leaf[v], f) \in Word
    BY <2>1, LeafEntryFacts
  <2>3. QED
    BY <1>2, <2>1, <2>2, RequestsAssumption DEF Protect, TypeOK, Levels
<1>3. ASSUME NEW v \in VAddrs, Unmap(v)
      PROVE  TypeOK'
  BY <1>3 DEF Unmap, TypeOK, Levels, NoLeaf, Word
<1>4. ASSUME NEW v \in VAddrs, Split(v)
      PROVE  TypeOK'
  <2>1. SplitFlags(leaf[v], pt[v][leaf[v]]) \in Word
    BY <1>4, SplitFacts DEF Split, TypeOK, Levels, Word
  <2>2. IntermediateFlags \in Word
    BY EncodingsSmall DEF Word
  <2>3. QED
    BY <1>4, <2>1, <2>2 DEF Split, TypeOK, Levels, NoLeaf
<1>5. CASE UNCHANGED vars
  BY <1>5 DEF vars, TypeOK
<1>6. QED
  BY <1>1, <1>2, <1>3, <1>4, <1>5 DEF Next

THEOREM TypeCorrect == Spec => []TypeOK
<1>1. Init => TypeOK
  BY DEF Init, TypeOK, Word, Word32, NoLeaf
<1>2. QED
  BY <1>1, TypeStep, PTL DEF Spec

(***************************************************************************)
(* The walk-path shape is inductive.                                      *)
(***************************************************************************)

\* Neither translator's terminal flags depend on the level.
LEMMA TerminalLevelFree ==
    ASSUME NEW l1, NEW l2, NEW f
    PROVE  TerminalFlags(l1, f) = TerminalFlags(l2, f)
BY DEF TerminalFlags, MmuTerminalFlags, EptTerminalFlags

\* A step that leaves v's entries, leaf and request alone keeps its shape.
LEMMA ShapeFrame ==
    ASSUME NEW v, Shape(v),
           pt'[v] = pt[v], leaf'[v] = leaf[v], asked'[v] = asked[v]
    PROVE  Shape(v)'
BY DEF Shape

LEMMA IInvInit == Init => IInv
BY DEF Init, IInv, TypeOK, Shape, Word, Word32, NoLeaf, Levels

LEMMA IInvStep == IInv /\ [Next]_vars => IInv'
<1> SUFFICES ASSUME IInv, [Next]_vars PROVE IInv'
  OBVIOUS
<1>0. TypeOK'
  BY TypeStep DEF IInv
<1> USE DEF IInv
<1>2. ASSUME NEW v \in VAddrs, NEW l \in Levels, NEW f \in Requests,
             Map(v, l, f)
      PROVE  IInv'
  <2>1. Shape(v)'
    <3>1. l \in 0..2
      BY <1>2 DEF Map, SupportsPageSize, MmuSupportsPageSize,
                   EptSupportsPageSize, Levels
    <3>2. LeafEntry(l, f) \cap {0, 1, 2} = TerminalFlags(l, f) \cap {0, 1, 2}
      BY <3>1, LeafEntryFacts
    <3>3. QED
      BY <1>2, <3>1, <3>2 DEF Map, Shape, TypeOK, NoLeaf, Levels
  <2>2. ASSUME NEW w \in VAddrs, w # v PROVE Shape(w)'
    BY <1>2, <2>2, ShapeFrame DEF Map, TypeOK
  <2>3. QED
    BY <2>1, <2>2, <1>0
<1>3. ASSUME NEW v \in VAddrs, NEW f \in Requests, Protect(v, f)
      PROVE  IInv'
  <2>1. Shape(v)'
    <3>1. leaf[v] \in 0..2
      BY <1>3 DEF Protect, TypeOK, NoLeaf
    <3>2. LeafEntry(leaf[v], f) \cap {0, 1, 2}
            = TerminalFlags(leaf[v], f) \cap {0, 1, 2}
      BY <3>1, LeafEntryFacts
    <3>3. QED
      BY <1>3, <3>1, <3>2 DEF Protect, Shape, TypeOK, NoLeaf, Levels
  <2>2. ASSUME NEW w \in VAddrs, w # v PROVE Shape(w)'
    BY <1>3, <2>2, ShapeFrame DEF Protect, TypeOK
  <2>3. QED
    BY <2>1, <2>2, <1>0
<1>4. ASSUME NEW v \in VAddrs, Unmap(v)
      PROVE  IInv'
  <2>1. Shape(v)'
    <3>1. leaf[v] \in 0..2
      BY <1>4 DEF Unmap, TypeOK, NoLeaf
    <3>2. QED
      BY <1>4, <3>1 DEF Unmap, Shape, TypeOK, NoLeaf, Levels
  <2>2. ASSUME NEW w \in VAddrs, w # v PROVE Shape(w)'
    BY <1>4, <2>2, ShapeFrame DEF Unmap, TypeOK
  <2>3. QED
    BY <2>1, <2>2, <1>0
<1>5. ASSUME NEW v \in VAddrs, Split(v)
      PROVE  IInv'
  <2>1. Shape(v)'
    <3> DEFINE L == leaf[v]
    <3>1. L \in {1, 2}
      BY <1>5 DEF Split
    <3>2. SplitFlags(L, pt[v][L]) \cap {0, 1, 2} = pt[v][L] \cap {0, 1, 2}
      BY SplitFacts
    <3>3. TerminalFlags(L - 1, asked[v]) = TerminalFlags(L, asked[v])
      BY TerminalLevelFree
    <3>4. pt[v][L] \cap {0, 1, 2} = TerminalFlags(L, asked[v]) \cap {0, 1, 2}
      BY <3>1 DEF Shape, NoLeaf
    <3>5. QED
      BY <1>5, <3>1, <3>2, <3>3, <3>4 DEF Split, Shape, TypeOK, NoLeaf, Levels
  <2>2. ASSUME NEW w \in VAddrs, w # v PROVE Shape(w)'
    BY <1>5, <2>2, ShapeFrame DEF Split, TypeOK
  <2>3. QED
    BY <2>1, <2>2, <1>0
<1>6. CASE UNCHANGED vars
  BY <1>6, <1>0, ShapeFrame DEF vars
<1>7. QED
  BY <1>2, <1>3, <1>4, <1>5, <1>6 DEF Next

THEOREM ShapeInvariant == Spec => []IInv
BY IInvInit, IInvStep, PTL DEF Spec

(***************************************************************************)
(* On the host MMU the walk never grants more than was asked.  For a      *)
(* mapped address the leaf level is read by the walk (the intermediates  *)
(* above it are present and carry no PS), so the rights granted are among *)
(* the leaf's bits 0..2, which are the request's.  For an unmapped        *)
(* address the walk reads a zero entry: the first one from the top, or    *)
(* the level-0 entry when every level above it is intermediate.           *)
(***************************************************************************)
LEMMA MmuWalkBounded ==
    ASSUME Arch = "mmu", TypeOK, NEW v \in VAddrs, Shape(v)
    PROVE  Access(v) \subseteq Requested(v)
<1> DEFINE I == IntermediateFlags
<1>1. I = {0, 1}
  BY DEF IntermediateFlags, MmuIntermediateFlags, X86_MMU_PG_RW, X86_MMU_PG_P
<1>2. \A k \in 1..3 : Present(I) /\ ~IsLeafEntry(I, k)
  BY <1>1 DEF Present, IsLeafEntry
<1>3. CASE leaf[v] = NoLeaf
  <2>1. \E k \in Visited(v) : pt[v][k] = {}
    <3>1. \A k \in Levels : pt[v][k] \in {{}, I}
      BY <1>3 DEF Shape
    <3>2. pt[v][0] = {}
      BY <1>3 DEF Shape
    <3>3. QED
      BY <3>1, <3>2, <1>2 DEF Visited, Levels
  <2>2. ~Translates(v)
    BY <2>1 DEF Translates, Present
  <2>3. QED
    BY <2>2 DEF Access
<1>4. CASE leaf[v] # NoLeaf
  <2> DEFINE L == leaf[v]
  <2>1. L \in 0..2
    BY <1>4 DEF TypeOK, NoLeaf
  <2>2. L \in Visited(v)
    <3>1. \A k \in (L + 1)..3 : pt[v][k] = I
      BY <1>4, <2>1 DEF Shape, Levels
    <3>2. QED
      BY <2>1, <3>1, <1>2 DEF Visited, Levels
  <2>3. pt[v][L] \cap {0, 1, 2} = asked[v] \cap {0, 1, 2}
    BY <1>4, MmuTerminalBits DEF Shape, TerminalFlags
  <2>4. Access(v) \subseteq pt[v][L] \cap {0, 1, 2}
    BY <2>2 DEF Access
  <2>5. QED
    BY <1>4, <2>3, <2>4 DEF Requested
<1>5. QED
  BY <1>3, <1>4

\* WalkNeverExceedsRequest, checked by the run mmutlb through the
\* composition MmuTlb, holds on the host MMU for every set of addresses and
\* every set of portable flag words.
THEOREM MmuWalkNeverExceedsRequest ==
    Arch = "mmu" => (Spec => []WalkNeverExceedsRequest)
<1> SUFFICES ASSUME Arch = "mmu" PROVE Spec => []WalkNeverExceedsRequest
  OBVIOUS
<1>1. IInv => WalkNeverExceedsRequest
  BY MmuWalkBounded DEF IInv, WalkNeverExceedsRequest
<1>2. QED
  BY <1>1, ShapeInvariant, PTL

(***************************************************************************)
(* On EPT a split keeps the access the walk grants.  The EPT split copies *)
(* the large leaf whole one level down, PS included, and puts the         *)
(* intermediate R|W|X above it, so the walk reads the same leaf bits      *)
(* through one more entry that grants everything.                         *)
(***************************************************************************)

\* The EPT split keeps a large leaf's PS wherever the leaf goes.
LEMMA EptIInvStep ==
    ASSUME Arch = "ept"
    PROVE  EptIInv /\ [Next]_vars => EptIInv'
<1> SUFFICES ASSUME EptIInv, [Next]_vars PROVE EptIInv'
  OBVIOUS
<1>1. IInv'
  BY IInvStep DEF EptIInv
<1>2. ASSUME NEW w \in VAddrs PROVE LeafHasPs(w)'
  <2>1. CASE \E v \in VAddrs, l \in Levels, f \in Requests : Map(v, l, f)
    <3>1. PICK v \in VAddrs, l \in Levels, f \in Requests : Map(v, l, f)
      BY <2>1
    <3>2. CASE w = v
      BY <3>1, <3>2 DEF Map, LeafHasPs, EptIInv, IInv, TypeOK, LeafEntry, SetIf,
                        X86_MMU_PG_PS, Levels
    <3>3. CASE w # v
      BY <3>1, <3>3 DEF Map, LeafHasPs, EptIInv, IInv, TypeOK
    <3>4. QED
      BY <3>2, <3>3
  <2>2. CASE \E v \in VAddrs, f \in Requests : Protect(v, f)
    BY <2>2 DEF Protect, LeafHasPs, EptIInv, IInv, TypeOK, LeafEntry, SetIf,
                X86_MMU_PG_PS, Levels
  <2>3. CASE \E v \in VAddrs : Unmap(v)
    BY <2>3 DEF Unmap, LeafHasPs, EptIInv, IInv, TypeOK, NoLeaf, Levels
  <2>4. CASE \E v \in VAddrs : Split(v)
    BY <2>4 DEF Split, LeafHasPs, EptIInv, IInv, TypeOK, Levels, SplitFlags,
                EptSplitFlags
  <2>5. CASE UNCHANGED vars
    BY <2>5 DEF vars, LeafHasPs, EptIInv
  <2>6. QED
    BY <2>1, <2>2, <2>3, <2>4, <2>5 DEF Next
<1>3. QED
  BY <1>1, <1>2 DEF EptIInv

\* A walk path with EPT intermediates above a leaf at level L grants the
\* leaf's bits 0..2 when the leaf is present, nothing otherwise.
LEMMA EptWalkOfLeaf ==
    ASSUME Arch = "ept", NEW v, NEW L \in 0..2,
           \A k \in Levels : k > L => pt[v][k] = {0, 1, 2},
           IsLeafEntry(pt[v][L], L)
    PROVE  Access(v) = IF Present(pt[v][L]) THEN pt[v][L] \cap {0, 1, 2} ELSE {}
<1>1. Visited(v) = L..3
  BY DEF Visited, Levels, Present, IsLeafEntry
<1>2. Translates(v) <=> Present(pt[v][L])
  BY <1>1 DEF Translates, Present, Levels
<1>3. \A b \in 0..2 : (\A l \in L..3 : b \in pt[v][l]) <=> b \in pt[v][L]
  BY DEF Levels
<1>4. CASE Present(pt[v][L])
  <2>1. Access(v) = {b \in 0..2 : \A l \in L..3 : b \in pt[v][l]}
    BY <1>1, <1>2, <1>4 DEF Access
  <2>2. QED
    BY <1>3, <1>4, <2>1
<1>5. CASE ~Present(pt[v][L])
  BY <1>2, <1>5 DEF Access
<1>6. QED
  BY <1>4, <1>5

\* The same, one step later.
LEMMA EptWalkOfLeafPrimed ==
    ASSUME Arch = "ept", NEW v, NEW L \in 0..2,
           \A k \in Levels : k > L => pt'[v][k] = {0, 1, 2},
           IsLeafEntry(pt'[v][L], L)
    PROVE  Access(v)' = IF Present(pt'[v][L]) THEN pt'[v][L] \cap {0, 1, 2} ELSE {}
<1>1. Visited(v)' = L..3
  BY DEF Visited, Levels, Present, IsLeafEntry
<1>2. Translates(v)' <=> Present(pt'[v][L])
  BY <1>1 DEF Translates, Present, Levels
<1>3. \A b \in 0..2 : (\A l \in L..3 : b \in pt'[v][l]) <=> b \in pt'[v][L]
  BY DEF Levels
<1>4. CASE Present(pt'[v][L])
  <2>1. Access(v)' = {b \in 0..2 : \A l \in L..3 : b \in pt'[v][l]}
    BY <1>1, <1>2, <1>4 DEF Access
  <2>2. QED
    BY <1>3, <1>4, <2>1
<1>5. CASE ~Present(pt'[v][L])
  BY <1>2, <1>5 DEF Access
<1>6. QED
  BY <1>4, <1>5

\* Under the EPT invariant a split leaves the walk of its address alone.
LEMMA EptSplitStep ==
    ASSUME Arch = "ept", EptIInv, NEW v \in VAddrs, Split(v)
    PROVE  Access(v)' = Access(v)
<1> DEFINE L == leaf[v]  E == pt[v][L]
<1>1. L \in {1, 2} /\ 7 \in E
  BY DEF Split, EptIInv, LeafHasPs
<1>2. \A k \in Levels : k > L => pt[v][k] = {0, 1, 2}
  BY <1>1 DEF EptIInv, IInv, Shape, NoLeaf, IntermediateFlags, EptIntermediateFlags
<1>3. Access(v) = IF Present(E) THEN E \cap {0, 1, 2} ELSE {}
  BY <1>1, <1>2, EptWalkOfLeaf DEF IsLeafEntry
<1>4. pt'[v][L - 1] = E
  BY <1>1 DEF Split, EptIInv, IInv, TypeOK, Levels, SplitFlags, EptSplitFlags
<1>5. \A k \in Levels : k > L - 1 => pt'[v][k] = {0, 1, 2}
  BY <1>1, <1>2 DEF Split, EptIInv, IInv, TypeOK, Levels, IntermediateFlags,
                    EptIntermediateFlags
<1>6. Access(v)' = IF Present(E) THEN E \cap {0, 1, 2} ELSE {}
  BY <1>1, <1>4, <1>5, EptWalkOfLeafPrimed DEF IsLeafEntry
<1>7. QED
  BY <1>3, <1>6

\* SplitPreservesAccess, checked by the run pt_ept_split on three
\* addresses, holds on EPT for every set of addresses and flag words:
\* ept_split_flags demotes a large page without changing what it grants.
THEOREM EptSplitPreservesAccess ==
    Arch = "ept" => (Spec => SplitPreservesAccess)
<1> SUFFICES ASSUME Arch = "ept" PROVE Spec => SplitPreservesAccess
  OBVIOUS
<1>1. Init => EptIInv
  BY IInvInit DEF EptIInv, LeafHasPs, Init, NoLeaf
<1>2. EptIInv => \A v \in VAddrs : Split(v) => Access(v)' = Access(v)
  BY EptSplitStep
<1>3. QED
  BY <1>1, <1>2, EptIInvStep, PTL DEF Spec, SplitPreservesAccess

(***************************************************************************)
(* What is_vaddr_canonical accepts.                                        *)
(***************************************************************************)

\* For every 64-bit word, is_vaddr_canonical accepts exactly the words
\* whose bits 63..48 are all clear or all set: bit 47 is never read.
LEMMA IsVaddrCanonicalBits ==
    ASSUME NEW v \in Word
    PROVE  IsVaddrCanonical(v) <=> (v \cap 48..63 = {} \/ 48..63 \subseteq v)
<1> DEFINE H == ShiftRight(v, 48)
<1>0. v \subseteq 0..63
  BY DEF Word
<1>1. H = {} <=> v \cap 48..63 = {}
  <2>1. {c \in v : c >= 48} = v \cap 48..63
    <3>1. ASSUME NEW c \in v PROVE c >= 48 <=> c \in 48..63
      BY <1>0
    <3>2. QED
      BY <3>1
  <2>2. H = {} <=> {c \in v : c >= 48} = {}
    BY DEF ShiftRight
  <2>3. QED
    BY <2>1, <2>2
<1>2. H = 0..15 <=> 48..63 \subseteq v
  <2>1. ASSUME NEW b \in 0..15 PROVE b \in H <=> b + 48 \in v
    <3>1. b + 48 \in v => b \in H
      BY DEF ShiftRight
    <3>2. b \in H => b + 48 \in v
      BY <1>0 DEF ShiftRight
    <3>3. QED
      BY <3>1, <3>2
  <2>2. H \subseteq 0..15
    BY <1>0 DEF ShiftRight
  <2>3. QED
    BY <2>1, <2>2
<1>3. QED
  BY <1>1, <1>2 DEF IsVaddrCanonical

\* Every canonical address passes the check: it never refuses a mapping it
\* should accept.
THEOREM CanonicalAccepted ==
    ASSUME NEW v \in Word, Canonical48(v)
    PROVE  IsVaddrCanonical(v)
<1>1. v \cap 48..63 = {} \/ 48..63 \subseteq v
  BY DEF Canonical48
<1>2. QED
  BY <1>1, IsVaddrCanonicalBits

\* The check is not sound: 0x0000_8000_0000_0000 (bit 47 alone) passes it
\* and is not canonical, the address the run pt_canonical maps.
THEOREM NonCanonicalAccepted ==
    /\ {47} \in Word
    /\ IsVaddrCanonical({47})
    /\ ~Canonical48({47})
<1>1. {47} \in Word
  BY DEF Word
<1>2. IsVaddrCanonical({47})
  BY <1>1, IsVaddrCanonicalBits
<1>3. ~Canonical48({47})
  BY DEF Canonical48
<1>4. QED
  BY <1>1, <1>2, <1>3
=============================================================================
