------------------------------- MODULE PageTable -------------------------------
(***************************************************************************)
(* The translator of PageTableFlags in use: the page-table code of the VM  *)
(* layer (spec section 2: "runtime callers use the flag translator         *)
(* whenever they install or query page-table entries") maps, re-protects, *)
(* unmaps and splits pages through one translator table, host MMU or EPT, *)
(* and the CPU's page walk decides what access the entries grant.          *)
(*                                                                         *)
(* Each virtual address has its own walk path of four entries, pt[v][l]   *)
(* for the levels 0 (PT) .. 3 (PML4), an entry being the set of its flag  *)
(* bits ({} is a zero entry).  The frame is left out: no property reads   *)
(* it.  The caller is modelled from the spec (its code is not in this      *)
(* repository): a leaf at level l > 0 carries PS ("terminal(L, F) | PS",   *)
(* spec 4.5), a split turns the leaf into an intermediate entry and puts   *)
(* split(L, entry) one level down.  The page walk is the architecture's.  *)
(***************************************************************************)
EXTENDS PageTableFlags, Integers

CONSTANTS
    Arch,       \* "mmu": the host translator, "ept": the nested one
    VAddrs,     \* virtual addresses the caller maps (uint64_t words)
    Requests    \* portable flag words the caller passes (uint32_t words)

ASSUME ArchAssumption == Arch \in {"mmu", "ept"}
ASSUME VAddrsAssumption == VAddrs \subseteq Word
ASSUME RequestsAssumption == Requests \subseteq Word32

VARIABLES
    pt,         \* pt[v][l]: flags of the level-l entry on v's walk path
    leaf,       \* the caller's level of v's leaf entry, NoLeaf if unmapped
    asked       \* the portable flags of v's last map or protect

vars == <<pt, leaf, asked>>

Levels == 0..3
NoLeaf == -1

(* The translator table the caller holds, sys_x86.c lines 466-559. *)
TerminalFlags(l, f) ==
    IF Arch = "mmu" THEN MmuTerminalFlags(l, f) ELSE EptTerminalFlags(l, f)
IntermediateFlags ==
    IF Arch = "mmu" THEN MmuIntermediateFlags ELSE EptIntermediateFlags
SupportsPageSize(l) ==
    IF Arch = "mmu" THEN MmuSupportsPageSize(l) ELSE EptSupportsPageSize(l)
SplitFlags(l, e) ==
    IF Arch = "mmu" THEN MmuSplitFlags(l, e) ELSE EptSplitFlags(l, e)
CheckVaddr(v) ==
    IF Arch = "mmu" THEN IsVaddrCanonical(v) ELSE EptCheckVaddr(v)
AllowedFlags(f) ==
    IF Arch = "mmu" THEN TRUE ELSE EptAllowedFlags(f)

\* The entry the caller writes for a leaf at level l.
LeafEntry(l, f) == TerminalFlags(l, f) \cup SetIf(l > 0, X86_MMU_PG_PS)

TypeOK ==
    /\ pt \in [VAddrs -> [Levels -> Word]]
    /\ leaf \in [VAddrs -> {NoLeaf} \cup 0..2]
    /\ asked \in [VAddrs -> Word32]

Init ==
    /\ pt = [v \in VAddrs |-> [l \in Levels |-> {}]]
    /\ leaf = [v \in VAddrs |-> NoLeaf]
    /\ asked = [v \in VAddrs |-> {}]

\* Map v with a level-l leaf: intermediates above it, nothing below it.
Map(v, l, f) ==
    /\ leaf[v] = NoLeaf
    /\ CheckVaddr(v)
    /\ AllowedFlags(f)
    /\ l = 0 \/ SupportsPageSize(l)
    /\ pt' = [pt EXCEPT ![v] = [k \in Levels |->
                 IF k > l THEN IntermediateFlags
                 ELSE IF k = l THEN LeafEntry(l, f) ELSE {}]]
    /\ leaf' = [leaf EXCEPT ![v] = l]
    /\ asked' = [asked EXCEPT ![v] = f]

\* Rewrite the leaf of a mapped address with new flags.
Protect(v, f) ==
    /\ leaf[v] # NoLeaf
    /\ AllowedFlags(f)
    /\ pt' = [pt EXCEPT ![v][leaf[v]] = LeafEntry(leaf[v], f)]
    /\ asked' = [asked EXCEPT ![v] = f]
    /\ UNCHANGED leaf

\* Zero the leaf.
Unmap(v) ==
    /\ leaf[v] # NoLeaf
    /\ pt' = [pt EXCEPT ![v][leaf[v]] = {}]
    /\ leaf' = [leaf EXCEPT ![v] = NoLeaf]
    /\ UNCHANGED asked

\* Demote a large leaf: it becomes an intermediate entry and the entries
\* one level down get split(level, flags) of it.
Split(v) ==
    /\ leaf[v] \in {1, 2}
    /\ pt' = [pt EXCEPT ![v][leaf[v]] = IntermediateFlags,
                        ![v][leaf[v] - 1] = SplitFlags(leaf[v], pt[v][leaf[v]])]
    /\ leaf' = [leaf EXCEPT ![v] = leaf[v] - 1]
    /\ UNCHANGED asked

Next ==
    \E v \in VAddrs :
        \/ \E l \in Levels, f \in Requests : Map(v, l, f)
        \/ \E f \in Requests : Protect(v, f)
        \/ Unmap(v)
        \/ Split(v)

Spec == Init /\ [][Next]_vars

(***************************************************************************)
(* The CPU's page walk (Intel SDM vol. 3, 4.5 and 29.3.2).  An entry is    *)
(* present when P is set (host) or one of R, W, X is set (EPT); at levels *)
(* 1 and 2 an entry with PS (bit 7) is a leaf, level 0 always is.  An      *)
(* access right is granted when every entry of the walk grants it: P/RW/U *)
(* for the host, R/W/X for EPT, both at bits 0, 1, 2 like the portable    *)
(* flags.                                                                  *)
(***************************************************************************)
Present(e) == IF Arch = "mmu" THEN 0 \in e ELSE e \cap {0, 1, 2} # {}

IsLeafEntry(e, l) == l = 0 \/ (l \in {1, 2} /\ 7 \in e)

\* The levels the walk of v reads: those below which every entry is a
\* present non-leaf.
Visited(v) ==
    {l \in Levels : \A k \in (l + 1)..3 :
                        Present(pt[v][k]) /\ ~IsLeafEntry(pt[v][k], k)}

Translates(v) == \A l \in Visited(v) : Present(pt[v][l])

Access(v) ==
    IF Translates(v)
    THEN {b \in 0..2 : \A l \in Visited(v) : b \in pt[v][l]}
    ELSE {}

\* The rights the caller asked for v: none when v is unmapped.
Requested(v) == IF leaf[v] = NoLeaf THEN {} ELSE asked[v] \cap {0, 1, 2}

(***************************************************************************)
(* Properties.                                                             *)
(***************************************************************************)

\* Whatever sequence of map, protect, split and unmap calls the VM layer
\* makes, the CPU's walk never grants a right (present/read, write,
\* user/execute) that the last call for that address did not ask for: the
\* terminal and intermediate encodings of the translator together never
\* widen access.
WalkNeverExceedsRequest == \A v \in VAddrs : Access(v) \subseteq Requested(v)

\* Every mapping asked present is reachable with exactly the rights asked:
\* what spec 8.3/8.4 promises for the translator's round trip, seen
\* through the page walk that also reads the intermediate entries.
WalkGrantsRequest ==
    \A v \in VAddrs :
        leaf[v] # NoLeaf /\ 0 \in asked[v] => Access(v) = Requested(v)

\* EPT only (the portable bit 0x4 is EXECUTE there): a mapping the caller
\* asked executable is executable through the walk.  Spec Scenario D has
\* ept_terminal(0, 0x4) = 0x7 and Invariant 4 has the decode of the leaf
\* give back 0x4.
ExecuteGranted ==
    \A v \in VAddrs :
        Arch = "ept" /\ leaf[v] # NoLeaf /\ 2 \in asked[v] => 2 \in Access(v)

\* Demoting a large page (split_flags) never changes the access the walk
\* grants to any address.
SplitPreservesAccess ==
    [][\A v \in VAddrs : Split(v) => Access(v)' = Access(v)]_vars

\* 48-bit paging: an address is canonical when bits 63..48 all equal bit 47
\* (spec section 3 and glossary).
Canonical48(v) == \A b \in 48..63 : (b \in v) <=> (47 \in v)

\* Only canonical addresses are ever mapped: the vaddr check the caller
\* runs (is_vaddr_canonical, ept_check_vaddr) rejects every other address.
MappedOnlyCanonical == \A v \in VAddrs : leaf[v] # NoLeaf => Canonical48(v)
=============================================================================
