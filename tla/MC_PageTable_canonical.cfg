CONSTANTS
    Arch = "mmu"
    VAddrs <- MC_VAddrsHole
    Requests <- MC_Requests
SPECIFICATION Spec
INVARIANT MappedOnlyCanonical
