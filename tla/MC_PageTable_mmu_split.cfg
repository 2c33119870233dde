CONSTANTS
    Arch = "mmu"
    VAddrs <- MC_VAddrs
    Requests <- MC_Requests
SPECIFICATION Spec
PROPERTY SplitPreservesAccess
