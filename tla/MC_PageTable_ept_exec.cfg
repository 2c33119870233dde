CONSTANTS
    Arch = "ept"
    VAddrs <- MC_VAddrs
    Requests <- MC_Requests
SPECIFICATION Spec
INVARIANT ExecuteGranted
