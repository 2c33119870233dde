CONSTANTS
    NCpus = 2
    XsaveCpus <- MC_XsaveSome
    BootRegs <- MC_BootRegs
    BootPat <- MC_BootPat
    BootMtrrDef <- MC_BootMtrrDef
SPECIFICATION Spec
INVARIANT AttributesAgree XsaveInitNoFault
PROPERTY MtrrEnablesKept
CHECK_DEADLOCK FALSE
