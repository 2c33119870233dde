CONSTANTS
    NCpus = 2
    XsaveCpus <- MC_XsaveAll
    BootRegs <- MC_BootRegs
    BootPat <- MC_BootPat
    BootMtrrDef <- MC_BootMtrrDef
SPECIFICATION Spec
INVARIANT NoFault
