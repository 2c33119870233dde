CONSTANTS
    NCpus = 2
    XsaveCpus <- MC_XsaveNone
    BootRegs <- MC_BootRegs
    BootPat <- MC_BootPat
    BootMtrrDef <- MC_BootMtrrDef
SPECIFICATION Spec
INVARIANT NoFault
