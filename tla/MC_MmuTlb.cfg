CONSTANTS
    c1 = c1
    c2 = c2
    CPUs <- MC_CPUs
    VAddrs <- MC_VAddrs
    Requests <- MC_Requests
SPECIFICATION Spec
INVARIANT WalkNeverExceedsRequest
PROPERTY ShootdownSpec
