CONSTANTS
    c1 = c1
    c2 = c2
    p1 = p1
    p2 = p2
    CPUs <- MC_CPUs
    VAddrs <- MC_VAddrs
    Ptes <- MC_GlobalPtes
    ShootdownBy = "one"
SYMMETRY Symmetry
SPECIFICATION Spec
INVARIANT TlbCoherent
