SPECIFICATION Spec
CONSTANTS
    Replicas = {r1, r2, r3}
    Conns = {k1, k2, k3}
    PortMax = 2
    Overlap = FALSE
    MaxOthers = 1
    None = None
SYMMETRY TunnelSymmetry
INVARIANTS TypeOK PortsDistinct NoLeakedListener RunningIsRouted RunningHasTunnel ConnectedHasTunnel
