SPECIFICATION Spec
CONSTANTS
    Replicas = {r1, r2, r3}
    Conns = {k1, k2, k3}
    PortMax = 2
    Overlap = TRUE
    MaxOthers = 0
    None = None
PROPERTIES NewTunnelLeftAlone
