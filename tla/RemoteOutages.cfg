SPECIFICATION Spec
CONSTANTS
    Replicas = {r1}
    Users = {u1}
    Tasks = {t1, t2}
    Deployers = {d1}
    MaxCmds = 3
    MaxFaults = 2
    Events = {"link", "tunnel", "agent", "server", "ping", "sweep"}
    Overtake = FALSE
    None = None
INVARIANTS TypeOK RunningIsWatched
PROPERTIES KeepsContract
